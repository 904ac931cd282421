---------------------------- MODULE SchedProofs -----------------------------
(***************************************************************************)
(* The scheduler of kernel/thread.c keeps every thread in its place, for   *)
(* any number of threads, processors, priorities and wait queues and any   *)
(* mix of calls; a processor that reschedules takes the highest priority;  *)
(* the preemption timer follows the thread; and no idle processor is left  *)
(* without an interrupt beside a thread it could run.                      *)
(***************************************************************************)
EXTENDS Sched, TLAPS

-----------------------------------------------------------------------------
\* The lists of the code: the threads of a list, and that each is there once.

Elems(s) == {s[i] : i \in 1..Len(s)}
Once(s) == \A i, j \in 1..Len(s) : s[i] = s[j] => i = j

\* list_delete() takes one node out.
LEMMA Deleted ==
  ASSUME NEW s \in Seq(Thread), NEW i \in 1..Len(s), Once(s)
  PROVE  /\ list_delete(s, i) \in Seq(Thread) /\ Once(list_delete(s, i))
         /\ Elems(list_delete(s, i)) = Elems(s) \ {s[i]}
         /\ Len(list_delete(s, i)) = Len(s) - 1
         /\ list_delete(s, i) = <<>> <=> Len(s) = 1
<1> DEFINE d == list_delete(s, i)
<1>1. Len(s) \in Nat /\ Len(s) >= 1 /\ Len(s) - 1 \in Nat
  OBVIOUS
<1>2. d \in [1..(Len(s) - 1) -> Thread]
  BY DEF list_delete
<1>3. d \in Seq(Thread) /\ Len(d) = Len(s) - 1
  BY <1>1, <1>2
<1>4. \A k \in 1..(Len(s) - 1) : d[k] = IF k < i THEN s[k] ELSE s[k + 1]
  BY Zenon DEF list_delete
<1> HIDE DEF d
<1>5. Once(d)
  <2> SUFFICES ASSUME NEW k \in 1..Len(d), NEW l \in 1..Len(d), d[k] = d[l]
               PROVE  k = l
    BY Zenon DEF Once
  <2>1. PICK m \in 1..Len(s) : d[k] = s[m] /\ m = IF k < i THEN k ELSE k + 1
    BY <1>1, <1>3, <1>4
  <2>2. PICK n \in 1..Len(s) : d[l] = s[n] /\ n = IF l < i THEN l ELSE l + 1
    BY <1>1, <1>3, <1>4
  <2>3. m = n
    BY <2>1, <2>2, Zenon DEF Once
  <2> QED BY <1>1, <1>3, <2>1, <2>2, <2>3
<1>6. Elems(d) = Elems(s) \ {s[i]}
  <2>1. ASSUME NEW k \in 1..Len(d)
        PROVE  d[k] \in Elems(s) /\ d[k] # s[i]
    <3>1. PICK m \in 1..Len(s) : d[k] = s[m] /\ m = IF k < i THEN k ELSE k + 1
      BY <1>1, <1>3, <1>4
    <3>2. m # i
      BY <1>1, <1>3, <3>1
    <3> QED BY <3>1, <3>2, Zenon DEF Elems, Once
  <2>2. ASSUME NEW k \in 1..Len(s), k # i
        PROVE  s[k] \in Elems(d)
    <3>1. CASE k < i
      BY <1>1, <1>3, <1>4, <3>1 DEF Elems
    <3>2. CASE k > i
      <4>1. k - 1 \in 1..Len(d) /\ d[k - 1] = s[k]
        BY <1>1, <1>3, <1>4, <3>2
      <4> QED BY <4>1, Zenon DEF Elems
    <3> QED BY <2>2, <3>1, <3>2
  <2> QED BY <2>1, <2>2, Zenon DEF Elems
<1>7. d = <<>> <=> Len(s) = 1
  BY <1>1, <1>3
<1> QED BY <1>3, <1>5, <1>6, <1>7, Zenon DEF d

\* list_add_head() of a thread that is not in the list.
LEMMA AtHead ==
  ASSUME NEW s \in Seq(Thread), NEW t \in Thread, Once(s), t \notin Elems(s)
  PROVE  /\ <<t>> \o s \in Seq(Thread) /\ Once(<<t>> \o s) /\ Elems(<<t>> \o s) = Elems(s) \cup {t}
         /\ <<t>> \o s # <<>>
<1> DEFINE d == <<t>> \o s
<1>1. d \in Seq(Thread) /\ Len(d) = Len(s) + 1 /\ Len(s) \in Nat
  OBVIOUS
<1>2. d[1] = t /\ \A k \in 2..Len(d) : d[k] = s[k - 1]
  OBVIOUS
<1>3. \A k \in 1..Len(s) : k + 1 \in 2..Len(d) /\ d[k + 1] = s[k]
  BY <1>1, <1>2
<1> HIDE DEF d
<1>4. \A k \in 1..Len(d) : k = 1 \/ (k \in 2..Len(d) /\ k - 1 \in 1..Len(s))
  BY <1>1
<1>5. Once(d)
  <2> SUFFICES ASSUME NEW k \in 1..Len(d), NEW l \in 1..Len(d), d[k] = d[l]
               PROVE  k = l
    BY Zenon DEF Once
  <2>1. \A m \in 1..Len(d) : m # 1 => d[m] # t
    BY <1>2, <1>4, Zenon DEF Elems
  <2>2. CASE k = 1 \/ l = 1
    BY <1>2, <2>1, <2>2, Zenon
  <2>3. CASE k # 1 /\ l # 1
    <3>1. k - 1 \in 1..Len(s) /\ l - 1 \in 1..Len(s) /\ s[k - 1] = s[l - 1]
      BY <1>2, <1>4, <2>3, Zenon
    <3> QED BY <1>1, <3>1 DEF Once
  <2> QED BY <2>2, <2>3, Zenon
<1>6. Elems(d) = Elems(s) \cup {t}
  <2>1. \A k \in 1..Len(d) : d[k] \in Elems(s) \cup {t}
    BY <1>2, <1>4, Zenon DEF Elems
  <2>2. t \in Elems(d)
    BY <1>1, <1>2 DEF Elems
  <2>3. \A k \in 1..Len(s) : s[k] \in Elems(d)
    BY <1>1, <1>3 DEF Elems
  <2> QED BY <2>1, <2>2, <2>3, Zenon DEF Elems
<1> QED BY <1>1, <1>5, <1>6 DEF d

\* list_add_tail() of a thread that is not in the list.
LEMMA AtTail ==
  ASSUME NEW s \in Seq(Thread), NEW t \in Thread, Once(s), t \notin Elems(s)
  PROVE  /\ Append(s, t) \in Seq(Thread) /\ Once(Append(s, t)) /\ Elems(Append(s, t)) = Elems(s) \cup {t}
         /\ Append(s, t) # <<>> /\ Len(Append(s, t)) = Len(s) + 1
<1> DEFINE d == Append(s, t)
<1>1. d \in Seq(Thread) /\ Len(d) = Len(s) + 1 /\ Len(s) \in Nat
  OBVIOUS
<1>2. d[Len(d)] = t /\ \A k \in 1..Len(s) : d[k] = s[k]
  OBVIOUS
<1> HIDE DEF d
<1>3. \A k \in 1..Len(d) : k = Len(d) \/ k \in 1..Len(s)
  BY <1>1
<1>4. Once(d)
  BY <1>1, <1>2, <1>3, Zenon DEF Once, Elems
<1>5. Elems(d) = Elems(s) \cup {t}
  <2>1. \A k \in 1..Len(d) : d[k] \in Elems(s) \cup {t}
    BY <1>2, <1>3, Zenon DEF Elems
  <2>2. t \in Elems(d)
    BY <1>1, <1>2 DEF Elems
  <2>3. \A k \in 1..Len(s) : s[k] \in Elems(d)
    BY <1>1, <1>2 DEF Elems
  <2> QED BY <2>1, <2>2, <2>3, Zenon DEF Elems
<1> QED BY <1>1, <1>4, <1>5 DEF d

\* list_remove_head() of a list that is not empty.
LEMMA HeadTaken ==
  ASSUME NEW s \in Seq(Thread), s # <<>>, Once(s)
  PROVE  /\ Head(s) \in Thread /\ Head(s) \in Elems(s)
         /\ Tail(s) \in Seq(Thread) /\ Once(Tail(s)) /\ Elems(Tail(s)) = Elems(s) \ {Head(s)}
         /\ Len(Tail(s)) = Len(s) - 1
<1> DEFINE d == Tail(s)
<1>1. d \in Seq(Thread) /\ Len(d) = Len(s) - 1 /\ Len(s) \in Nat /\ Len(s) >= 1
  OBVIOUS
<1>2. Head(s) = s[1] /\ \A k \in 1..Len(d) : d[k] = s[k + 1]
  OBVIOUS
<1>3. Head(s) \in Thread /\ Head(s) \in Elems(s)
  BY <1>1, <1>2 DEF Elems
<1> HIDE DEF d
<1>4. Once(d)
  BY <1>1, <1>2 DEF Once
<1>5. Elems(d) = Elems(s) \ {Head(s)}
  <2>1. ASSUME NEW k \in 1..Len(d)
        PROVE  d[k] \in Elems(s) /\ d[k] # s[1]
    BY <1>1, <1>2 DEF Elems, Once
  <2>2. ASSUME NEW k \in 1..Len(s), k # 1
        PROVE  s[k] \in Elems(d)
    <3>1. k - 1 \in 1..Len(d) /\ (k - 1) + 1 = k
      BY <1>1, <2>2
    <3>2. d[k - 1] = s[k]
      BY <1>2, <3>1, Zenon
    <3> QED BY <3>1, <3>2, Zenon DEF Elems
  <2>3. Elems(d) = Elems(s) \ {s[1]}
    BY <2>1, <2>2, Zenon DEF Elems
  <2> QED BY <1>2, <2>3, Zenon
<1> QED BY <1>1, <1>3, <1>4, <1>5, Zenon DEF d

-----------------------------------------------------------------------------
\* The inductive invariant, in terms of what a step passes on to thread_resched().

\* A thread is in the run queue of its priority, once, if it is ready, and in no other; the
\* bitmap has the bits of the queues that hold a thread.
RunQueues(st, pr, rq, bm) ==
  /\ rq \in [Prio -> Seq(Thread)] /\ bm \subseteq Prio
  /\ \A p \in Prio : Once(rq[p]) /\ (p \in bm <=> rq[p] # <<>>)
  /\ \A p \in Prio : \A t \in Thread : t \in Elems(rq[p]) <=> st[t] = "ready" /\ pr[t] = p

\* A thread is on the wait queue it names, once, if it is blocked, and on no other; the counts
\* are the lengths.
WaitQueues(st, bwq, wl, wc) ==
  /\ wl \in [WaitQ -> Seq(Thread)]
  /\ \A w \in WaitQ : Once(wl[w]) /\ wc[w] = Len(wl[w])
  /\ \A w \in WaitQ : \A t \in Thread : t \in Elems(wl[w]) <=> st[t] = "blocked" /\ bwq[t] = w
  /\ \A t \in Thread : st[t] = "blocked" => bwq[t] \in WaitQ

\* The running threads are the current threads of the processors, each of one; not that of
\* processor "away", whose thread is about to be switched from.
Currents(st, cu, away) ==
  /\ \A c, d \in CPU : cu[c] = cu[d] => c = d
  /\ \A c \in CPU : cu[c] \in Thread \cup {c}
  /\ \A c \in CPU : c # away => st[cu[c]] = "running"
  /\ \A t \in AllThread : st[t] = "running" => \E c \in CPU : c # away /\ cu[c] = t

\* The processor in wait_queue_wake_all() whose thread has been put back already.
Away == IF waking.cpu # NoCPU /\ waking.reschedule THEN waking.cpu ELSE NoCPU

IInv ==
  /\ TypeOK
  /\ RunQueues(state, priority, run_queue, run_queue_bitmap)
  /\ WaitQueues(state, blocking_wait_queue, list, wait_count)
  /\ Currents(state, current, Away)
  /\ PinnedStaysPut
  /\ waking.cpu # NoCPU /\ list[waking.queue] = <<>> => waking.mask # {}

\* Thread t has been added to queue p of rq, at either end.
Inserted(rq, p, t, rq2) ==
  rq2 = insert_in_run_queue_head(rq, p, t) \/ rq2 = insert_in_run_queue_tail(rq, p, t)

\* Making a thread ready and adding it to the queue of its priority, which may be a new one
\* (thread_set_priority), keeps the run queues in order, whichever end it is added to.
LEMMA Queued ==
  ASSUME NEW st \in [AllThread -> ThreadState], NEW pr \in [Thread -> Prio], NEW rq, NEW bm,
         RunQueues(st, pr, rq, bm), NEW t \in Thread, st[t] # "ready", NEW p \in Prio,
         NEW rq2, Inserted(rq, p, t, rq2)
  PROVE  RunQueues([st EXCEPT ![t] = "ready"], [pr EXCEPT ![t] = p], rq2, bm \cup {p})
<1>1. t \in AllThread
  BY Zenon DEF AllThread
<1>2. rq[p] \in Seq(Thread) /\ Once(rq[p]) /\ t \notin Elems(rq[p])
  BY Zenon DEF RunQueues
<1>3. /\ rq2[p] \in Seq(Thread) /\ Once(rq2[p]) /\ Elems(rq2[p]) = Elems(rq[p]) \cup {t} /\ rq2[p] # <<>>
      /\ rq2 \in [Prio -> Seq(Thread)] /\ \A r \in Prio \ {p} : rq2[r] = rq[r]
  <2>1. CASE rq2 = [rq EXCEPT ![p] = <<t>> \o @]
    <3>1. rq2[p] = <<t>> \o rq[p]
      BY <2>1, Zenon DEF RunQueues
    <3>2. \A r \in Prio \ {p} : rq2[r] = rq[r]
      BY <2>1, Zenon DEF RunQueues
    <3>3. <<t>> \o rq[p] \in Seq(Thread)
      BY <1>2, AtHead, Zenon
    <3>4. rq2 \in [Prio -> Seq(Thread)]
      BY <2>1, <3>3, Zenon DEF RunQueues
    <3> QED BY <1>2, <3>1, <3>2, <3>4, AtHead, Zenon
  <2>2. CASE rq2 = [rq EXCEPT ![p] = Append(@, t)]
    <3>1. rq2[p] = Append(rq[p], t)
      BY <2>2, Zenon DEF RunQueues
    <3>2. \A r \in Prio \ {p} : rq2[r] = rq[r]
      BY <2>2, Zenon DEF RunQueues
    <3>3. rq2 \in [Prio -> Seq(Thread)]
      BY <2>2 DEF RunQueues
    <3> QED BY <1>2, <3>1, <3>2, <3>3, AtTail, Zenon
  <2> QED BY <2>1, <2>2, Zenon DEF Inserted, insert_in_run_queue_head, insert_in_run_queue_tail
<1> DEFINE st2 == [st EXCEPT ![t] = "ready"]
           pr2 == [pr EXCEPT ![t] = p]
<1>4. /\ st2[t] = "ready" /\ pr2[t] = p
      /\ \A u \in Thread \ {t} : st2[u] = st[u] /\ pr2[u] = pr[u]
  BY <1>1, Zenon DEF AllThread
<1> HIDE DEF st2, pr2
<1>5. ASSUME NEW r \in Prio, NEW u \in Thread
      PROVE  u \in Elems(rq2[r]) <=> st2[u] = "ready" /\ pr2[u] = r
  <2>1. u \in Elems(rq[r]) <=> st[u] = "ready" /\ pr[u] = r
    BY Zenon DEF RunQueues
  <2>2. u \in Elems(rq2[r]) <=> u \in Elems(rq[r]) \/ (u = t /\ r = p)
    BY <1>3, Zenon
  <2>3. CASE u = t
    BY <1>4, <2>1, <2>2, <2>3, Zenon
  <2>4. CASE u # t
    BY <1>4, <2>1, <2>2, <2>4, Zenon
  <2> QED BY <2>3, <2>4, Zenon
<1>6. \A r \in Prio : Once(rq2[r]) /\ (r \in bm \cup {p} <=> rq2[r] # <<>>)
  BY <1>3, Zenon DEF RunQueues
<1>7. bm \cup {p} \subseteq Prio
  BY Zenon DEF RunQueues
<1>8. RunQueues(st2, pr2, rq2, bm \cup {p})
  BY <1>3, <1>5, <1>6, <1>7, Zenon DEF RunQueues
<1> QED BY <1>8, Zenon DEF st2, pr2

\* The run queues depend on which threads are ready, and on nothing else of the states.
LEMMA QueuedSame ==
  ASSUME NEW st, NEW st2, NEW pr, NEW rq, NEW bm, RunQueues(st, pr, rq, bm),
         \A t \in Thread : st2[t] = "ready" <=> st[t] = "ready"
  PROVE  RunQueues(st2, pr, rq, bm)
BY Zenon DEF RunQueues

\* And the wait queues on which are blocked.
LEMMA WaitingSame ==
  ASSUME NEW st, NEW st2, NEW bwq, NEW wl, NEW wc, WaitQueues(st, bwq, wl, wc),
         \A t \in Thread : st2[t] = "blocked" <=> st[t] = "blocked"
  PROVE  WaitQueues(st2, bwq, wl, wc)
BY Zenon DEF WaitQueues

\* The i-th thread of queue p, t, is taken out of it, the bit with it if it was the last.
Taken(rq, bm, p, i, t, rq2, bm2) ==
  /\ p \in bm /\ i \in 1..Len(rq[p]) /\ t = rq[p][i]
  /\ rq2 = [rq EXCEPT ![p] = list_delete(@, i)]
  /\ bm2 = IF Len(rq[p]) = 1 THEN bm \ {p} ELSE bm

\* Taking a thread from a run queue to run it keeps them in order.
LEMMA Dequeued ==
  ASSUME NEW st \in [AllThread -> ThreadState], NEW pr, NEW rq, NEW bm, RunQueues(st, pr, rq, bm),
         NEW p, NEW i, NEW t, NEW rq2, NEW bm2, Taken(rq, bm, p, i, t, rq2, bm2)
  PROVE  /\ t \in Thread /\ st[t] = "ready" /\ pr[t] = p
         /\ RunQueues([st EXCEPT ![t] = "running"], pr, rq2, bm2)
<1> USE DEF Taken
<1> DEFINE d == list_delete(rq[p], i)
<1>1. p \in Prio /\ rq[p] \in Seq(Thread) /\ Once(rq[p])
  BY Zenon DEF RunQueues
<1>2. t \in Thread /\ t = rq[p][i]
  BY <1>1
<1>3. t \in Elems(rq[p]) /\ st[t] = "ready" /\ pr[t] = p
  BY <1>1, <1>2 DEF Elems, RunQueues
<1>4. /\ d \in Seq(Thread) /\ Once(d) /\ Elems(d) = Elems(rq[p]) \ {t} /\ (d = <<>> <=> Len(rq[p]) = 1)
  BY <1>1, <1>2, Deleted, Zenon
<1>5. /\ rq2 \in [Prio -> Seq(Thread)] /\ rq2[p] = d /\ \A r \in Prio \ {p} : rq2[r] = rq[r]
  BY <1>1, <1>4 DEF RunQueues
<1>6. bm2 \subseteq Prio /\ \A r \in Prio : Once(rq2[r]) /\ (r \in bm2 <=> rq2[r] # <<>>)
  BY <1>1, <1>4, <1>5, Zenon DEF RunQueues
<1> DEFINE st2 == [st EXCEPT ![t] = "running"]
<1>7. st2[t] = "running" /\ \A u \in Thread \ {t} : st2[u] = st[u]
  BY <1>2, Zenon DEF AllThread
<1> HIDE DEF d, st2
<1>8. ASSUME NEW r \in Prio, NEW u \in Thread
      PROVE  u \in Elems(rq2[r]) <=> st2[u] = "ready" /\ pr[u] = r
  <2>1. u \in Elems(rq[r]) <=> st[u] = "ready" /\ pr[u] = r
    BY Zenon DEF RunQueues
  <2>2. u \in Elems(rq2[r]) <=> u \in Elems(rq[r]) /\ ~(u = t /\ r = p)
    BY <1>4, <1>5, Zenon
  <2>3. CASE u = t
    BY <1>3, <1>7, <2>1, <2>2, <2>3, Zenon
  <2>4. CASE u # t
    BY <1>7, <2>1, <2>2, <2>4, Zenon
  <2> QED BY <2>3, <2>4, Zenon
<1>9. RunQueues(st2, pr, rq2, bm2)
  BY <1>5, <1>6, <1>8, Zenon DEF RunQueues
<1> QED BY <1>2, <1>3, <1>9, Zenon DEF st2

\* The threads' states and the processors' own variables have their types.
CpuTypes ==
  /\ remaining_quantum \in [Thread -> 0..QUANTUM]
  /\ current \in [CPU -> AllThread]
  /\ idle_cpus \subseteq CPU /\ realtime_cpus \subseteq CPU
  /\ preempt_timer \in [CPU -> BOOLEAN]
  /\ panicked \in BOOLEAN

\* What thread_resched() has done on processor c, from the states st and the priorities pr: it
\* switched to thread "new", which was ready and may run there, and left nothing ready there
\* that is above it; it took the idle thread only if there was nothing to run.
Switched(c, st, pr, new) ==
  /\ new \in Thread \cup {c}
  /\ state' = [st EXCEPT ![new] = "running"]
  /\ current' = [current EXCEPT ![c] = new]
  /\ new \in Thread => st[new] = "ready" /\ pinned_cpu[new] \in {AnyCPU, c}
  /\ \A t \in Thread : st[t] = "ready" /\ pinned_cpu[t] \in {AnyCPU, c} => new \in Thread /\ pr[t] <= pr[new]

\* switch_to() makes the new thread the current one, if it has not been.
LEMMA SwitchTypes ==
  ASSUME SchedAssumption, CpuTypes, NEW c \in CPU, NEW new \in Thread \cup {c}, NEW st,
         NEW q \in [Thread -> 0..QUANTUM], NEW pr, switch_to(c, new, st, q, pr)
  PROVE  CpuTypes' /\ current' = [current EXCEPT ![c] = new] /\ state' = [st EXCEPT ![new] = "running"]
<1>1. state' = [st EXCEPT ![new] = "running"]
  BY Zenon DEF switch_to
<1>2. CASE new = current[c]
  BY <1>1, <1>2, Zenon DEF switch_to, CpuTypes
<1>3. CASE new # current[c]
  <2>1. current' = [current EXCEPT ![c] = new]
    BY <1>3, Zenon DEF switch_to
  <2>2. current' \in [CPU -> AllThread]
    BY <2>1, Zenon DEF CpuTypes, AllThread
  <2>3. remaining_quantum' \in [Thread -> 0..QUANTUM]
    <3>1. remaining_quantum' = q \/ remaining_quantum' = [q EXCEPT ![new] = QUANTUM]
      BY <1>3, Zenon DEF switch_to
    <3> QED BY <3>1 DEF SchedAssumption
  <2>4. idle_cpus' \subseteq CPU /\ realtime_cpus' \subseteq CPU
    BY <1>3, Zenon DEF switch_to, CpuTypes
  <2>5. panicked' \in BOOLEAN
    BY <1>3, Zenon DEF switch_to, CpuTypes
  <2>6. preempt_timer' \in [CPU -> BOOLEAN]
    <3>1. \E b \in BOOLEAN : preempt_timer' \in {preempt_timer, [preempt_timer EXCEPT ![c] = b]}
      BY <1>3, Zenon DEF switch_to
    <3> QED BY <3>1, Zenon DEF CpuTypes
  <2> QED BY <1>1, <2>1, <2>2, <2>3, <2>4, <2>5, <2>6, Zenon DEF CpuTypes
<1> QED BY <1>2, <1>3, Zenon

\* switch_to() starts the preemption timer under the threads that are to be preempted, and
\* stops it under the others; it never finds it started.
LEMMA SwitchTimer ==
  ASSUME SchedAssumption, CpuTypes, PreemptTimerFollowsThread, NEW c \in CPU, NEW new \in Thread \cup {c}, NEW st,
         NEW q \in [Thread -> 0..QUANTUM], NEW pr, switch_to(c, new, st, q, pr), UNCHANGED real_time
  PROVE  PreemptTimerFollowsThread'
<1> DEFINE rt(t) == t \in CPU \/ real_time[t]
<1>1. \A t : thread_is_real_time_or_idle(t) <=> rt(t)
  BY Zenon DEF thread_is_real_time_or_idle
<1>2. \A t : thread_is_real_time_or_idle(t)' <=> rt(t)
  BY Zenon DEF thread_is_real_time_or_idle
<1>3. CASE new = current[c]
  BY <1>1, <1>2, <1>3, Zenon DEF switch_to, PreemptTimerFollowsThread
<1>4. CASE new # current[c]
  <2>1. current' = [current EXCEPT ![c] = new]
    BY <1>4, Zenon DEF switch_to
  <2>2. current'[c] = new /\ \A d \in CPU \ {c} : current'[d] = current[d]
    BY <2>1, Zenon DEF CpuTypes
  <2>3. ~panicked'
    BY <1>4, Zenon DEF switch_to, PreemptTimerFollowsThread
  <2>4. ASSUME DYNAMIC_TIMER, NEW d \in CPU
        PROVE  preempt_timer'[d] <=> ~rt(current'[d])
    <3>1. preempt_timer[d] <=> ~rt(current[d])
      BY <1>1, <2>4, Zenon DEF PreemptTimerFollowsThread
    <3>2. CASE d # c
      BY <1>4, <2>2, <3>1, <3>2, Zenon DEF switch_to, CpuTypes
    <3>3. CASE d = c
      <4>1. CASE rt(new) <=> rt(current[c])
        BY <1>1, <1>4, <2>2, <3>1, <3>3, <4>1, Zenon DEF switch_to
      <4>2. CASE ~(rt(new) <=> rt(current[c]))
        <5>1. preempt_timer' = [preempt_timer EXCEPT ![c] = ~rt(new)]
          BY <1>1, <1>4, <2>4, <4>2, Zenon DEF switch_to
        <5> QED BY <2>2, <3>3, <5>1, Zenon DEF CpuTypes
      <4> QED BY <4>1, <4>2, Zenon
    <3> QED BY <3>2, <3>3, Zenon
  <2> QED BY <1>2, <2>3, <2>4, Zenon DEF PreemptTimerFollowsThread
<1> QED BY <1>3, <1>4, Zenon

\* Switching to a thread that was not running, with the old one out of the way, gives every
\* processor its thread again.
LEMMA SwitchCurrents ==
  ASSUME SchedAssumption, NEW c \in CPU, NEW st \in [AllThread -> ThreadState], NEW cu \in [CPU -> AllThread],
         Currents(st, cu, c), NEW new \in Thread \cup {c}, new \in Thread => st[new] = "ready"
  PROVE  Currents([st EXCEPT ![new] = "running"], [cu EXCEPT ![c] = new], NoCPU)
<1> DEFINE st2 == [st EXCEPT ![new] = "running"]
           cu2 == [cu EXCEPT ![c] = new]
<1>1. new \in AllThread
  BY Zenon DEF AllThread
<1>2. /\ st2[new] = "running" /\ \A t \in AllThread \ {new} : st2[t] = st[t]
      /\ cu2[c] = new /\ \A d \in CPU \ {c} : cu2[d] = cu[d]
  BY <1>1, Zenon
<1>3. \A d \in CPU \ {c} : cu[d] # new
  <2>1. CASE new \in Thread
    BY <2>1, Zenon DEF Currents
  <2>2. CASE new = c
    BY <2>2 DEF Currents, SchedAssumption
  <2> QED BY <2>1, <2>2, Zenon
<1> HIDE DEF st2, cu2
<1>4. \A d, e \in CPU : cu2[d] = cu2[e] => d = e
  BY <1>2, <1>3 DEF Currents
<1>5. \A d \in CPU : cu2[d] \in Thread \cup {d}
  BY <1>2, Zenon DEF Currents
<1>6. \A d \in CPU : st2[cu2[d]] = "running"
  BY <1>2, <1>3 DEF Currents
<1>7. \A t \in AllThread : st2[t] = "running" => \E d \in CPU : cu2[d] = t
  BY <1>2 DEF Currents
<1>8. \A d \in CPU : d # NoCPU
  BY Zenon DEF SchedAssumption
<1>9. Currents(st2, cu2, NoCPU)
  BY <1>4, <1>5, <1>6, <1>7, <1>8, Zenon DEF Currents
<1> QED BY <1>9, Zenon DEF st2, cu2

\* thread_resched() on processor c, whose thread has been put where it is to wait, finds the
\* next thread, and leaves queues and processors in order.
LEMMA Resched ==
  ASSUME SchedAssumption, CpuTypes, pinned_cpu \in [Thread -> CPU \cup {AnyCPU}], NEW c \in CPU,
         NEW st \in [AllThread -> ThreadState], NEW q \in [Thread -> 0..QUANTUM], NEW pr \in [Thread -> Prio],
         NEW rq, NEW bm, RunQueues(st, pr, rq, bm), Currents(st, current, c),
         thread_resched(c, st, q, pr, rq, bm)
  PROVE  /\ CpuTypes' /\ RunQueues(state', pr, run_queue', run_queue_bitmap') /\ Currents(state', current', NoCPU)
         /\ \E new \in Thread \cup {c} : Switched(c, st, pr, new) /\ switch_to(c, new, st, q, pr)
<1>1. ASSUME NEW p \in bm, NEW i \in Runnable(c, rq[p]), get_top_thread(c, rq, bm, p, i),
             run_queue' = [rq EXCEPT ![p] = list_delete(@, i)],
             run_queue_bitmap' = IF Len(rq[p]) = 1 THEN bm \ {p} ELSE bm,
             switch_to(c, rq[p][i], st, q, pr)
      PROVE  /\ CpuTypes' /\ RunQueues(state', pr, run_queue', run_queue_bitmap') /\ Currents(state', current', NoCPU)
             /\ \E new \in Thread \cup {c} : Switched(c, st, pr, new) /\ switch_to(c, new, st, q, pr)
  <2>1. i \in 1..Len(rq[p]) /\ pinned_cpu[rq[p][i]] \in {AnyCPU, c}
    BY Zenon DEF Runnable
  <2>2. PICK new : new = rq[p][i]
    BY Zenon
  <2>3. /\ new \in Thread /\ st[new] = "ready" /\ pr[new] = p
        /\ RunQueues([st EXCEPT ![new] = "running"], pr, run_queue', run_queue_bitmap')
    <3>1. Taken(rq, bm, p, i, new, run_queue', run_queue_bitmap')
      BY <1>1, <2>1, <2>2, Zenon DEF Taken
    <3> QED BY <3>1, Dequeued, Zenon
  <2>4. switch_to(c, new, st, q, pr)
    BY <1>1, <2>2, Zenon
  <2>5. CpuTypes' /\ current' = [current EXCEPT ![c] = new] /\ state' = [st EXCEPT ![new] = "running"]
    BY <2>3, <2>4, SwitchTypes
  <2>6. Currents(state', current', NoCPU)
    BY <2>3, <2>5, SwitchCurrents, Zenon DEF CpuTypes
  <2>7. ASSUME NEW t \in Thread, st[t] = "ready", pinned_cpu[t] \in {AnyCPU, c}
        PROVE  pr[t] <= pr[new]
    <3>1. pr[t] \in Prio /\ t \in Elems(rq[pr[t]])
      BY <2>7, Zenon DEF RunQueues
    <3>2. pr[t] \in bm
      BY <3>1 DEF RunQueues, Elems
    <3>3. Runnable(c, rq[pr[t]]) # {}
      BY <2>7, <3>1, Zenon DEF Elems, Runnable
    <3>4. ~(pr[t] > p)
      BY <1>1, <3>2, <3>3, Zenon DEF get_top_thread
    <3>5. pr[t] \in Int /\ p \in Int
      BY <3>1, <3>2 DEF Prio, RunQueues, SchedAssumption
    <3> QED BY <2>3, <3>4, <3>5
  <2>8. Switched(c, st, pr, new)
    BY <2>1, <2>2, <2>3, <2>5, <2>7, Zenon DEF Switched
  <2> QED BY <2>3, <2>4, <2>5, <2>6, <2>8, Zenon
<1>2. ASSUME \A p \in bm : Runnable(c, rq[p]) = {}, run_queue' = rq, run_queue_bitmap' = bm,
             switch_to(c, idle_thread(c), st, q, pr)
      PROVE  /\ CpuTypes' /\ RunQueues(state', pr, run_queue', run_queue_bitmap') /\ Currents(state', current', NoCPU)
             /\ \E new \in Thread \cup {c} : Switched(c, st, pr, new) /\ switch_to(c, new, st, q, pr)
  <2>1. switch_to(c, c, st, q, pr) /\ c \notin Thread /\ c \in AllThread
    BY <1>2, Zenon DEF idle_thread, SchedAssumption, AllThread
  <2>2. CpuTypes' /\ current' = [current EXCEPT ![c] = c] /\ state' = [st EXCEPT ![c] = "running"]
    BY <2>1, SwitchTypes
  <2>3. Currents(state', current', NoCPU)
    BY <2>1, <2>2, SwitchCurrents, Zenon DEF CpuTypes
  <2>4. \A t \in Thread : state'[t] = st[t]
    BY <2>1, <2>2, Zenon DEF AllThread
  <2>5. RunQueues(state', pr, run_queue', run_queue_bitmap')
    BY <1>2, <2>4, QueuedSame, Zenon
  <2>6. ASSUME NEW t \in Thread, st[t] = "ready", pinned_cpu[t] \in {AnyCPU, c}
        PROVE  FALSE
    <3>1. pr[t] \in Prio /\ t \in Elems(rq[pr[t]])
      BY <2>6, Zenon DEF RunQueues
    <3>2. pr[t] \in bm
      BY <3>1 DEF RunQueues, Elems
    <3>3. Runnable(c, rq[pr[t]]) # {}
      BY <2>6, <3>1, Zenon DEF Elems, Runnable
    <3> QED BY <1>2, <3>2, <3>3, Zenon
  <2>7. Switched(c, st, pr, c)
    BY <2>1, <2>2, <2>6, Zenon DEF Switched
  <2> QED BY <2>1, <2>2, <2>3, <2>5, <2>7, Zenon
<1> QED BY <1>1, <1>2, Zenon DEF thread_resched

\* The types of what thread_resched() leaves alone.
RestTypes ==
  /\ priority \in [Thread -> Prio]
  /\ pinned_cpu \in [Thread -> CPU \cup {AnyCPU}]
  /\ real_time \in [Thread -> BOOLEAN]
  /\ blocking_wait_queue \in [Thread -> WaitQ \cup {"NULL"}]
  /\ timer \in [Thread -> CPU \cup {NoCPU}]
  /\ wait_count \in [WaitQ -> Nat]
  /\ active_cpus \subseteq CPU /\ ipi \subseteq CPU
  /\ irq \in [CPU -> {"none", "timer", "resched"}]
  /\ yielding \subseteq AllThread
  /\ waking \in {NotWaking} \cup [cpu : CPU, queue : WaitQ, reschedule : BOOLEAN, mask : SUBSET CPU]

\* Every step begins and ends with the types in these parts.
LEMMA TypesSplit ==
  ASSUME IInv
  PROVE  CpuTypes /\ RestTypes /\ state \in [AllThread -> ThreadState]
BY Zenon DEF IInv, TypeOK, CpuTypes, RestTypes

\* The parts make up TypeOK again.
LEMMA TypesJoin ==
  ASSUME CpuTypes', RestTypes', state' \in [AllThread -> ThreadState],
         RunQueues(state', priority', run_queue', run_queue_bitmap'),
         WaitQueues(state', blocking_wait_queue', list', wait_count')
  PROVE  TypeOK'
BY Zenon DEF TypeOK, CpuTypes, RestTypes, RunQueues, WaitQueues

\* With thread_lock free no thread is in wait_queue_wake_all().
LEMMA NobodyAway ==
  ASSUME SchedAssumption, IInv, waking.cpu = NoCPU
  PROVE  waking = NotWaking /\ Currents(state, current, NoCPU)
<1>1. waking = NotWaking
  BY Zenon DEF IInv, TypeOK, SchedAssumption
<1>2. Away = NoCPU
  BY Zenon DEF Away
<1> QED BY <1>1, <1>2, Zenon DEF IInv

\* The thread of processor c is put into some other state before a switch.
LEMMA Leaving ==
  ASSUME SchedAssumption, NEW st \in [AllThread -> ThreadState], current \in [CPU -> AllThread],
         Currents(st, current, NoCPU), NEW c \in CPU, NEW x \in ThreadState \ {"running"}
  PROVE  Currents([st EXCEPT ![current[c]] = x], current, c)
<1> DEFINE st2 == [st EXCEPT ![current[c]] = x]
<1>1. st2[current[c]] = x /\ \A t \in AllThread \ {current[c]} : st2[t] = st[t]
  BY Zenon
<1> HIDE DEF st2
<1>2. \A d \in CPU : d # NoCPU
  BY Zenon DEF SchedAssumption
<1>3. \A d \in CPU : d # c => st2[current[d]] = "running"
  BY <1>1, <1>2 DEF Currents
<1>4. \A t \in AllThread : st2[t] = "running" => \E d \in CPU : d # c /\ current[d] = t
  BY <1>1, Zenon DEF Currents
<1>5. Currents(st2, current, c)
  BY <1>3, <1>4, Zenon DEF Currents
<1> QED BY <1>5, Zenon DEF st2

\* Processor c has rescheduled, from the states st.
Rescheduled(c, st) ==
  /\ st \in [AllThread -> ThreadState]
  /\ \E q \in [Thread -> 0..QUANTUM], new \in Thread \cup {c} :
        Switched(c, st, priority', new) /\ switch_to(c, new, st, q, priority')

\* A step that ends in thread_resched() on processor c keeps the invariant, whatever it has
\* done to the current thread.
LEMMA ReschedStep ==
  ASSUME SchedAssumption, IInv, NEW c \in CPU,
         NEW st \in [AllThread -> ThreadState], NEW q \in [Thread -> 0..QUANTUM], NEW pr \in [Thread -> Prio],
         NEW rq, NEW bm, RunQueues(st, pr, rq, bm), Currents(st, current, c),
         thread_resched(c, st, q, pr, rq, bm),
         WaitQueues(st, blocking_wait_queue', list', wait_count'),
         priority' = pr, UNCHANGED pinned_cpu, waking' = NotWaking, RestTypes'
  PROVE  IInv' /\ Rescheduled(c, st)
<1>1. CpuTypes /\ pinned_cpu \in [Thread -> CPU \cup {AnyCPU}]
  BY TypesSplit, Zenon DEF RestTypes
<1>2. /\ CpuTypes' /\ RunQueues(state', priority', run_queue', run_queue_bitmap') /\ Currents(state', current', NoCPU)
      /\ \E new \in Thread \cup {c} : Switched(c, st, pr, new) /\ switch_to(c, new, st, q, pr)
  BY <1>1, Resched, Zenon
<1>3. PICK new \in Thread \cup {c} : Switched(c, st, pr, new) /\ switch_to(c, new, st, q, pr)
  BY <1>2, Zenon
<1>4. state' = [st EXCEPT ![new] = "running"] /\ new \in AllThread /\ c \notin Thread
  BY <1>3, Zenon DEF Switched, AllThread, SchedAssumption
<1>5. state' \in [AllThread -> ThreadState]
  BY <1>4, Zenon DEF ThreadState
<1>6. \A t \in Thread : state'[t] = "blocked" <=> st[t] = "blocked"
  <2>1. new \in Thread => st[new] = "ready"
    BY <1>3, Zenon DEF Switched
  <2> QED BY <1>4, <2>1, Zenon DEF AllThread
<1>7. WaitQueues(state', blocking_wait_queue', list', wait_count')
  BY <1>6, WaitingSame, Zenon
<1>8. TypeOK'
  BY <1>2, <1>5, <1>7, TypesJoin, Zenon
<1>9. Away' = NoCPU /\ waking'.cpu = NoCPU
  BY Zenon DEF Away, NotWaking
<1>10. PinnedStaysPut'
  <2> SUFFICES ASSUME NEW d \in CPU, current'[d] \in Thread
               PROVE  pinned_cpu[current'[d]] \in {AnyCPU, d}
    BY Zenon DEF PinnedStaysPut
  <2>1. current'[c] = new /\ \A e \in CPU \ {c} : current'[e] = current[e]
    BY <1>1, <1>3, Zenon DEF Switched, CpuTypes
  <2>2. CASE d = c
    BY <1>3, <2>1, <2>2, Zenon DEF Switched
  <2>3. CASE d # c
    BY <2>1, <2>3, Zenon DEF IInv, PinnedStaysPut
  <2> QED BY <2>2, <2>3, Zenon
<1>11. Rescheduled(c, st)
  BY <1>3, Zenon DEF Rescheduled
<1> QED BY <1>2, <1>7, <1>8, <1>9, <1>10, <1>11, Zenon DEF IInv

-----------------------------------------------------------------------------
\* The steps.

\* The current thread goes back to a run queue: yielding, preempted, or with a new priority.
LEMMA BackInQueue ==
  ASSUME SchedAssumption, IInv, waking.cpu = NoCPU, NEW c \in CPU, current[c] \in Thread, NEW p \in Prio,
         NEW rq2, Inserted(run_queue, p, current[c], rq2)
  PROVE  /\ RunQueues([state EXCEPT ![current[c]] = "ready"], [priority EXCEPT ![current[c]] = p], rq2,
                      run_queue_bitmap \cup {p})
         /\ Currents([state EXCEPT ![current[c]] = "ready"], current, c)
         /\ WaitQueues([state EXCEPT ![current[c]] = "ready"], blocking_wait_queue, list, wait_count)
         /\ [state EXCEPT ![current[c]] = "ready"] \in [AllThread -> ThreadState]
<1>1. /\ state \in [AllThread -> ThreadState] /\ priority \in [Thread -> Prio] /\ current \in [CPU -> AllThread]
      /\ RunQueues(state, priority, run_queue, run_queue_bitmap)
      /\ WaitQueues(state, blocking_wait_queue, list, wait_count)
  BY Zenon DEF IInv, TypeOK
<1>2. Currents(state, current, NoCPU)
  BY NobodyAway, Zenon
<1>3. state[current[c]] = "running"
  BY <1>2, Zenon DEF Currents, SchedAssumption
<1>4. RunQueues([state EXCEPT ![current[c]] = "ready"], [priority EXCEPT ![current[c]] = p], rq2,
                run_queue_bitmap \cup {p})
  BY <1>1, <1>3, Queued, Zenon
<1>5. Currents([state EXCEPT ![current[c]] = "ready"], current, c)
  BY <1>1, <1>2, Leaving, Zenon DEF ThreadState
<1>6. [state EXCEPT ![current[c]] = "ready"] \in [AllThread -> ThreadState]
  BY <1>1, Zenon DEF ThreadState
<1>7. \A t \in Thread : [state EXCEPT ![current[c]] = "ready"][t] = "blocked" <=> state[t] = "blocked"
  BY <1>1, <1>3, Zenon DEF AllThread
<1>8. WaitQueues([state EXCEPT ![current[c]] = "ready"], blocking_wait_queue, list, wait_count)
  BY <1>1, <1>7, WaitingSame, Zenon
<1> QED BY <1>4, <1>5, <1>6, <1>8, Zenon

\* The idle thread goes back to no queue.
LEMMA IdleBack ==
  ASSUME SchedAssumption, IInv, waking.cpu = NoCPU, NEW c \in CPU, current[c] = c
  PROVE  /\ RunQueues([state EXCEPT ![c] = "ready"], priority, run_queue, run_queue_bitmap)
         /\ Currents([state EXCEPT ![c] = "ready"], current, c)
         /\ WaitQueues([state EXCEPT ![c] = "ready"], blocking_wait_queue, list, wait_count)
         /\ [state EXCEPT ![c] = "ready"] \in [AllThread -> ThreadState]
<1>1. /\ state \in [AllThread -> ThreadState] /\ current \in [CPU -> AllThread]
      /\ RunQueues(state, priority, run_queue, run_queue_bitmap)
      /\ WaitQueues(state, blocking_wait_queue, list, wait_count)
  BY Zenon DEF IInv, TypeOK
<1>2. Currents(state, current, NoCPU)
  BY NobodyAway, Zenon
<1>3. \A t \in Thread : [state EXCEPT ![c] = "ready"][t] = state[t]
  BY <1>1, Zenon DEF SchedAssumption, AllThread
<1>4. RunQueues([state EXCEPT ![c] = "ready"], priority, run_queue, run_queue_bitmap)
  BY <1>1, <1>3, QueuedSame, Zenon
<1>5. Currents([state EXCEPT ![c] = "ready"], current, c)
  BY <1>1, <1>2, Leaving, Zenon DEF ThreadState
<1>6. [state EXCEPT ![c] = "ready"] \in [AllThread -> ThreadState]
  BY <1>1, Zenon DEF ThreadState
<1>7. WaitQueues([state EXCEPT ![c] = "ready"], blocking_wait_queue, list, wait_count)
  BY <1>1, <1>3, WaitingSame, Zenon
<1> QED BY <1>4, <1>5, <1>6, <1>7, Zenon

\* thread_yield() and thread_preempt(), from either end of the queue.
LEMMA PutBackStep ==
  ASSUME SchedAssumption, IInv, waking.cpu = NoCPU, NEW c \in CPU, NEW q \in [Thread -> 0..QUANTUM],
         NEW head \in BOOLEAN, PutBack(c, q, head), UNCHANGED <<tvars, wvars, waking>>, RestTypes'
  PROVE  IInv' /\ Rescheduled(c, [state EXCEPT ![current[c]] = "ready"])
<1>1. UNCHANGED <<priority, pinned_cpu, blocking_wait_queue, list, wait_count>> /\ waking' = NotWaking
  BY NobodyAway, Zenon DEF tvars, wvars
<1>2. priority \in [Thread -> Prio]
  BY Zenon DEF IInv, TypeOK
<1>3. CASE current[c] \in CPU
  <2>1. current[c] = c
    BY <1>3, Zenon DEF IInv, Currents, SchedAssumption
  <2>2. PICK st : st = [state EXCEPT ![c] = "ready"]
    BY Zenon
  <2>3. thread_resched(c, st, q, priority, run_queue, run_queue_bitmap)
    BY <1>3, <2>1, <2>2, Zenon DEF PutBack, thread_is_idle
  <2> QED BY <1>1, <1>2, <2>1, <2>2, <2>3, IdleBack, ReschedStep, Zenon
<1>4. CASE current[c] \notin CPU
  <2>1. current[c] \in Thread
    BY <1>4, Zenon DEF IInv, TypeOK, AllThread
  <2>2. PICK p \in Prio : p = priority[current[c]]
    BY <1>2, <2>1, Zenon
  <2>3. PICK rq : /\ Inserted(run_queue, p, current[c], rq)
                  /\ thread_resched(c, [state EXCEPT ![current[c]] = "ready"], q, priority, rq,
                                    run_queue_bitmap \cup {p})
    BY <1>4, <2>2, Zenon DEF PutBack, thread_is_idle, Inserted
  <2>4. [priority EXCEPT ![current[c]] = p] = priority
    BY <1>2, <2>1, <2>2, Zenon
  <2> QED BY <1>1, <1>2, <2>1, <2>3, <2>4, BackInQueue, ReschedStep
<1> QED BY <1>3, <1>4, Zenon

\* thread_yield() puts the thread at the end of its queue and takes the next.
LEMMA YieldStep ==
  ASSUME SchedAssumption, IInv, NEW c \in CPU, thread_yield(c)
  PROVE  IInv' /\ Rescheduled(c, [state EXCEPT ![current[c]] = "ready"])
<1>1. waking.cpu = NoCPU /\ UNCHANGED <<tvars, wvars, waking>>
  BY Zenon DEF thread_yield, LockFree
<1>2. PICK q : /\ q = IF current[c] \in Thread THEN [remaining_quantum EXCEPT ![current[c]] = 0] ELSE remaining_quantum
               /\ PutBack(c, q, FALSE)
  BY Zenon DEF thread_yield
<1>3. q \in [Thread -> 0..QUANTUM]
  BY <1>2 DEF IInv, TypeOK, SchedAssumption
<1>4. RestTypes'
  BY TypesSplit, Zenon DEF thread_yield, RestTypes, tvars, wvars
<1> QED BY <1>1, <1>2, <1>3, <1>4, PutBackStep, Zenon

\* thread_preempt() puts the thread at the head, or with its quantum used up at the end.
LEMMA PreemptStep ==
  ASSUME SchedAssumption, IInv, NEW c \in CPU, thread_preempt(c)
  PROVE  IInv' /\ Rescheduled(c, [state EXCEPT ![current[c]] = "ready"])
<1>1. waking.cpu = NoCPU /\ UNCHANGED <<tvars, wvars, waking>>
  BY Zenon DEF thread_preempt, LockFree
<1>2. remaining_quantum \in [Thread -> 0..QUANTUM]
  BY Zenon DEF IInv, TypeOK
<1>3. PICK head \in BOOLEAN : PutBack(c, remaining_quantum, head)
  BY Zenon DEF thread_preempt
<1>4. RestTypes'
  BY TypesSplit, Zenon DEF thread_preempt, RestTypes, tvars, wvars
<1> QED BY <1>1, <1>2, <1>3, <1>4, PutBackStep, Zenon

\* thread_set_priority() moves the caller to the queue of its new priority before it reschedules.
LEMMA SetPriorityStep ==
  ASSUME SchedAssumption, IInv, NEW c \in CPU, NEW arg \in Priorities, thread_set_priority(c, arg)
  PROVE  IInv' /\ Rescheduled(c, [state EXCEPT ![current[c]] = "ready"])
<1>1. /\ waking.cpu = NoCPU /\ current[c] \in Thread
      /\ UNCHANGED <<pinned_cpu, blocking_wait_queue, list, wait_count>>
  BY Zenon DEF thread_set_priority, Running, LockFree, wvars
<1>2. PICK p : p = IF arg <= IDLE_PRIORITY THEN IDLE_PRIORITY + 1
                   ELSE IF arg > HIGHEST_PRIORITY THEN HIGHEST_PRIORITY ELSE arg
  BY Zenon
<1>3. p \in Prio
  BY <1>2 DEF Prio, IDLE_PRIORITY, SchedAssumption
<1>4. PICK pr : pr = [priority EXCEPT ![current[c]] = p]
  BY Zenon
<1>5. PICK rq : rq = insert_in_run_queue_head(run_queue, p, current[c])
  BY Zenon
<1>6. /\ priority' = pr
      /\ thread_resched(c, [state EXCEPT ![current[c]] = "ready"], remaining_quantum, pr, rq, run_queue_bitmap \cup {p})
  BY <1>2, <1>4, <1>5, Zenon DEF thread_set_priority
<1>7. pr \in [Thread -> Prio] /\ remaining_quantum \in [Thread -> 0..QUANTUM]
  BY <1>1, <1>3, <1>4, Zenon DEF IInv, TypeOK
<1>8. Inserted(run_queue, p, current[c], rq)
  BY <1>5, Zenon DEF Inserted
<1>9. RestTypes'
  BY <1>6, <1>7, TypesSplit, Zenon DEF thread_set_priority, RestTypes, wvars
<1>10. waking' = NotWaking
  BY <1>1, NobodyAway, Zenon DEF thread_set_priority
<1>11. /\ RunQueues([state EXCEPT ![current[c]] = "ready"], pr, rq, run_queue_bitmap \cup {p})
       /\ Currents([state EXCEPT ![current[c]] = "ready"], current, c)
       /\ WaitQueues([state EXCEPT ![current[c]] = "ready"], blocking_wait_queue', list', wait_count')
       /\ [state EXCEPT ![current[c]] = "ready"] \in [AllThread -> ThreadState]
  BY <1>1, <1>3, <1>4, <1>8, BackInQueue, Zenon
<1> QED BY <1>6, <1>7, <1>9, <1>10, <1>11, <1>1, ReschedStep, Zenon

\* The current thread leaves the processor for no run queue.
LEMMA OffTheQueues ==
  ASSUME SchedAssumption, IInv, waking.cpu = NoCPU, NEW c \in CPU, current[c] \in Thread,
         NEW x \in {"sleeping", "death", "blocked"}, NEW st, st = [state EXCEPT ![current[c]] = x]
  PROVE  /\ RunQueues(st, priority, run_queue, run_queue_bitmap)
         /\ Currents(st, current, c)
         /\ st \in [AllThread -> ThreadState]
         /\ x # "blocked" => WaitQueues(st, blocking_wait_queue, list, wait_count)
         /\ state[current[c]] = "running"
<1>1. /\ state \in [AllThread -> ThreadState] /\ current \in [CPU -> AllThread]
      /\ RunQueues(state, priority, run_queue, run_queue_bitmap)
      /\ WaitQueues(state, blocking_wait_queue, list, wait_count)
  BY Zenon DEF IInv, TypeOK
<1>2. Currents(state, current, NoCPU)
  BY NobodyAway, Zenon
<1>3. state[current[c]] = "running"
  BY <1>2, Zenon DEF Currents, SchedAssumption
<1>4. st[current[c]] = x /\ \A t \in Thread \ {current[c]} : st[t] = state[t]
  BY <1>1, Zenon DEF AllThread
<1>5. RunQueues(st, priority, run_queue, run_queue_bitmap)
  <2>1. \A t \in Thread : st[t] = "ready" <=> state[t] = "ready"
    BY <1>3, <1>4, Zenon
  <2> QED BY <1>1, <2>1, QueuedSame, Zenon
<1>6. Currents(st, current, c)
  BY <1>1, <1>2, Leaving, Zenon DEF ThreadState
<1>7. st \in [AllThread -> ThreadState]
  BY <1>1, Zenon DEF ThreadState
<1>8. x # "blocked" => WaitQueues(st, blocking_wait_queue, list, wait_count)
  <2>1. x # "blocked" => \A t \in Thread : st[t] = "blocked" <=> state[t] = "blocked"
    BY <1>3, <1>4, Zenon
  <2> QED BY <1>1, <2>1, WaitingSame, Zenon
<1> QED BY <1>3, <1>5, <1>6, <1>7, <1>8, Zenon

\* thread_sleep() and thread_exit() leave the processor to another thread.
LEMMA SleepOrExitStep ==
  ASSUME SchedAssumption, IInv, NEW c \in CPU, NEW x,
         (x = "sleeping" /\ thread_sleep(c)) \/ (x = "death" /\ thread_exit(c))
  PROVE  IInv' /\ Rescheduled(c, [state EXCEPT ![current[c]] = x])
<1>1. /\ waking.cpu = NoCPU /\ current[c] \in Thread
      /\ UNCHANGED <<priority, pinned_cpu, blocking_wait_queue, list, wait_count, waking>>
  BY Zenon DEF thread_sleep, thread_exit, Running, LockFree, tvars, wvars
<1>2. /\ x \in {"sleeping", "death"}
      /\ thread_resched(c, [state EXCEPT ![current[c]] = x], remaining_quantum, priority, run_queue, run_queue_bitmap)
  BY Zenon DEF thread_sleep, thread_exit
<1>3. PICK st : st = [state EXCEPT ![current[c]] = x]
  BY Zenon
<1>4. thread_resched(c, st, remaining_quantum, priority, run_queue, run_queue_bitmap)
  BY <1>2, <1>3, Zenon
<1>5. RestTypes'
  <2>1. timer' \in [Thread -> CPU \cup {NoCPU}]
    BY <1>1, Zenon DEF thread_sleep, thread_exit, IInv, TypeOK, wvars
  <2> QED BY <2>1, TypesSplit, Zenon DEF thread_sleep, thread_exit, RestTypes, tvars, wvars
<1>6. waking' = NotWaking
  BY <1>1, NobodyAway, Zenon
<1>7. priority \in [Thread -> Prio] /\ remaining_quantum \in [Thread -> 0..QUANTUM]
  BY Zenon DEF IInv, TypeOK
<1>8. /\ RunQueues(st, priority, run_queue, run_queue_bitmap) /\ Currents(st, current, c)
      /\ st \in [AllThread -> ThreadState] /\ WaitQueues(st, blocking_wait_queue', list', wait_count')
  BY <1>1, <1>2, <1>3, OffTheQueues, Zenon
<1> QED BY <1>1, <1>2, <1>3, <1>4, <1>5, <1>6, <1>7, <1>8, ReschedStep, Zenon

\* wait_queue_block() puts a thread that was not blocked at the end of one wait queue.
LEMMA Blocking ==
  ASSUME NEW st \in [AllThread -> ThreadState], NEW bwq \in [Thread -> WaitQ \cup {"NULL"}], NEW wl,
         NEW wc \in [WaitQ -> Nat], WaitQueues(st, bwq, wl, wc), NEW t \in Thread, st[t] # "blocked", NEW w \in WaitQ
  PROVE  WaitQueues([st EXCEPT ![t] = "blocked"], [bwq EXCEPT ![t] = w], [wl EXCEPT ![w] = Append(@, t)],
                    [wc EXCEPT ![w] = @ + 1])
<1> DEFINE st2 == [st EXCEPT ![t] = "blocked"]
           bwq2 == [bwq EXCEPT ![t] = w]
           wl2 == [wl EXCEPT ![w] = Append(@, t)]
           wc2 == [wc EXCEPT ![w] = @ + 1]
<1>1. /\ st2[t] = "blocked" /\ bwq2[t] = w
      /\ \A u \in Thread \ {t} : st2[u] = st[u] /\ bwq2[u] = bwq[u]
  BY Zenon DEF AllThread
<1>2. wl[w] \in Seq(Thread) /\ Once(wl[w]) /\ t \notin Elems(wl[w]) /\ wc[w] = Len(wl[w])
  BY Zenon DEF WaitQueues
<1>3. wl2 \in [WaitQ -> Seq(Thread)] /\ wl2[w] = Append(wl[w], t) /\ \A v \in WaitQ \ {w} : wl2[v] = wl[v]
  BY DEF WaitQueues
<1>4. wc2[w] = wc[w] + 1 /\ \A v \in WaitQ \ {w} : wc2[v] = wc[v]
  BY Zenon
<1>5. Once(wl2[w]) /\ Elems(wl2[w]) = Elems(wl[w]) \cup {t} /\ Len(wl2[w]) = Len(wl[w]) + 1
  BY <1>2, <1>3, AtTail, Zenon
<1> HIDE DEF st2, bwq2, wl2, wc2
<1>6. \A v \in WaitQ : Once(wl2[v]) /\ wc2[v] = Len(wl2[v])
  BY <1>2, <1>3, <1>4, <1>5, Zenon DEF WaitQueues
<1>7. ASSUME NEW v \in WaitQ, NEW u \in Thread
      PROVE  u \in Elems(wl2[v]) <=> st2[u] = "blocked" /\ bwq2[u] = v
  <2>1. u \in Elems(wl[v]) <=> st[u] = "blocked" /\ bwq[u] = v
    BY Zenon DEF WaitQueues
  <2>2. u \in Elems(wl2[v]) <=> u \in Elems(wl[v]) \/ (u = t /\ v = w)
    BY <1>3, <1>5, Zenon
  <2>3. CASE u = t
    BY <1>1, <2>1, <2>2, <2>3, Zenon
  <2>4. CASE u # t
    BY <1>1, <2>1, <2>2, <2>4, Zenon
  <2> QED BY <2>3, <2>4, Zenon
<1>8. \A u \in Thread : st2[u] = "blocked" => bwq2[u] \in WaitQ
  BY <1>1, Zenon DEF WaitQueues
<1>9. WaitQueues(st2, bwq2, wl2, wc2)
  BY <1>3, <1>6, <1>7, <1>8, Zenon DEF WaitQueues
<1> QED BY <1>9, Zenon DEF st2, bwq2, wl2, wc2

\* List d is list s without its thread t.
Without(s, t, d) ==
  /\ t \in Thread /\ t \in Elems(s) /\ d \in Seq(Thread) /\ Once(d)
  /\ Elems(d) = Elems(s) \ {t} /\ Len(d) = Len(s) - 1

\* Waking thread t takes it off its wait queue w, which is then d.
LEMMA Unblocking ==
  ASSUME NEW st \in [AllThread -> ThreadState], NEW bwq \in [Thread -> WaitQ \cup {"NULL"}], NEW wl,
         NEW wc \in [WaitQ -> Nat], WaitQueues(st, bwq, wl, wc), NEW t, NEW w \in WaitQ, NEW d,
         Without(wl[w], t, d)
  PROVE  /\ st[t] = "blocked" /\ bwq[t] = w
         /\ WaitQueues([st EXCEPT ![t] = "ready"], [bwq EXCEPT ![t] = "NULL"], [wl EXCEPT ![w] = d],
                       [wc EXCEPT ![w] = @ - 1])
         /\ [wc EXCEPT ![w] = @ - 1] \in [WaitQ -> Nat]
<1> USE DEF Without
<1> DEFINE st2 == [st EXCEPT ![t] = "ready"]
           bwq2 == [bwq EXCEPT ![t] = "NULL"]
           wl2 == [wl EXCEPT ![w] = d]
           wc2 == [wc EXCEPT ![w] = @ - 1]
<1>1. /\ st2[t] = "ready" /\ \A u \in Thread \ {t} : st2[u] = st[u] /\ bwq2[u] = bwq[u]
  BY Zenon DEF AllThread
<1>2. st[t] = "blocked" /\ bwq[t] = w /\ wc[w] = Len(wl[w])
  BY Zenon DEF WaitQueues
<1>3. wl2 \in [WaitQ -> Seq(Thread)] /\ wl2[w] = d /\ \A v \in WaitQ \ {w} : wl2[v] = wl[v]
  BY DEF WaitQueues
<1>4. wc2[w] = Len(d) /\ \A v \in WaitQ \ {w} : wc2[v] = wc[v]
  BY <1>2, Zenon
<1>5. wc2 \in [WaitQ -> Nat]
  <2>1. Len(d) \in Nat
    OBVIOUS
  <2> QED BY <1>2, <2>1, Zenon
<1> HIDE DEF st2, bwq2, wl2, wc2
<1>6. \A v \in WaitQ : Once(wl2[v]) /\ wc2[v] = Len(wl2[v])
  BY <1>3, <1>4, Zenon DEF WaitQueues
<1>7. ASSUME NEW v \in WaitQ, NEW u \in Thread
      PROVE  u \in Elems(wl2[v]) <=> st2[u] = "blocked" /\ bwq2[u] = v
  <2>1. u \in Elems(wl[v]) <=> st[u] = "blocked" /\ bwq[u] = v
    BY Zenon DEF WaitQueues
  <2>2. u \in Elems(wl2[v]) <=> u \in Elems(wl[v]) /\ ~(u = t /\ v = w)
    BY <1>3, Zenon
  <2>3. CASE u = t
    BY <1>1, <1>2, <2>1, <2>2, <2>3, Zenon
  <2>4. CASE u # t
    BY <1>1, <2>1, <2>2, <2>4, Zenon
  <2> QED BY <2>3, <2>4, Zenon
<1>8. \A u \in Thread : st2[u] = "blocked" => bwq2[u] \in WaitQ
  BY <1>1, Zenon DEF WaitQueues
<1>9. WaitQueues(st2, bwq2, wl2, wc2)
  BY <1>3, <1>6, <1>7, <1>8, Zenon DEF WaitQueues
<1> QED BY <1>2, <1>5, <1>9, Zenon DEF st2, bwq2, wl2, wc2

\* wait_queue_block() leaves the processor to another thread.
LEMMA BlockStep ==
  ASSUME SchedAssumption, IInv, NEW c \in CPU, NEW w \in WaitQ, NEW finite \in BOOLEAN,
         wait_queue_block(c, w, finite)
  PROVE  IInv' /\ Rescheduled(c, [state EXCEPT ![current[c]] = "blocked"])
<1>1. /\ waking.cpu = NoCPU /\ current[c] \in Thread
      /\ UNCHANGED <<priority, pinned_cpu, waking>>
      /\ list' = [list EXCEPT ![w] = Append(@, current[c])]
      /\ wait_count' = [wait_count EXCEPT ![w] = @ + 1]
      /\ blocking_wait_queue' = [blocking_wait_queue EXCEPT ![current[c]] = w]
  BY Zenon DEF wait_queue_block, Running, LockFree, tvars
<1>2. PICK st : st = [state EXCEPT ![current[c]] = "blocked"]
  BY Zenon
<1>3. thread_resched(c, st, remaining_quantum, priority, run_queue, run_queue_bitmap)
  BY <1>2, Zenon DEF wait_queue_block
<1>4. RestTypes'
  <2>1. timer' \in [Thread -> CPU \cup {NoCPU}]
    BY <1>1, Zenon DEF wait_queue_block, IInv, TypeOK
  <2>2. blocking_wait_queue' \in [Thread -> WaitQ \cup {"NULL"}] /\ wait_count' \in [WaitQ -> Nat]
    BY <1>1 DEF IInv, TypeOK
  <2> QED BY <2>1, <2>2, TypesSplit, Zenon DEF wait_queue_block, RestTypes, tvars
<1>5. waking' = NotWaking
  BY <1>1, NobodyAway, Zenon
<1>6. /\ priority \in [Thread -> Prio] /\ remaining_quantum \in [Thread -> 0..QUANTUM]
      /\ state \in [AllThread -> ThreadState] /\ blocking_wait_queue \in [Thread -> WaitQ \cup {"NULL"}]
      /\ wait_count \in [WaitQ -> Nat]
  BY Zenon DEF IInv, TypeOK
<1>7. /\ RunQueues(st, priority, run_queue, run_queue_bitmap) /\ Currents(st, current, c)
      /\ st \in [AllThread -> ThreadState] /\ state[current[c]] = "running"
  BY <1>1, <1>2, OffTheQueues, Zenon
<1>8. WaitQueues(st, blocking_wait_queue', list', wait_count')
  <2>1. WaitQueues(state, blocking_wait_queue, list, wait_count)
    BY Zenon DEF IInv
  <2>2. PICK t \in Thread : t = current[c]
    BY <1>1, Zenon
  <2>3. WaitQueues([state EXCEPT ![t] = "blocked"], [blocking_wait_queue EXCEPT ![t] = w],
                   [list EXCEPT ![w] = Append(@, t)], [wait_count EXCEPT ![w] = @ + 1])
    BY <1>6, <1>7, <2>1, <2>2, Blocking, Zenon
  <2> QED BY <1>1, <1>2, <2>2, <2>3, Zenon
<1> QED BY <1>1, <1>2, <1>3, <1>4, <1>5, <1>6, <1>7, <1>8, ReschedStep, Zenon

\* A thread that waits or is new becomes ready at the head of the queue of its priority.
LEMMA MadeReady ==
  ASSUME SchedAssumption, IInv, NEW t \in Thread, state[t] \notin {"ready", "running"}
  PROVE  /\ RunQueues([state EXCEPT ![t] = "ready"], priority,
                      insert_in_run_queue_head(run_queue, priority[t], t), run_queue_bitmap \cup {priority[t]})
         /\ Currents([state EXCEPT ![t] = "ready"], current, Away)
         /\ [state EXCEPT ![t] = "ready"] \in [AllThread -> ThreadState]
<1>1. /\ state \in [AllThread -> ThreadState] /\ priority \in [Thread -> Prio] /\ current \in [CPU -> AllThread]
      /\ RunQueues(state, priority, run_queue, run_queue_bitmap) /\ Currents(state, current, Away)
  BY Zenon DEF IInv, TypeOK
<1>2. PICK p \in Prio : p = priority[t]
  BY <1>1, Zenon
<1>3. PICK rq : rq = insert_in_run_queue_head(run_queue, p, t)
  BY Zenon
<1>4. RunQueues([state EXCEPT ![t] = "ready"], [priority EXCEPT ![t] = p], rq, run_queue_bitmap \cup {p})
  <2>1. Inserted(run_queue, p, t, rq)
    BY <1>3, Zenon DEF Inserted
  <2> QED BY <1>1, <2>1, Queued, Zenon
<1>5. [priority EXCEPT ![t] = p] = priority
  BY <1>1, <1>2, Zenon
<1>6. PICK st : st = [state EXCEPT ![t] = "ready"]
  BY Zenon
<1>7. st[t] = "ready" /\ \A u \in AllThread \ {t} : st[u] = state[u]
  BY <1>1, <1>6, Zenon DEF AllThread
<1>8. Currents(st, current, Away)
  <2>1. \A c \in CPU : c # Away => st[current[c]] = "running"
    BY <1>1, <1>7 DEF Currents
  <2>2. \A u \in AllThread : st[u] = "running" => \E c \in CPU : c # Away /\ current[c] = u
    BY <1>1, <1>7, Zenon DEF Currents
  <2> QED BY <1>1, <2>1, <2>2, Zenon DEF Currents
<1>9. st \in [AllThread -> ThreadState]
  BY <1>1, <1>6, Zenon DEF ThreadState
<1> QED BY <1>2, <1>3, <1>4, <1>5, <1>6, <1>8, <1>9, Zenon

\* A step that makes one thread ready, and reschedules nowhere, keeps the invariant.
LEMMA ReadyStep ==
  ASSUME SchedAssumption, IInv, NEW t \in Thread, state[t] \notin {"ready", "running"},
         state' = [state EXCEPT ![t] = "ready"],
         run_queue' = insert_in_run_queue_head(run_queue, priority[t], t),
         run_queue_bitmap' = run_queue_bitmap \cup {priority[t]},
         WaitQueues(state', blocking_wait_queue', list', wait_count'),
         UNCHANGED <<tvars, cpuvars>>, RestTypes', Away' = Away,
         waking'.cpu # NoCPU /\ list'[waking'.queue] = <<>> => waking'.mask # {}
  PROVE  IInv'
<1>1. /\ UNCHANGED <<priority, pinned_cpu, current>> /\ CpuTypes'
  BY TypesSplit, Zenon DEF tvars, cpuvars, CpuTypes
<1>2. /\ RunQueues(state', priority', run_queue', run_queue_bitmap') /\ Currents(state', current', Away')
      /\ state' \in [AllThread -> ThreadState]
  BY <1>1, MadeReady, Zenon
<1>3. TypeOK'
  BY <1>1, <1>2, TypesJoin, Zenon
<1>4. PinnedStaysPut'
  BY <1>1, Zenon DEF IInv, PinnedStaysPut
<1> QED BY <1>2, <1>3, <1>4, Zenon DEF IInv

\* A thread that was not blocked becomes ready: no wait queue is concerned.
LEMMA NotBlocked ==
  ASSUME IInv, NEW t \in Thread, state[t] # "blocked", state' = [state EXCEPT ![t] = "ready"],
         UNCHANGED <<blocking_wait_queue, list, wait_count>>
  PROVE  WaitQueues(state', blocking_wait_queue', list', wait_count')
<1>1. WaitQueues(state, blocking_wait_queue, list, wait_count) /\ state \in [AllThread -> ThreadState]
  BY Zenon DEF IInv, TypeOK
<1>2. \A u \in Thread : state'[u] = "blocked" <=> state[u] = "blocked"
  BY <1>1, Zenon DEF AllThread
<1> QED BY <1>1, <1>2, WaitingSame, Zenon

\* A step that changes nothing of the threads' places.
LEMMA SameStep ==
  ASSUME SchedAssumption, IInv, UNCHANGED <<state, priority, pinned_cpu, run_queue, run_queue_bitmap, current,
                                            blocking_wait_queue, list, wait_count, waking>>,
         CpuTypes', RestTypes'
  PROVE  IInv'
<1>1. /\ RunQueues(state', priority', run_queue', run_queue_bitmap')
      /\ WaitQueues(state', blocking_wait_queue', list', wait_count')
      /\ state' \in [AllThread -> ThreadState]
  BY Zenon DEF IInv, TypeOK
<1>2. TypeOK'
  BY <1>1, TypesJoin, Zenon
<1>3. Away' = Away
  BY Zenon DEF Away
<1>4. Currents(state', current', Away')
  BY <1>3, Zenon DEF IInv
<1>5. PinnedStaysPut'
  BY Zenon DEF IInv, PinnedStaysPut
<1> QED BY <1>1, <1>2, <1>4, <1>5, Zenon DEF IInv

\* thread_resume() makes a suspended thread ready and leaves any other alone.
LEMMA ResumeStep ==
  ASSUME SchedAssumption, IInv, NEW c \in CPU, NEW t \in Thread, thread_resume(c, t)
  PROVE  IInv'
<1>1. RestTypes' /\ CpuTypes'
  <2>1. ipi' \subseteq CPU
    BY TypesSplit, Zenon DEF thread_resume, wakeup_cpu_for_thread, mp_reschedule, RestTypes
  <2>2. yielding' \subseteq AllThread
    BY TypesSplit DEF thread_resume, RestTypes, CpuTypes
  <2> QED BY <2>1, <2>2, TypesSplit, Zenon DEF thread_resume, RestTypes, CpuTypes, tvars, wvars, cpuvars
<1>2. UNCHANGED <<tvars, wvars, cpuvars, waking>>
  BY Zenon DEF thread_resume
<1>3. waking'.cpu = NoCPU /\ Away' = Away
  BY <1>2, Zenon DEF thread_resume, Running, Booting, LockFree, Away
<1>4. CASE state[t] = "suspended"
  <2>1. /\ state' = [state EXCEPT ![t] = "ready"]
        /\ run_queue' = insert_in_run_queue_head(run_queue, priority[t], t)
        /\ run_queue_bitmap' = run_queue_bitmap \cup {priority[t]}
    BY <1>4, Zenon DEF thread_resume
  <2>2. WaitQueues(state', blocking_wait_queue', list', wait_count')
    BY <1>2, <1>4, <2>1, NotBlocked, Zenon DEF wvars
  <2> QED BY <1>1, <1>2, <1>3, <1>4, <2>1, <2>2, ReadyStep, Zenon
<1>5. CASE state[t] # "suspended"
  BY <1>1, <1>2, <1>5, SameStep, Zenon DEF thread_resume, tvars, wvars, cpuvars
<1> QED BY <1>4, <1>5, Zenon

\* thread_sleep_handler() makes a sleeping thread ready.
LEMMA SleepHandlerStep ==
  ASSUME SchedAssumption, IInv, NEW c \in CPU, NEW t \in Thread, thread_sleep_handler(c, t)
  PROVE  IInv'
<1>1. RestTypes'
  <2>1. timer' \in [Thread -> CPU \cup {NoCPU}] /\ irq' \in [CPU -> {"none", "timer", "resched"}]
    BY TypesSplit, Zenon DEF thread_sleep_handler, RestTypes
  <2> QED BY <2>1, TypesSplit, Zenon DEF thread_sleep_handler, RestTypes, tvars
<1>2. /\ UNCHANGED <<tvars, cpuvars, waking, blocking_wait_queue, list, wait_count>> /\ state[t] = "sleeping"
      /\ state' = [state EXCEPT ![t] = "ready"]
      /\ run_queue' = insert_in_run_queue_head(run_queue, priority[t], t)
      /\ run_queue_bitmap' = run_queue_bitmap \cup {priority[t]}
  BY Zenon DEF thread_sleep_handler
<1>3. waking'.cpu = NoCPU /\ Away' = Away
  BY <1>2, Zenon DEF thread_sleep_handler, InTimerTick, LockFree, Away
<1>4. WaitQueues(state', blocking_wait_queue', list', wait_count')
  BY <1>2, NotBlocked, Zenon
<1> QED BY <1>1, <1>2, <1>3, <1>4, ReadyStep, Zenon

\* A thread at a place of wait queue w is taken off it and its fields are cleared: the list, the
\* count and the thread agree again.
LEMMA WokenFrom ==
  ASSUME IInv, NEW w \in WaitQ, NEW t \in Thread, NEW d, Without(list[w], t, d),
         list' = [list EXCEPT ![w] = d], wait_count' = [wait_count EXCEPT ![w] = @ - 1], WakeFields(t)
  PROVE  /\ state[t] = "blocked"
         /\ WaitQueues([state EXCEPT ![t] = "ready"], blocking_wait_queue', list', wait_count')
         /\ wait_count' \in [WaitQ -> Nat] /\ blocking_wait_queue' \in [Thread -> WaitQ \cup {"NULL"}]
         /\ timer' \in [Thread -> CPU \cup {NoCPU}]
<1>1. /\ state \in [AllThread -> ThreadState] /\ blocking_wait_queue \in [Thread -> WaitQ \cup {"NULL"}]
      /\ wait_count \in [WaitQ -> Nat] /\ WaitQueues(state, blocking_wait_queue, list, wait_count)
      /\ timer \in [Thread -> CPU \cup {NoCPU}]
  BY Zenon DEF IInv, TypeOK
<1>2. /\ blocking_wait_queue' = [blocking_wait_queue EXCEPT ![t] = "NULL"]
      /\ timer' = [timer EXCEPT ![t] = NoCPU]
  BY Zenon DEF WakeFields
<1>3. WaitQueues([state EXCEPT ![t] = "ready"], [blocking_wait_queue EXCEPT ![t] = "NULL"],
                 [list EXCEPT ![w] = d], [wait_count EXCEPT ![w] = @ - 1])
  BY <1>1, Unblocking, Zenon
<1>4. [wait_count EXCEPT ![w] = @ - 1] \in [WaitQ -> Nat]
  BY <1>1, Unblocking, Zenon
<1>5. state[t] = "blocked"
  BY <1>1, Zenon DEF WaitQueues, Without
<1> QED BY <1>1, <1>2, <1>3, <1>4, <1>5, Zenon

\* wait_queue_timeout_handler() takes a blocked thread from the middle of its wait queue.
LEMMA TimeoutStep ==
  ASSUME SchedAssumption, IInv, NEW c \in CPU, NEW t \in Thread, wait_queue_timeout_handler(c, t)
  PROVE  IInv'
<1>1. PICK w \in WaitQ : w = blocking_wait_queue[t]
  BY Zenon DEF wait_queue_timeout_handler, IInv, WaitQueues
<1>2. PICK i \in 1..Len(list[w]) : list[w][i] = t /\ list' = [list EXCEPT ![w] = list_delete(@, i)]
  BY <1>1, Zenon DEF wait_queue_timeout_handler
<1>3. list[w] \in Seq(Thread) /\ Once(list[w]) /\ list \in [WaitQ -> Seq(Thread)]
  BY Zenon DEF IInv, WaitQueues
<1>4. PICK d : d = list_delete(list[w], i)
  BY Zenon
<1>5. Without(list[w], t, d) /\ list' = [list EXCEPT ![w] = d]
  <2>1. t \in Elems(list[w])
    BY <1>2, Zenon DEF Elems
  <2>2. Without(list[w], t, d)
    BY <1>2, <1>3, <1>4, <2>1, Deleted, Zenon DEF Without
  <2> QED BY <1>2, <1>3, <1>4, <2>2, Zenon
<1>6. /\ wait_count' = [wait_count EXCEPT ![w] = @ - 1] /\ WakeFields(t)
      /\ UNCHANGED <<tvars, cpuvars, waking, active_cpus, yielding>>
      /\ state' = [state EXCEPT ![t] = "ready"]
      /\ run_queue' = insert_in_run_queue_head(run_queue, priority[t], t)
      /\ run_queue_bitmap' = run_queue_bitmap \cup {priority[t]}
      /\ ipi' = ipi \cup wakeup_cpu_for_thread(c, t) /\ irq' = [irq EXCEPT ![c] = "timer"]
  BY <1>1, Zenon DEF wait_queue_timeout_handler
<1>7. /\ state[t] = "blocked" /\ WaitQueues(state', blocking_wait_queue', list', wait_count')
      /\ wait_count' \in [WaitQ -> Nat] /\ blocking_wait_queue' \in [Thread -> WaitQ \cup {"NULL"}]
      /\ timer' \in [Thread -> CPU \cup {NoCPU}]
  BY <1>5, <1>6, WokenFrom, Zenon
<1>8. RestTypes'
  <2>1. ipi' \subseteq CPU /\ irq' \in [CPU -> {"none", "timer", "resched"}]
    BY <1>6, TypesSplit, Zenon DEF wakeup_cpu_for_thread, mp_reschedule, RestTypes
  <2> QED BY <1>6, <1>7, <2>1, TypesSplit, Zenon DEF RestTypes, tvars
<1>9. waking'.cpu = NoCPU /\ Away' = Away
  BY <1>6, Zenon DEF wait_queue_timeout_handler, InTimerTick, LockFree, Away
<1> QED BY <1>6, <1>7, <1>8, <1>9, ReadyStep, Zenon

\* The head of a wait queue is woken, by wait_queue_wake_one() or in wait_queue_wake_all().
LEMMA HeadWoken ==
  ASSUME IInv, NEW w \in WaitQ, list[w] # <<>>, NEW t, t = Head(list[w]), list' = [list EXCEPT ![w] = Tail(@)],
         wait_count' = [wait_count EXCEPT ![w] = @ - 1], WakeFields(t)
  PROVE  /\ t \in Thread /\ state[t] = "blocked"
         /\ WaitQueues([state EXCEPT ![t] = "ready"], blocking_wait_queue', list', wait_count')
         /\ wait_count' \in [WaitQ -> Nat] /\ blocking_wait_queue' \in [Thread -> WaitQ \cup {"NULL"}]
         /\ timer' \in [Thread -> CPU \cup {NoCPU}]
<1>1. list[w] \in Seq(Thread) /\ Once(list[w]) /\ list \in [WaitQ -> Seq(Thread)]
  BY Zenon DEF IInv, WaitQueues
<1>2. PICK d : d = Tail(list[w])
  BY Zenon
<1>3. t \in Thread /\ Without(list[w], t, d)
  BY <1>1, <1>2, HeadTaken, Zenon DEF Without
<1>4. list' = [list EXCEPT ![w] = d]
  BY <1>1, <1>2, Zenon
<1> QED BY <1>3, <1>4, WokenFrom, Zenon

\* A processor mask lies within the processors, and irq' is of its type whoever wakes.
LEMMA CallerTypes ==
  ASSUME IInv, NEW c \in CPU, NEW b, WakeCaller(c, b)
  PROVE  irq' \in [CPU -> {"none", "timer", "resched"}] /\ waking.cpu = NoCPU /\ (b => current[c] \in Thread)
<1>1. irq \in [CPU -> {"none", "timer", "resched"}]
  BY Zenon DEF IInv, TypeOK
<1>2. irq' = irq \/ irq' = [irq EXCEPT ![c] = "resched"]
  BY Zenon DEF WakeCaller
<1>3. waking.cpu = NoCPU /\ (b => current[c] \in Thread)
  BY Zenon DEF WakeCaller, Running, LockFree
<1> QED BY <1>1, <1>2, <1>3, Zenon

\* wait_queue_wake_one() makes the first thread ready, and its caller gives way if it is to.
LEMMA WakeOneStep ==
  ASSUME SchedAssumption, IInv, NEW c \in CPU, NEW w \in WaitQ, NEW reschedule \in BOOLEAN,
         wait_queue_wake_one(c, w, reschedule)
  PROVE  /\ IInv'
         /\ reschedule => \E st : Rescheduled(c, st) /\ \A u \in Thread : st[u] = "sleeping" => state[u] = "sleeping"
<1>1. PICK t : t = Head(list[w])
  BY Zenon
<1>2. /\ WakeCaller(c, reschedule) /\ list[w] # <<>> /\ list' = [list EXCEPT ![w] = Tail(@)]
      /\ wait_count' = [wait_count EXCEPT ![w] = @ - 1] /\ WakeFields(t)
      /\ ipi' = ipi \cup wakeup_cpu_for_thread(c, t)
      /\ UNCHANGED <<tvars, active_cpus, yielding, waking>>
  BY <1>1, Zenon DEF wait_queue_wake_one
<1>3. /\ t \in Thread /\ state[t] = "blocked"
      /\ WaitQueues([state EXCEPT ![t] = "ready"], blocking_wait_queue', list', wait_count')
      /\ wait_count' \in [WaitQ -> Nat] /\ blocking_wait_queue' \in [Thread -> WaitQ \cup {"NULL"}]
      /\ timer' \in [Thread -> CPU \cup {NoCPU}]
  BY <1>1, <1>2, HeadWoken, Zenon
<1>4. irq' \in [CPU -> {"none", "timer", "resched"}] /\ waking.cpu = NoCPU /\ (reschedule => current[c] \in Thread)
  BY <1>2, CallerTypes, Zenon
<1>5. RestTypes'
  <2>1. ipi' \subseteq CPU
    BY <1>2, TypesSplit, Zenon DEF wakeup_cpu_for_thread, mp_reschedule, RestTypes
  <2> QED BY <1>2, <1>3, <1>4, <2>1, TypesSplit, Zenon DEF RestTypes, tvars
<1>6. waking' = NotWaking /\ waking'.cpu = NoCPU /\ Away' = Away /\ Away = NoCPU
  BY <1>2, <1>4, NobodyAway, Zenon DEF Away
<1>7. CASE ~reschedule
  <2>1. /\ state' = [state EXCEPT ![t] = "ready"] /\ UNCHANGED cpuvars
        /\ run_queue' = insert_in_run_queue_head(run_queue, priority[t], t)
        /\ run_queue_bitmap' = run_queue_bitmap \cup {priority[t]}
    BY <1>1, <1>7, Zenon DEF wait_queue_wake_one
  <2> QED BY <1>2, <1>3, <1>5, <1>6, <1>7, <2>1, ReadyStep, Zenon
<1>8. CASE reschedule
  <2>1. /\ priority \in [Thread -> Prio] /\ current \in [CPU -> AllThread] /\ state \in [AllThread -> ThreadState]
        /\ remaining_quantum \in [Thread -> 0..QUANTUM] /\ UNCHANGED <<priority, pinned_cpu>>
    BY <1>2, Zenon DEF IInv, TypeOK, tvars
  <2>2. PICK cur \in Thread : cur = current[c]
    BY <1>4, <1>8, Zenon
  <2>3. PICK p \in Prio : p = priority[cur]
    BY <2>1, Zenon
  <2>4. PICK r \in Prio : r = priority[t]
    BY <1>3, <2>1, Zenon
  <2>5. PICK rq : rq = insert_in_run_queue_head(run_queue, p, cur)
    BY Zenon
  <2>6. PICK rq2 : rq2 = insert_in_run_queue_head(rq, r, t)
    BY Zenon
  <2>7. PICK bm2 : bm2 = run_queue_bitmap \cup {r} \cup {p}
    BY Zenon
  <2>8. PICK st2 : st2 = [[state EXCEPT ![t] = "ready"] EXCEPT ![cur] = "ready"]
    BY Zenon
  <2>9. thread_resched(c, st2, remaining_quantum, priority, rq2, bm2)
    BY <1>1, <1>8, <2>2, <2>3, <2>4, <2>5, <2>6, <2>7, <2>8, Zenon DEF wait_queue_wake_one
  <2>10. PICK st1 : st1 = [state EXCEPT ![cur] = "ready"]
    BY Zenon
  <2>11. /\ RunQueues(st1, [priority EXCEPT ![cur] = p], rq, run_queue_bitmap \cup {p})
         /\ Currents(st1, current, c) /\ st1 \in [AllThread -> ThreadState]
    <3>1. Inserted(run_queue, p, current[c], rq)
      BY <2>2, <2>5, Zenon DEF Inserted
    <3> QED BY <1>4, <2>2, <2>10, <3>1, BackInQueue, Zenon
  <2>12. state[cur] = "running" /\ cur # t
    BY <1>3, <1>4, <2>2, NobodyAway, Zenon DEF Currents, SchedAssumption
  <2>13. [priority EXCEPT ![cur] = p] = priority /\ [priority EXCEPT ![t] = r] = priority
    BY <1>3, <2>1, <2>3, <2>4, Zenon
  <2>14. st1[t] = "blocked" /\ st2 = [st1 EXCEPT ![t] = "ready"]
    BY <1>3, <2>1, <2>8, <2>10, <2>12, Zenon DEF AllThread
  <2>15. RunQueues(st2, priority, rq2, bm2)
    <3>1. Inserted(rq, r, t, rq2)
      BY <2>6, Zenon DEF Inserted
    <3>2. RunQueues([st1 EXCEPT ![t] = "ready"], [priority EXCEPT ![t] = r], rq2, (run_queue_bitmap \cup {p}) \cup {r})
      BY <1>3, <2>1, <2>11, <2>13, <2>14, <3>1, Queued, Zenon
    <3>3. bm2 = (run_queue_bitmap \cup {p}) \cup {r}
      BY <2>7, Zenon
    <3> QED BY <2>13, <2>14, <3>2, <3>3, Zenon
  <2>16. /\ st2 \in [AllThread -> ThreadState] /\ st2[t] = "ready" /\ st1[t] # "running"
         /\ \A u \in AllThread \ {t} : st2[u] = st1[u]
    BY <1>3, <2>11, <2>14, Zenon DEF ThreadState, AllThread
  <2>17. Currents(st2, current, c)
    <3>1. \A d \in CPU : d # c => st2[current[d]] = "running"
      BY <2>1, <2>11, <2>16, Zenon DEF Currents
    <3>2. \A u \in AllThread : st2[u] = "running" => \E d \in CPU : d # c /\ current[d] = u
      BY <2>11, <2>16, Zenon DEF Currents
    <3> QED BY <2>11, <3>1, <3>2, Zenon DEF Currents
  <2>18. WaitQueues(st2, blocking_wait_queue', list', wait_count')
    <3>1. PICK st3 : st3 = [state EXCEPT ![t] = "ready"]
      BY Zenon
    <3>2. \A u \in Thread : st2[u] = "blocked" <=> st3[u] = "blocked"
      BY <1>3, <2>1, <2>8, <2>12, <3>1, Zenon DEF AllThread
    <3> QED BY <1>3, <3>1, <3>2, WaitingSame, Zenon
  <2>19. \A u \in Thread : st2[u] = "sleeping" => state[u] = "sleeping"
    BY <2>1, <2>8, <1>3, Zenon DEF AllThread
  <2>20. IInv' /\ Rescheduled(c, st2)
    BY <1>5, <1>6, <2>1, <2>9, <2>15, <2>16, <2>17, <2>18, ReschedStep, Zenon
  <2> QED BY <2>19, <2>20, Zenon
<1> QED BY <1>7, <1>8, Zenon

\* wait_queue_wake_all() begins: a caller that is to reschedule is put back first, and is away
\* from its processor until the queue is empty.
LEMMA WakeAllStep ==
  ASSUME SchedAssumption, IInv, NEW c \in CPU, NEW w \in WaitQ, NEW reschedule \in BOOLEAN,
         wait_queue_wake_all(c, w, reschedule)
  PROVE  IInv'
<1>1. /\ WakeCaller(c, reschedule) /\ list[w] # <<>>
      /\ waking' = [cpu |-> c, queue |-> w, reschedule |-> reschedule, mask |-> {}]
      /\ UNCHANGED <<tvars, wvars, cpuvars, active_cpus, ipi, yielding>>
  BY Zenon DEF wait_queue_wake_all
<1>2. irq' \in [CPU -> {"none", "timer", "resched"}] /\ waking.cpu = NoCPU /\ (reschedule => current[c] \in Thread)
  BY <1>1, CallerTypes, Zenon
<1>3. RestTypes' /\ CpuTypes'
  <2>1. waking' \in [cpu : CPU, queue : WaitQ, reschedule : BOOLEAN, mask : SUBSET CPU]
    BY <1>1, Zenon
  <2> QED BY <1>1, <1>2, <2>1, TypesSplit, Zenon DEF RestTypes, CpuTypes, tvars, wvars, cpuvars
<1>4. /\ UNCHANGED <<priority, pinned_cpu, current, blocking_wait_queue, list, wait_count>>
      /\ waking'.cpu = c /\ waking'.queue = w /\ waking'.reschedule = reschedule
      /\ list'[waking'.queue] # <<>>
  BY <1>1, Zenon DEF tvars, wvars, cpuvars
<1>5. PinnedStaysPut'
  BY <1>4, Zenon DEF IInv, PinnedStaysPut
<1>6. c # NoCPU
  BY Zenon DEF SchedAssumption
<1>7. CASE reschedule
  <2>1. wait_count[w] > 0
    <3>1. list[w] \in Seq(Thread) /\ wait_count[w] = Len(list[w])
      BY Zenon DEF IInv, WaitQueues
    <3> QED BY <1>1, <3>1
  <2>2. PICK p \in Prio : p = priority[current[c]]
    BY <1>2, <1>7, Zenon DEF IInv, TypeOK
  <2>3. PICK st : st = [state EXCEPT ![current[c]] = "ready"]
    BY Zenon
  <2>4. PICK rq : rq = insert_in_run_queue_head(run_queue, p, current[c])
    BY Zenon
  <2>5. state' = st /\ run_queue' = rq /\ run_queue_bitmap' = run_queue_bitmap \cup {p}
    BY <1>7, <2>1, <2>2, <2>3, <2>4, Zenon DEF wait_queue_wake_all
  <2>6. Inserted(run_queue, p, current[c], rq)
    BY <2>4, Zenon DEF Inserted
  <2>7. /\ RunQueues(st, [priority EXCEPT ![current[c]] = p], rq, run_queue_bitmap \cup {p})
        /\ Currents(st, current, c) /\ WaitQueues(st, blocking_wait_queue, list, wait_count)
        /\ st \in [AllThread -> ThreadState]
    BY <1>2, <1>7, <2>3, <2>6, BackInQueue, Zenon
  <2>8. [priority EXCEPT ![current[c]] = p] = priority
    BY <1>2, <1>7, <2>2, Zenon DEF IInv, TypeOK
  <2>9. Away' = c
    BY <1>4, <1>6, <1>7, Zenon DEF Away
  <2>10. /\ RunQueues(state', priority', run_queue', run_queue_bitmap')
         /\ WaitQueues(state', blocking_wait_queue', list', wait_count')
         /\ Currents(state', current', Away') /\ state' \in [AllThread -> ThreadState]
    BY <1>4, <2>5, <2>7, <2>8, <2>9, Zenon
  <2>11. TypeOK'
    BY <1>3, <2>10, TypesJoin, Zenon
  <2> QED BY <1>4, <1>5, <2>10, <2>11, Zenon DEF IInv
<1>8. CASE ~reschedule
  <2>1. UNCHANGED <<state, run_queue, run_queue_bitmap>>
    BY <1>8, Zenon DEF wait_queue_wake_all
  <2>2. Away' = NoCPU /\ Currents(state, current, NoCPU)
    BY <1>2, <1>4, <1>8, NobodyAway, Zenon DEF Away
  <2>3. /\ RunQueues(state', priority', run_queue', run_queue_bitmap')
        /\ WaitQueues(state', blocking_wait_queue', list', wait_count')
        /\ Currents(state', current', Away') /\ state' \in [AllThread -> ThreadState]
    BY <1>4, <2>1, <2>2, Zenon DEF IInv, TypeOK
  <2>4. TypeOK'
    BY <1>3, <2>3, TypesJoin, Zenon
  <2> QED BY <1>4, <1>5, <2>3, <2>4, Zenon DEF IInv
<1> QED BY <1>7, <1>8, Zenon

\* In the loop of wait_queue_wake_all() the waking record is a real one.
LEMMA WakingType ==
  ASSUME SchedAssumption, IInv, waking.cpu # NoCPU
  PROVE  /\ waking \in [cpu : CPU, queue : WaitQ, reschedule : BOOLEAN, mask : SUBSET CPU]
         /\ waking.cpu \in CPU /\ waking.queue \in WaitQ /\ waking.reschedule \in BOOLEAN
BY DEF IInv, TypeOK, NotWaking

\* A turn of the loop of wait_queue_wake_all() makes the first thread ready.
LEMMA PopStep ==
  ASSUME SchedAssumption, IInv, wake_all_pop
  PROVE  IInv'
<1>1. /\ waking \in [cpu : CPU, queue : WaitQ, reschedule : BOOLEAN, mask : SUBSET CPU]
      /\ waking.cpu # NoCPU /\ waking.cpu \in CPU
  BY WakingType, Zenon DEF wake_all_pop
<1>2. PICK w \in WaitQ : w = waking.queue
  BY <1>1, Zenon
<1>3. PICK t : t = Head(list[w])
  BY Zenon
<1>4. /\ list[w] # <<>> /\ list' = [list EXCEPT ![w] = Tail(@)]
      /\ wait_count' = [wait_count EXCEPT ![w] = @ - 1] /\ WakeFields(t)
      /\ state' = [state EXCEPT ![t] = "ready"]
      /\ run_queue' = insert_in_run_queue_head(run_queue, priority[t], t)
      /\ run_queue_bitmap' = run_queue_bitmap \cup {priority[t]}
      /\ waking' = [waking EXCEPT !.mask = @ \cup PinMask(t)]
      /\ UNCHANGED <<tvars, cpuvars, active_cpus, ipi, irq, yielding>>
  BY <1>2, <1>3, Zenon DEF wake_all_pop
<1>5. /\ t \in Thread /\ state[t] = "blocked"
      /\ WaitQueues(state', blocking_wait_queue', list', wait_count')
      /\ wait_count' \in [WaitQ -> Nat] /\ blocking_wait_queue' \in [Thread -> WaitQ \cup {"NULL"}]
      /\ timer' \in [Thread -> CPU \cup {NoCPU}]
  BY <1>3, <1>4, HeadWoken, Zenon
<1>6. PinMask(t) \subseteq CPU /\ PinMask(t) # {}
  BY <1>1, <1>5, Zenon DEF PinMask, IInv, TypeOK
<1>7. /\ waking' \in [cpu : CPU, queue : WaitQ, reschedule : BOOLEAN, mask : SUBSET CPU]
      /\ waking'.mask # {} /\ waking'.cpu = waking.cpu /\ waking'.reschedule = waking.reschedule
  BY <1>1, <1>4, <1>6, Zenon
<1>8. RestTypes'
  BY <1>4, <1>5, <1>7, TypesSplit, Zenon DEF RestTypes, tvars
<1>9. Away' = Away
  BY <1>7, Zenon DEF Away
<1> QED BY <1>4, <1>5, <1>7, <1>8, <1>9, ReadyStep, Zenon

\* wait_queue_wake_all() ends: a caller that was put back gets its processor rescheduled now.
LEMMA DoneStep ==
  ASSUME SchedAssumption, IInv, wake_all_done
  PROVE  IInv' /\ (waking.reschedule => Rescheduled(waking.cpu, state))
<1>1. /\ waking \in [cpu : CPU, queue : WaitQ, reschedule : BOOLEAN, mask : SUBSET CPU]
      /\ waking.cpu # NoCPU /\ waking.queue \in WaitQ /\ list[waking.queue] = <<>>
  BY WakingType, Zenon DEF wake_all_done
<1>2. PICK c \in CPU : c = waking.cpu
  BY <1>1, Zenon
<1>3. /\ waking.mask # {} /\ waking' = NotWaking /\ waking'.cpu = NoCPU
      /\ ipi' = ipi \cup mp_reschedule(c, waking.mask)
      /\ UNCHANGED <<tvars, wvars, active_cpus, irq, yielding>>
  BY <1>1, <1>2, Zenon DEF wake_all_done, IInv, NotWaking
<1>4. RestTypes'
  <2>1. ipi' \subseteq CPU
    BY <1>3, TypesSplit, Zenon DEF mp_reschedule, RestTypes
  <2> QED BY <1>3, <2>1, TypesSplit, Zenon DEF RestTypes, tvars, wvars
<1>5. /\ state \in [AllThread -> ThreadState] /\ priority \in [Thread -> Prio]
      /\ remaining_quantum \in [Thread -> 0..QUANTUM]
      /\ RunQueues(state, priority, run_queue, run_queue_bitmap)
      /\ WaitQueues(state, blocking_wait_queue, list, wait_count) /\ Currents(state, current, Away)
      /\ UNCHANGED <<priority, pinned_cpu, blocking_wait_queue, list, wait_count>>
  BY <1>3, Zenon DEF IInv, TypeOK, tvars, wvars
<1>6. CASE waking.reschedule
  <2>1. thread_resched(c, state, remaining_quantum, priority, run_queue, run_queue_bitmap)
    BY <1>2, <1>3, <1>6, Zenon DEF wake_all_done
  <2>2. Currents(state, current, c) /\ WaitQueues(state, blocking_wait_queue', list', wait_count')
    BY <1>1, <1>2, <1>5, <1>6, Zenon DEF Away
  <2> QED BY <1>2, <1>3, <1>4, <1>5, <2>1, <2>2, ReschedStep, Zenon
<1>7. CASE ~waking.reschedule
  <2>1. UNCHANGED <<state, run_queue, run_queue_bitmap, cpuvars>>
    BY <1>7, Zenon DEF wake_all_done
  <2>2. Away = NoCPU /\ Away' = NoCPU
    BY <1>3, <1>7, Zenon DEF Away
  <2>3. CpuTypes' /\ current' = current
    BY <2>1, TypesSplit, Zenon DEF CpuTypes, cpuvars
  <2>4. /\ RunQueues(state', priority', run_queue', run_queue_bitmap')
        /\ WaitQueues(state', blocking_wait_queue', list', wait_count')
        /\ Currents(state', current', Away') /\ state' \in [AllThread -> ThreadState]
    BY <1>5, <2>1, <2>2, <2>3, Zenon
  <2>5. TypeOK'
    BY <1>4, <2>3, <2>4, TypesJoin, Zenon
  <2>6. PinnedStaysPut'
    BY <1>5, <2>3, Zenon DEF IInv, PinnedStaysPut
  <2> QED BY <1>3, <1>7, <2>4, <2>5, <2>6, Zenon DEF IInv
<1> QED BY <1>6, <1>7, Zenon

\* thread_create() takes a thread that is nowhere, so its pin and its priority are nobody's.
LEMMA CreateStep ==
  ASSUME SchedAssumption, IInv, NEW c \in CPU, NEW t \in Thread, NEW a \in CreateArgs, thread_create(c, t, a[1], a[2])
  PROVE  IInv'
<1>1. /\ waking.cpu = NoCPU /\ state[t] = "none" /\ a[1] \in Prio /\ a[2] \in CPU \cup {AnyCPU}
      /\ state' = [state EXCEPT ![t] = "suspended"] /\ priority' = [priority EXCEPT ![t] = a[1]]
      /\ pinned_cpu' = [pinned_cpu EXCEPT ![t] = a[2]]
      /\ UNCHANGED <<real_time, wvars, run_queue, run_queue_bitmap, cpuvars, active_cpus, ipi, irq, yielding, waking>>
  BY Zenon DEF thread_create, Running, Booting, LockFree, SchedAssumption
<1>2. /\ CpuTypes /\ RestTypes /\ state \in [AllThread -> ThreadState]
      /\ RunQueues(state, priority, run_queue, run_queue_bitmap)
      /\ WaitQueues(state, blocking_wait_queue, list, wait_count) /\ Currents(state, current, NoCPU)
  BY <1>1, TypesSplit, NobodyAway, Zenon DEF IInv
<1>3. CpuTypes' /\ RestTypes' /\ state' \in [AllThread -> ThreadState]
  BY <1>1, <1>2, Zenon DEF CpuTypes, RestTypes, cpuvars, wvars, ThreadState
<1>4. /\ state'[t] = "suspended"
      /\ \A u \in AllThread \ {t} : state'[u] = state[u]
      /\ \A u \in Thread \ {t} : priority'[u] = priority[u] /\ pinned_cpu'[u] = pinned_cpu[u]
  BY <1>1, <1>2, Zenon DEF AllThread, RestTypes
<1>5. t \in AllThread /\ \A u \in Thread : u \in AllThread
  BY Zenon DEF AllThread
<1>6. RunQueues(state', priority', run_queue', run_queue_bitmap')
  <2>1. ASSUME NEW p \in Prio, NEW u \in Thread
        PROVE  u \in Elems(run_queue[p]) <=> state'[u] = "ready" /\ priority'[u] = p
    <3>1. u \in Elems(run_queue[p]) <=> state[u] = "ready" /\ priority[u] = p
      BY <1>2, Zenon DEF RunQueues
    <3>2. CASE u = t
      BY <1>1, <1>4, <3>1, <3>2, Zenon
    <3>3. CASE u # t
      BY <1>4, <1>5, <3>1, <3>3, Zenon
    <3> QED BY <3>2, <3>3, Zenon
  <2> QED BY <1>1, <1>2, <2>1, Zenon DEF RunQueues
<1>7. WaitQueues(state', blocking_wait_queue', list', wait_count')
  <2>1. \A u \in Thread : state'[u] = "blocked" <=> state[u] = "blocked"
    BY <1>1, <1>4, <1>5, Zenon
  <2>2. WaitQueues(state', blocking_wait_queue, list, wait_count)
    BY <1>2, <2>1, WaitingSame, Zenon
  <2> QED BY <1>1, <2>2, Zenon DEF wvars
<1>8. \A d \in CPU : current[d] # t /\ d # NoCPU
  BY <1>1, <1>2, Zenon DEF Currents, SchedAssumption
<1>9. Currents(state', current', Away')
  <2>1. Away' = NoCPU /\ current' = current
    BY <1>1, Zenon DEF Away, cpuvars
  <2>2. \A d \in CPU : state'[current[d]] = "running"
    BY <1>2, <1>4, <1>8 DEF Currents, CpuTypes
  <2>3. \A u \in AllThread : state'[u] = "running" => \E d \in CPU : d # NoCPU /\ current[d] = u
    BY <1>2, <1>4, Zenon DEF Currents
  <2> QED BY <1>2, <2>1, <2>2, <2>3, Zenon DEF Currents
<1>10. PinnedStaysPut'
  BY <1>1, <1>4, <1>8 DEF IInv, PinnedStaysPut, cpuvars
<1>11. TypeOK'
  BY <1>3, <1>6, <1>7, TypesJoin, Zenon
<1>12. waking'.cpu = NoCPU
  BY <1>1, Zenon
<1> QED BY <1>6, <1>7, <1>9, <1>10, <1>11, <1>12, Zenon DEF IInv

\* The steps that move no thread.
LEMMA QuietStep ==
  ASSUME SchedAssumption, IInv, NEW c \in CPU,
         \/ \E t \in Thread : thread_set_real_time(c, t)
         \/ thread_timer_tick(c) \/ mp_mbx_reschedule_irq(c) \/ thread_become_idle(c)
  PROVE  IInv'
<1>1. CpuTypes /\ RestTypes
  BY TypesSplit, Zenon
<1>2. ASSUME NEW t \in Thread, thread_set_real_time(c, t)
      PROVE  IInv'
  <2>1. CpuTypes'
    BY <1>1, <1>2, Zenon DEF thread_set_real_time, CpuTypes
  <2>2. RestTypes'
    BY <1>1, <1>2, Zenon DEF thread_set_real_time, RestTypes, wvars
  <2> QED BY <1>2, <2>1, <2>2, SameStep, Zenon DEF thread_set_real_time, wvars
<1>3. CASE thread_timer_tick(c)
  <2>1. current[c] \in Thread
    BY <1>1, <1>3, Zenon DEF thread_timer_tick, thread_is_real_time_or_idle, CpuTypes, AllThread
  <2>2. remaining_quantum' \in [Thread -> 0..QUANTUM]
    <3>1. PICK n \in 0..QUANTUM : remaining_quantum' = [remaining_quantum EXCEPT ![current[c]] = n]
      <4>1. remaining_quantum[current[c]] \in 0..QUANTUM /\ QUANTUM \in Nat
        BY <1>1, <2>1, Zenon DEF CpuTypes, SchedAssumption
      <4>2. PICK n \in 0..QUANTUM : n = IF remaining_quantum[current[c]] > 0 THEN remaining_quantum[current[c]] - 1 ELSE 0
        BY <4>1
      <4>3. remaining_quantum' = [remaining_quantum EXCEPT ![current[c]] = n]
        BY <1>3, <4>2, Zenon DEF thread_timer_tick
      <4> QED BY <4>3, Zenon
    <3> QED BY <1>1, <3>1, Zenon DEF CpuTypes
  <2>3. CpuTypes'
    BY <1>1, <1>3, <2>2, Zenon DEF thread_timer_tick, CpuTypes
  <2>4. RestTypes'
    BY <1>1, <1>3, Zenon DEF thread_timer_tick, RestTypes, tvars, wvars
  <2> QED BY <1>3, <2>3, <2>4, SameStep, Zenon DEF thread_timer_tick, tvars, wvars
<1>4. CASE mp_mbx_reschedule_irq(c)
  <2>1. CpuTypes' /\ RestTypes'
    BY <1>1, <1>4, Zenon DEF mp_mbx_reschedule_irq, CpuTypes, RestTypes, tvars, wvars, cpuvars
  <2> QED BY <1>4, <2>1, SameStep, Zenon DEF mp_mbx_reschedule_irq, tvars, wvars, cpuvars
<1>5. CASE thread_become_idle(c)
  <2>1. CpuTypes'
    BY <1>1, <1>5, Zenon DEF thread_become_idle, CpuTypes
  <2>2. RestTypes'
    BY <1>1, <1>5, Zenon DEF thread_become_idle, RestTypes, tvars, wvars, AllThread, idle_thread
  <2> QED BY <1>5, <2>1, <2>2, SameStep, Zenon DEF thread_become_idle, tvars, wvars
<1> QED BY <1>2, <1>3, <1>4, <1>5, Zenon

\* At the beginning every processor runs its idle thread, and the queues are empty.
LEMMA SchedInit ==
  ASSUME SchedAssumption, Init
  PROVE  IInv
<1>1. TypeOK
  <2>1. 0 \in Prio /\ 0 \in 0..QUANTUM /\ <<>> \in Seq(Thread)
    BY DEF SchedAssumption, Prio
  <2>2. state \in [AllThread -> ThreadState] /\ current \in [CPU -> AllThread]
    BY Zenon DEF Init, AllThread, ThreadState, idle_thread
  <2>3. priority \in [Thread -> Prio] /\ remaining_quantum \in [Thread -> 0..QUANTUM]
    BY <2>1, Zenon DEF Init, IDLE_PRIORITY
  <2>4. run_queue \in [Prio -> Seq(Thread)] /\ list \in [WaitQ -> Seq(Thread)] /\ wait_count \in [WaitQ -> Nat]
    BY <2>1, Zenon DEF Init
  <2>5. /\ pinned_cpu \in [Thread -> CPU \cup {AnyCPU}] /\ real_time \in [Thread -> BOOLEAN]
        /\ blocking_wait_queue \in [Thread -> WaitQ \cup {"NULL"}] /\ timer \in [Thread -> CPU \cup {NoCPU}]
        /\ irq \in [CPU -> {"none", "timer", "resched"}] /\ preempt_timer \in [CPU -> BOOLEAN]
    BY Zenon DEF Init
  <2> QED BY <2>2, <2>3, <2>4, <2>5, Zenon DEF Init, TypeOK
<1>2. RunQueues(state, priority, run_queue, run_queue_bitmap)
  BY DEF Init, RunQueues, Once, Elems, AllThread, SchedAssumption
<1>3. WaitQueues(state, blocking_wait_queue, list, wait_count)
  BY DEF Init, WaitQueues, Once, Elems, AllThread, SchedAssumption
<1>4. waking.cpu = NoCPU /\ Away = NoCPU
  BY Zenon DEF Init, NotWaking, Away
<1>5. Currents(state, current, Away)
  BY <1>4, Zenon DEF Init, Currents, AllThread, SchedAssumption, idle_thread
<1>6. PinnedStaysPut
  BY Zenon DEF Init, PinnedStaysPut, SchedAssumption, idle_thread
<1> QED BY <1>1, <1>2, <1>3, <1>4, <1>5, <1>6, Zenon DEF IInv

-----------------------------------------------------------------------------
\* What a step does to the current threads: some processor has rescheduled, or they and
\* their preemption timers stay, or one thread has become a real-time thread.
Moved ==
  \/ \E c \in CPU : \E st : Rescheduled(c, st) /\ UNCHANGED <<pinned_cpu, real_time>>
  \/ UNCHANGED <<current, preempt_timer, panicked, real_time>>
  \/ \E c \in CPU, t \in Thread : thread_set_real_time(c, t)

\* Every call of a thread keeps the invariant.
LEMMA CallStep ==
  ASSUME SchedAssumption, IInv, NEW c \in CPU, ThreadCall(c)
  PROVE  IInv' /\ Moved
<1>1. ASSUME NEW t \in Thread, NEW a \in CreateArgs, thread_create(c, t, a[1], a[2])
      PROVE  IInv' /\ Moved
  <2>1. IInv'
    BY <1>1, CreateStep, Zenon
  <2> QED BY <1>1, <2>1, Zenon DEF thread_create, Moved, cpuvars
<1>2. ASSUME NEW t \in Thread, thread_set_real_time(c, t)
      PROVE  IInv' /\ Moved
  <2>1. IInv'
    BY <1>2, QuietStep, Zenon
  <2> QED BY <1>2, <2>1, Zenon DEF Moved
<1>3. ASSUME NEW t \in Thread, thread_resume(c, t)
      PROVE  IInv' /\ Moved
  <2>1. IInv'
    BY <1>3, ResumeStep, Zenon
  <2> QED BY <1>3, <2>1, Zenon DEF thread_resume, Moved, cpuvars, tvars
<1>4. ASSUME NEW arg \in Priorities, thread_set_priority(c, arg)
      PROVE  IInv' /\ Moved
  <2>1. UNCHANGED <<pinned_cpu, real_time>>
    BY <1>4, Zenon DEF thread_set_priority
  <2> QED BY <1>4, <2>1, SetPriorityStep, Zenon DEF Moved
<1>5. ASSUME NEW w \in WaitQ, NEW b \in BOOLEAN, wait_queue_block(c, w, b)
      PROVE  IInv' /\ Moved
  <2>1. UNCHANGED <<pinned_cpu, real_time>>
    BY <1>5, Zenon DEF wait_queue_block, tvars
  <2> QED BY <1>5, <2>1, BlockStep, Zenon DEF Moved
<1>6. ASSUME NEW w \in WaitQ, NEW b \in BOOLEAN, wait_queue_wake_one(c, w, b)
      PROVE  IInv' /\ Moved
  <2>1. UNCHANGED <<pinned_cpu, real_time>>
    BY <1>6, Zenon DEF wait_queue_wake_one, tvars
  <2>2. IInv' /\ (b => \E st : Rescheduled(c, st))
    <3>1. IInv' /\ (b => \E st : Rescheduled(c, st) /\ \A u \in Thread : st[u] = "sleeping" => state[u] = "sleeping")
      BY <1>6, WakeOneStep, Zenon
    <3> QED BY <3>1, Zenon
  <2>3. ~b => UNCHANGED <<current, preempt_timer, panicked, real_time>>
    BY <1>6, <2>1, Zenon DEF wait_queue_wake_one, cpuvars
  <2> QED BY <2>1, <2>2, <2>3, Zenon DEF Moved
<1>7. ASSUME NEW w \in WaitQ, NEW b \in BOOLEAN, wait_queue_wake_all(c, w, b)
      PROVE  IInv' /\ Moved
  <2>1. IInv'
    BY <1>7, WakeAllStep, Zenon
  <2> QED BY <1>7, <2>1, Zenon DEF wait_queue_wake_all, Moved, cpuvars, tvars
<1>8. CASE thread_sleep(c) \/ thread_exit(c)
  <2>1. UNCHANGED <<pinned_cpu, real_time>>
    BY <1>8, Zenon DEF thread_sleep, thread_exit, tvars
  <2>2. PICK x : (x = "sleeping" /\ thread_sleep(c)) \/ (x = "death" /\ thread_exit(c))
    BY <1>8, Zenon
  <2>3. IInv' /\ Rescheduled(c, [state EXCEPT ![current[c]] = x])
    BY <2>2, SleepOrExitStep, Zenon
  <2> QED BY <2>1, <2>3, Zenon DEF Moved
<1> QED BY <1>1, <1>2, <1>3, <1>4, <1>5, <1>6, <1>7, <1>8, Zenon DEF ThreadCall

\* Every step keeps the invariant.
LEMMA NextStep ==
  ASSUME SchedAssumption, IInv, [Next]_vars
  PROVE  IInv' /\ Moved
<1>1. ASSUME NEW c \in CPU, thread_yield(c) \/ thread_preempt(c)
      PROVE  IInv' /\ Moved
  <2>1. UNCHANGED <<pinned_cpu, real_time>>
    BY <1>1, Zenon DEF thread_yield, thread_preempt, tvars
  <2> QED BY <1>1, <2>1, YieldStep, PreemptStep, Zenon DEF Moved
<1>2. ASSUME NEW c \in CPU, NEW t \in Thread, thread_sleep_handler(c, t) \/ wait_queue_timeout_handler(c, t)
      PROVE  IInv' /\ Moved
  <2>1. IInv'
    BY <1>2, SleepHandlerStep, TimeoutStep, Zenon
  <2> QED BY <1>2, <2>1, Zenon DEF thread_sleep_handler, wait_queue_timeout_handler, Moved, cpuvars, tvars
<1>3. ASSUME NEW c \in CPU, thread_timer_tick(c) \/ mp_mbx_reschedule_irq(c) \/ thread_become_idle(c)
      PROVE  IInv' /\ Moved
  <2>1. IInv'
    BY <1>3, QuietStep, Zenon
  <2> QED BY <1>3, <2>1, Zenon DEF thread_timer_tick, mp_mbx_reschedule_irq, thread_become_idle, Moved, cpuvars, tvars
<1>4. CASE wake_all_pop
  <2>1. IInv'
    BY <1>4, PopStep, Zenon
  <2> QED BY <1>4, <2>1, Zenon DEF wake_all_pop, Moved, cpuvars, tvars
<1>5. CASE wake_all_done
  <2>1. UNCHANGED <<pinned_cpu, real_time>> /\ waking.cpu \in CPU
    <3>1. waking.cpu # NoCPU /\ UNCHANGED <<pinned_cpu, real_time>>
      BY <1>5, Zenon DEF wake_all_done, tvars
    <3>2. waking \in [cpu : CPU, queue : WaitQ, reschedule : BOOLEAN, mask : SUBSET CPU]
      BY <3>1, WakingType, Zenon
    <3> QED BY <3>1, <3>2, Zenon
  <2>2. IInv' /\ (waking.reschedule => Rescheduled(waking.cpu, state))
    BY <1>5, DoneStep, Zenon
  <2>3. ~waking.reschedule => UNCHANGED <<current, preempt_timer, panicked, real_time>>
    BY <1>5, <2>1, Zenon DEF wake_all_done, cpuvars
  <2> QED BY <2>1, <2>2, <2>3, Zenon DEF Moved
<1>6. CASE UNCHANGED vars
  <2>1. CpuTypes' /\ RestTypes'
    BY <1>6, TypesSplit, Zenon DEF vars, tvars, wvars, cpuvars, CpuTypes, RestTypes
  <2>2. IInv'
    BY <1>6, <2>1, SameStep, Zenon DEF vars, tvars, wvars, cpuvars
  <2> QED BY <1>6, <2>2, Zenon DEF vars, tvars, cpuvars, Moved
<1> QED BY <1>1, <1>2, <1>3, <1>4, <1>5, <1>6, CallStep, Zenon DEF Next, TimerCallback

-----------------------------------------------------------------------------
\* The invariant holds whatever calls the threads make, on any number of processors.
THEOREM Invariance ==
  ASSUME SchedAssumption
  PROVE  Spec => []IInv
<1>1. Init => IInv
  BY SchedInit, Zenon
<1>2. IInv /\ [Next]_vars => IInv'
  BY NextStep, Zenon
<1> QED BY <1>1, <1>2, PTL DEF Spec

\* Every variable keeps its type: no priority leaves 0..HIGHEST_PRIORITY, no quantum exceeds
\* a full one, and only threads are ever queued.
THEOREM TypeCorrect ==
  ASSUME SchedAssumption
  PROVE  Spec => []TypeOK
<1>1. IInv => TypeOK
  BY Zenon DEF IInv
<1> QED BY <1>1, Invariance, PTL

\* Every thread is where its state says and nowhere else: the running threads are the current
\* threads of distinct processors, a ready thread is once in the run queue of its priority, a
\* blocked one is once on the wait queue it names.
THEOREM Placed ==
  ASSUME SchedAssumption
  PROVE  Spec => []PlacedByState
<1>1. ASSUME IInv
      PROVE  PlacedByState
  <2>1. /\ RunQueues(state, priority, run_queue, run_queue_bitmap)
        /\ WaitQueues(state, blocking_wait_queue, list, wait_count) /\ Currents(state, current, Away)
        /\ priority \in [Thread -> Prio]
    BY <1>1, Zenon DEF IInv, TypeOK
  <2>2. \A p \in Prio : \A i \in 1..Len(run_queue[p]) :
           state[run_queue[p][i]] = "ready" /\ priority[run_queue[p][i]] = p
    BY <2>1 DEF RunQueues, Elems
  <2>3. \A t \in Thread : state[t] = "ready" => \E i \in 1..Len(run_queue[priority[t]]) : run_queue[priority[t]][i] = t
    BY <2>1 DEF RunQueues, Elems
  <2>4. \A w \in WaitQ : \A i \in 1..Len(list[w]) : state[list[w][i]] = "blocked" /\ blocking_wait_queue[list[w][i]] = w
    BY <2>1 DEF WaitQueues, Elems
  <2>5. \A t \in Thread : state[t] = "blocked" =>
           blocking_wait_queue[t] \in WaitQ /\ \E i \in 1..Len(list[blocking_wait_queue[t]]) : list[blocking_wait_queue[t]][i] = t
    BY <2>1 DEF WaitQueues, Elems
  <2>6. \A c \in CPU : state[current[c]] = "running" \/ PutBackEarly(current[c])
    BY <2>1, Zenon DEF Currents, Away, PutBackEarly, SchedAssumption
  <2>7. /\ \A c, d \in CPU : current[c] = current[d] => c = d
        /\ \A c \in CPU : current[c] \in Thread \cup {idle_thread(c)}
        /\ \A t \in AllThread : state[t] = "running" => \E c \in CPU : current[c] = t
    BY <2>1, Zenon DEF Currents, idle_thread
  <2>8. /\ \A p \in Prio : \A i, j \in 1..Len(run_queue[p]) : run_queue[p][i] = run_queue[p][j] => i = j
        /\ \A w \in WaitQ : \A i, j \in 1..Len(list[w]) : list[w][i] = list[w][j] => i = j
    BY <2>1, Zenon DEF RunQueues, WaitQueues, Once
  <2> QED BY <2>2, <2>3, <2>4, <2>5, <2>6, <2>7, <2>8, Zenon DEF PlacedByState
<1> QED BY <1>1, Invariance, PTL

\* The copies the code keeps beside the lists agree with them: the bitmap with the run queues,
\* wait->count with the wait queue; and no pinned thread runs on another processor.
THEOREM CopiesAgree ==
  ASSUME SchedAssumption
  PROVE  Spec => [](CountsAgree /\ PinnedStaysPut)
<1>1. ASSUME IInv
      PROVE  CountsAgree /\ PinnedStaysPut
  <2>1. run_queue_bitmap = {p \in Prio : run_queue[p] # <<>>}
    BY <1>1 DEF IInv, RunQueues
  <2>2. \A w \in WaitQ : wait_count[w] = Len(list[w])
    BY <1>1, Zenon DEF IInv, WaitQueues
  <2> QED BY <1>1, <2>1, <2>2, Zenon DEF IInv, CountsAgree
<1> QED BY <1>1, Invariance, PTL

\* Every thread is in the one place its state says, and the bitmap, the counts and the pinning
\* agree with that place.
THEOREM InItsPlace ==
  ASSUME SchedAssumption
  PROVE  Spec => []EveryThreadInItsPlace
<1>1. PlacedByState /\ CountsAgree /\ PinnedStaysPut => EveryThreadInItsPlace
  BY Zenon DEF EveryThreadInItsPlace
<1> QED BY <1>1, Placed, CopiesAgree, PTL

-----------------------------------------------------------------------------
\* get_top_thread() searches the bitmap from the highest bit down, so no switch passes over
\* a thread of a higher priority that could run there.
THEOREM HighestFirst ==
  ASSUME SchedAssumption
  PROVE  Spec => TakesTheHighest
<1>1. ASSUME IInv, [Next]_vars
      PROVE  [SwitchToHighest]_vars
  <2>1. IInv' /\ Moved /\ current \in [CPU -> AllThread]
    BY <1>1, NextStep, Zenon DEF IInv, TypeOK
  <2> SUFFICES ASSUME NEW c \in CPU, current'[c] # current[c], NEW t \in Thread,
                      state'[t] = "ready", pinned_cpu[t] \in {AnyCPU, c}
               PROVE  current'[c] \in Thread /\ priority'[t] <= priority'[current'[c]]
    BY Zenon DEF SwitchToHighest
  <2>2. PICK d \in CPU : \E st : Rescheduled(d, st)
    BY <2>1, Zenon DEF Moved, thread_set_real_time
  <2>3. PICK st : Rescheduled(d, st)
    BY <2>2, Zenon
  <2>4. st \in [AllThread -> ThreadState]
    BY <2>3, Zenon DEF Rescheduled
  <2>5. PICK new \in Thread \cup {d} : Switched(d, st, priority', new)
    BY <2>3, Zenon DEF Rescheduled
  <2>6. d = c /\ current'[c] = new
    BY <2>1, <2>5, Zenon DEF Switched
  <2>7. new \in AllThread /\ t \in AllThread
    BY Zenon DEF AllThread
  <2>8. st[t] = "ready"
    BY <2>4, <2>5, <2>7, Zenon DEF Switched
  <2> QED BY <2>5, <2>6, <2>8, Zenon DEF Switched
<1> QED BY <1>1, Invariance, PTL DEF Spec, TakesTheHighest

\* As long as threads flag only themselves or a thread not yet resumed as real-time, a
\* processor's preemption timer runs exactly under the threads that are to be preempted, and
\* timer_set() never finds it queued already.
THEOREM TimerFollowsThread ==
  ASSUME SchedAssumption, "set_real_time_any" \notin Calls
  PROVE  Spec => []PreemptTimerFollowsThread
<1>1. Init => PreemptTimerFollowsThread
  BY Zenon DEF Init, PreemptTimerFollowsThread, thread_is_real_time_or_idle, idle_thread
<1>2. ASSUME IInv, PreemptTimerFollowsThread, [Next]_vars
      PROVE  PreemptTimerFollowsThread'
  <2>1. Moved /\ CpuTypes
    BY <1>2, NextStep, TypesSplit, Zenon
  <2>2. ASSUME NEW c \in CPU, NEW st, Rescheduled(c, st), UNCHANGED real_time
        PROVE  PreemptTimerFollowsThread'
    <3>1. PICK q \in [Thread -> 0..QUANTUM], new \in Thread \cup {c} : switch_to(c, new, st, q, priority')
      BY <2>2, Zenon DEF Rescheduled
    <3> QED BY <1>2, <2>1, <2>2, <3>1, SwitchTimer, Zenon
  <2>3. CASE UNCHANGED <<current, preempt_timer, panicked, real_time>>
    BY <1>2, <2>3, Zenon DEF PreemptTimerFollowsThread, thread_is_real_time_or_idle
  <2>4. ASSUME NEW c \in CPU, NEW t \in Thread, thread_set_real_time(c, t)
        PROVE  PreemptTimerFollowsThread'
    <3>1. /\ t = current[c] \/ state[t] = "suspended"
          /\ waking.cpu = NoCPU /\ current[c] \in Thread
          /\ preempt_timer' = IF t = current[c] /\ DYNAMIC_TIMER THEN [preempt_timer EXCEPT ![c] = FALSE] ELSE preempt_timer
          /\ real_time' = [real_time EXCEPT ![t] = TRUE] /\ UNCHANGED <<current, panicked>>
      BY <2>4, Zenon DEF thread_set_real_time, Running, LockFree
    <3>2. Currents(state, current, NoCPU) /\ real_time \in [Thread -> BOOLEAN] /\ Thread \cap CPU = {} /\ NoCPU \notin CPU
      BY <1>2, <3>1, NobodyAway, Zenon DEF IInv, TypeOK, SchedAssumption
    <3>3. real_time'[t] = TRUE /\ \A u \in Thread \ {t} : real_time'[u] = real_time[u]
      BY <3>1, <3>2, Zenon
    <3>4. \A d \in CPU : d # c \/ t # current[c] => current[d] # t
      BY <3>1, <3>2 DEF Currents
    <3>5. ASSUME DYNAMIC_TIMER, NEW d \in CPU
          PROVE  preempt_timer'[d] <=> ~(current[d] \in CPU \/ real_time'[current[d]])
      <4>1. preempt_timer[d] <=> ~(current[d] \in CPU \/ real_time[current[d]])
        BY <1>2, <3>5, Zenon DEF PreemptTimerFollowsThread, thread_is_real_time_or_idle
      <4>2. current[d] \in Thread \cup {d}
        BY <3>2, Zenon DEF Currents
      <4>3. CASE d = c /\ t = current[c]
        BY <2>1, <3>1, <3>3, <3>5, <4>3, Zenon DEF CpuTypes
      <4>4. CASE d # c \/ t # current[c]
        <5>1. preempt_timer'[d] = preempt_timer[d]
          BY <2>1, <3>1, <4>4, Zenon DEF CpuTypes
        <5>2. current[d] \in Thread => real_time'[current[d]] = real_time[current[d]]
          BY <3>3, <3>4, <4>4, Zenon
        <5> QED BY <3>2, <4>1, <4>2, <5>1, <5>2, Zenon
      <4> QED BY <4>3, <4>4, Zenon
    <3> QED BY <1>2, <3>1, <3>5, Zenon DEF PreemptTimerFollowsThread, thread_is_real_time_or_idle
  <2> QED BY <2>1, <2>2, <2>3, <2>4, Zenon DEF Moved
<1> QED BY <1>1, <1>2, Invariance, PTL DEF Spec

-----------------------------------------------------------------------------
\* No wake-up is lost.  Where no thread is pinned and none sleeps, an idle processor that
\* nothing tells to reschedule finds nothing ready; for this the idle processors must be
\* outside the real-time mask, and whoever wakes is itself not idle or in an interrupt.

Alerted(c) == c \in ipi \/ irq[c] # "none" \/ idle_thread(c) \in yielding

NothingReady(st) == \A t \in Thread : st[t] # "ready"

IdleInv ==
  /\ \A t \in Thread : pinned_cpu[t] = AnyCPU /\ state[t] # "sleeping"
  /\ \A c \in CPU : current[c] = c => c \notin realtime_cpus
  /\ waking.cpu # NoCPU => /\ current[waking.cpu] \in Thread \/ irq[waking.cpu] # "none"
                           /\ list[waking.queue] = <<>> => waking.mask = CPU
  /\ waking.cpu = NoCPU => \A c \in active_cpus : current[c] = c /\ ~Alerted(c) => NothingReady(state)

\* A processor that has rescheduled idles only if nothing is ready, and leaves nothing ready
\* if only one thread was; an idle processor is not in the real-time mask.
LEMMA AfterResched ==
  ASSUME SchedAssumption, IInv, IdleInv, NEW c \in CPU, NEW st, Rescheduled(c, st)
  PROVE  /\ \A d \in CPU \ {c} : current'[d] = current[d]
         /\ \A d \in CPU : current'[d] = d => d \notin realtime_cpus'
         /\ current'[c] = c => NothingReady(state')
         /\ \A x : (\A t \in Thread : st[t] = "ready" => t = x) => NothingReady(state')
         /\ \A t \in Thread : state'[t] = "sleeping" => st[t] = "sleeping"
<1>1. st \in [AllThread -> ThreadState] /\ current \in [CPU -> AllThread] /\ Thread \cap CPU = {}
  BY Zenon DEF Rescheduled, IInv, TypeOK, SchedAssumption
<1>2. PICK q \in [Thread -> 0..QUANTUM], new \in Thread \cup {c} : Switched(c, st, priority', new) /\ switch_to(c, new, st, q, priority')
  BY Zenon DEF Rescheduled
<1>3. \A t \in Thread : t \in AllThread
  BY Zenon DEF AllThread
<1>4. new \in AllThread
  BY Zenon DEF AllThread
<1>5. current'[c] = new /\ \A d \in CPU \ {c} : current'[d] = current[d]
  BY <1>1, <1>2, Zenon DEF Switched
<1>6. state'[new] = "running" /\ \A t \in Thread : t # new => state'[t] = st[t]
  BY <1>1, <1>2, <1>3, <1>4, Zenon DEF Switched
<1>7. \A t \in Thread : st[t] = "ready" => new \in Thread /\ st[new] = "ready"
  BY <1>2, Zenon DEF Switched, IdleInv
<1>8. ASSUME NEW d \in CPU, current'[d] = d
      PROVE  d \notin realtime_cpus'
  <2>1. CASE new = current[c]
    BY <1>2, <1>5, <1>8, <2>1, Zenon DEF switch_to, IdleInv
  <2>2. CASE new # current[c]
    <3>1. realtime_cpus' = IF thread_is_realtime(new, priority') THEN realtime_cpus \cup {c} ELSE realtime_cpus \ {c}
      BY <1>2, <2>2, Zenon DEF switch_to
    <3>2. CASE d = c
      BY <1>1, <1>5, <1>8, <3>1, <3>2, Zenon DEF thread_is_realtime
    <3>3. CASE d # c
      BY <1>5, <1>8, <3>1, <3>3, Zenon DEF IdleInv
    <3> QED BY <3>2, <3>3, Zenon
  <2> QED BY <2>1, <2>2, Zenon
<1>9. current'[c] = c => NothingReady(state')
  BY <1>1, <1>5, <1>6, <1>7, Zenon DEF NothingReady
<1>10. ASSUME NEW x, \A t \in Thread : st[t] = "ready" => t = x
       PROVE  NothingReady(state')
  BY <1>6, <1>7, <1>10, Zenon DEF NothingReady
<1>11. \A t \in Thread : state'[t] = "sleeping" => st[t] = "sleeping"
  BY <1>6, Zenon
<1> QED BY <1>5, <1>8, <1>9, <1>10, <1>11, Zenon

\* A processor that gives up its thread has at most this one more to run.
LEMMA IdleGiveUp ==
  ASSUME SchedAssumption, IInv, IdleInv, waking.cpu = NoCPU, waking' = waking, NEW c \in CPU,
         NEW x \in ThreadState \ {"sleeping"}, Rescheduled(c, [state EXCEPT ![current[c]] = x]),
         UNCHANGED <<pinned_cpu, active_cpus, ipi>>,
         \A d \in CPU \ {c} : irq'[d] = irq[d] /\ (d \in yielding' <=> d \in yielding \ {current[c]})
  PROVE  IdleInv'
<1>1. PICK st : st = [state EXCEPT ![current[c]] = x]
  BY Zenon
<1>2. Rescheduled(c, st)
  BY <1>1, Zenon
<1>3. /\ state \in [AllThread -> ThreadState] /\ current \in [CPU -> AllThread] /\ active_cpus \subseteq CPU
      /\ Currents(state, current, NoCPU)
  BY NobodyAway, Zenon DEF IInv, TypeOK
<1>4. \A t \in Thread : t \in AllThread
  BY Zenon DEF AllThread
<1>5. \A t \in Thread : st[t] = IF t = current[c] THEN x ELSE state[t]
  BY <1>1, <1>3, <1>4, Zenon
<1>6. \A t \in Thread : pinned_cpu'[t] = AnyCPU /\ state'[t] # "sleeping"
  BY <1>2, <1>5, AfterResched DEF IdleInv
<1>7. \A d \in CPU : current'[d] = d => d \notin realtime_cpus'
  BY <1>2, AfterResched, Zenon
<1>8. ASSUME NEW d \in active_cpus', current'[d] = d, ~Alerted(d)'
      PROVE  NothingReady(state')
  <2>1. CASE d = c
    BY <1>2, <1>8, <2>1, AfterResched, Zenon
  <2>2. CASE d # c
    <3>1. d \in active_cpus /\ d \in CPU /\ current[d] = d
      BY <1>2, <1>3, <1>8, <2>2, AfterResched
    <3>2. current[c] # d
      BY <1>3, <2>2, <3>1 DEF Currents
    <3>3. ~Alerted(d)
      BY <1>8, <2>2, <3>1, <3>2, Zenon DEF Alerted, idle_thread
    <3>4. NothingReady(state)
      BY <3>1, <3>3, Zenon DEF IdleInv
    <3>5. \A t \in Thread : st[t] = "ready" => t = current[c]
      BY <1>5, <3>4, Zenon DEF NothingReady
    <3> QED BY <1>2, <3>5, AfterResched
  <2> QED BY <2>1, <2>2, Zenon
<1>9. waking'.cpu = NoCPU
  BY Zenon
<1> QED BY <1>6, <1>7, <1>8, <1>9, Zenon DEF IdleInv

\* mp_reschedule() to all others reaches every idle processor that schedules.
LEMMA Told ==
  ASSUME IInv, IdleInv, NEW c, ipi' = ipi \cup mp_reschedule(c, CPU)
  PROVE  \A d \in active_cpus \ {c} : current[d] = d => d \in ipi'
BY Zenon DEF mp_reschedule, IdleInv, IInv, TypeOK

\* An unpinned thread is announced to all.
LEMMA ToldOfThread ==
  ASSUME IInv, IdleInv, NEW c, NEW t \in Thread, ipi' = ipi \cup wakeup_cpu_for_thread(c, t)
  PROVE  \A d \in active_cpus \ {c} : current[d] = d => d \in ipi'
<1>1. PinMask(t) = CPU
  BY Zenon DEF PinMask, IdleInv
<1>2. ipi' = ipi \cup mp_reschedule(c, CPU)
  BY <1>1, Zenon DEF wakeup_cpu_for_thread
<1> QED BY <1>2, Told, Zenon

\* The calls after which a processor takes the next thread without having woken any.
LEMMA IdleSwitching ==
  ASSUME SchedAssumption, "sleep" \notin Calls, IInv, IdleInv, NEW c \in CPU,
         \/ thread_yield(c) \/ thread_preempt(c) \/ thread_sleep(c) \/ thread_exit(c)
         \/ \E arg \in Priorities : thread_set_priority(c, arg)
         \/ \E w \in WaitQ, b \in BOOLEAN : wait_queue_block(c, w, b)
  PROVE  IdleInv'
<1>1. \A d \in CPU \ {c} : current[c] # d
  <2>1. current[c] \in Thread \cup {c} /\ Thread \cap CPU = {}
    BY Zenon DEF IInv, Currents, SchedAssumption
  <2> QED BY <2>1
<1>2. {"ready", "death", "blocked"} \subseteq ThreadState \ {"sleeping"} /\ irq \in [CPU -> {"none", "timer", "resched"}]
  BY Zenon DEF ThreadState, IInv, TypeOK
<1>3. CASE thread_yield(c)
  <2>1. Rescheduled(c, [state EXCEPT ![current[c]] = "ready"])
    BY <1>3, YieldStep, Zenon
  <2>2. /\ waking.cpu = NoCPU /\ UNCHANGED <<waking, pinned_cpu, active_cpus, ipi>>
        /\ \A d \in CPU \ {c} : irq'[d] = irq[d] /\ (d \in yielding' <=> d \in yielding \ {current[c]})
    BY <1>3, Zenon DEF thread_yield, LockFree, tvars
  <2> QED BY <1>2, <2>1, <2>2, IdleGiveUp, Zenon
<1>4. ASSUME UNCHANGED yielding, \A d \in CPU \ {c} : irq'[d] = irq[d], waking.cpu = NoCPU, UNCHANGED <<waking, pinned_cpu, active_cpus, ipi>>,
             NEW x \in ThreadState \ {"sleeping"}, Rescheduled(c, [state EXCEPT ![current[c]] = x])
      PROVE  IdleInv'
  BY <1>1, <1>4, IdleGiveUp, Zenon
<1>5. CASE thread_preempt(c)
  <2>1. Rescheduled(c, [state EXCEPT ![current[c]] = "ready"])
    BY <1>5, PreemptStep, Zenon
  <2>2. /\ waking.cpu = NoCPU /\ UNCHANGED <<waking, pinned_cpu, active_cpus, ipi, yielding>>
        /\ \A d \in CPU \ {c} : irq'[d] = irq[d]
    BY <1>2, <1>5, Zenon DEF thread_preempt, LockFree, tvars
  <2> QED BY <1>2, <1>4, <2>1, <2>2, Zenon
<1>6. CASE thread_sleep(c)
  BY <1>6, Zenon DEF thread_sleep, Running
<1>7. CASE thread_exit(c)
  <2>1. Rescheduled(c, [state EXCEPT ![current[c]] = "death"])
    BY <1>7, SleepOrExitStep, Zenon
  <2>2. waking.cpu = NoCPU /\ UNCHANGED <<waking, pinned_cpu, active_cpus, ipi, yielding, irq>>
    BY <1>7, Zenon DEF thread_exit, Running, LockFree, tvars
  <2> QED BY <1>2, <1>4, <2>1, <2>2, Zenon
<1>8. ASSUME NEW arg \in Priorities, thread_set_priority(c, arg)
      PROVE  IdleInv'
  <2>1. Rescheduled(c, [state EXCEPT ![current[c]] = "ready"])
    BY <1>8, SetPriorityStep, Zenon
  <2>2. waking.cpu = NoCPU /\ UNCHANGED <<waking, pinned_cpu, active_cpus, ipi, yielding, irq>>
    BY <1>8, Zenon DEF thread_set_priority, Running, LockFree
  <2> QED BY <1>2, <1>4, <2>1, <2>2, Zenon
<1>9. ASSUME NEW w \in WaitQ, NEW b \in BOOLEAN, wait_queue_block(c, w, b)
      PROVE  IdleInv'
  <2>1. Rescheduled(c, [state EXCEPT ![current[c]] = "blocked"])
    BY <1>9, BlockStep, Zenon
  <2>2. waking.cpu = NoCPU /\ UNCHANGED <<waking, pinned_cpu, active_cpus, ipi, yielding, irq>>
    BY <1>9, Zenon DEF wait_queue_block, Running, LockFree, tvars
  <2> QED BY <1>2, <1>4, <2>1, <2>2, Zenon
<1> QED BY <1>3, <1>5, <1>6, <1>7, <1>8, <1>9, Zenon

\* Who wakes a thread announces it to every other processor that idles, and does not idle
\* itself, is about to leave its interrupt, or reschedules.
LEMMA IdleWaking ==
  ASSUME SchedAssumption, IInv, IdleInv, NEW c \in CPU, waking.cpu = NoCPU, waking' = waking,
         UNCHANGED <<pinned_cpu, active_cpus>>,
         \A d \in active_cpus \ {c} : current[d] = d => d \in ipi',
         \/ /\ UNCHANGED <<current, realtime_cpus>>
            /\ c \in active_cpus => current[c] \in Thread \/ irq'[c] # "none"
            /\ \A t \in Thread : state'[t] = "sleeping" => state[t] = "sleeping"
         \/ \E st : Rescheduled(c, st) /\ \A t \in Thread : st[t] = "sleeping" => state[t] = "sleeping"
  PROVE  IdleInv'
<1>1. waking'.cpu = NoCPU /\ Thread \cap CPU = {} /\ active_cpus \subseteq CPU
  BY Zenon DEF SchedAssumption, IInv, TypeOK
<1>2. CASE /\ UNCHANGED <<current, realtime_cpus>>
           /\ c \in active_cpus => current[c] \in Thread \/ irq'[c] # "none"
           /\ \A t \in Thread : state'[t] = "sleeping" => state[t] = "sleeping"
  <2>1. \A d \in active_cpus' : current'[d] = d => Alerted(d)'
    BY <1>1, <1>2, Zenon DEF Alerted
  <2>2. \A t \in Thread : pinned_cpu'[t] = AnyCPU /\ state'[t] # "sleeping"
    BY <1>2, Zenon DEF IdleInv
  <2>3. \A d \in CPU : current'[d] = d => d \notin realtime_cpus'
    BY <1>2, Zenon DEF IdleInv
  <2> QED BY <1>1, <2>1, <2>2, <2>3, Zenon DEF IdleInv
<1>3. ASSUME NEW st, Rescheduled(c, st), \A t \in Thread : st[t] = "sleeping" => state[t] = "sleeping"
      PROVE  IdleInv'
  <2>1. /\ \A d \in CPU \ {c} : current'[d] = current[d]
        /\ \A d \in CPU : current'[d] = d => d \notin realtime_cpus'
        /\ current'[c] = c => NothingReady(state')
        /\ \A t \in Thread : state'[t] = "sleeping" => st[t] = "sleeping"
    BY <1>3, AfterResched, Zenon
  <2>2. \A t \in Thread : pinned_cpu'[t] = AnyCPU /\ state'[t] # "sleeping"
    BY <1>3, <2>1, Zenon DEF IdleInv
  <2>3. \A d \in active_cpus' : current'[d] = d /\ ~Alerted(d)' => NothingReady(state')
    BY <1>1, <2>1, Zenon DEF Alerted
  <2> QED BY <1>1, <2>1, <2>2, <2>3, Zenon DEF IdleInv
<1> QED BY <1>2, <1>3, Zenon

\* The calls that wake threads, and the timeout.
LEMMA IdleWakes ==
  ASSUME SchedAssumption, IInv, IdleInv, NEW c \in CPU,
         \/ \E t \in Thread : thread_resume(c, t) \/ wait_queue_timeout_handler(c, t)
         \/ \E w \in WaitQ, b \in BOOLEAN : wait_queue_wake_one(c, w, b)
  PROVE  IdleInv'
<1>1. /\ state \in [AllThread -> ThreadState] /\ irq \in [CPU -> {"none", "timer", "resched"}]
      /\ list \in [WaitQ -> Seq(Thread)] /\ \A t \in Thread : t \in AllThread
  BY Zenon DEF IInv, TypeOK, AllThread
<1>2. ASSUME NEW t \in Thread, thread_resume(c, t)
      PROVE  IdleInv'
  <2>1. /\ waking.cpu = NoCPU /\ UNCHANGED <<waking, pinned_cpu, active_cpus, current, realtime_cpus>>
        /\ ipi' = ipi \cup wakeup_cpu_for_thread(c, t)
        /\ c \in active_cpus => current[c] \in Thread
        /\ \A u \in Thread : state'[u] = "sleeping" => state[u] = "sleeping"
    BY <1>1, <1>2, Zenon DEF thread_resume, Running, Booting, LockFree, tvars, cpuvars
  <2>2. \A d \in active_cpus \ {c} : current[d] = d => d \in ipi'
    BY <2>1, ToldOfThread, Zenon
  <2> QED BY <2>1, <2>2, IdleWaking, Zenon
<1>3. ASSUME NEW t \in Thread, wait_queue_timeout_handler(c, t)
      PROVE  IdleInv'
  <2>1. /\ waking.cpu = NoCPU /\ UNCHANGED <<waking, pinned_cpu, active_cpus, current, realtime_cpus>>
        /\ ipi' = ipi \cup wakeup_cpu_for_thread(c, t)
        /\ irq'[c] # "none"
        /\ \A u \in Thread : state'[u] = "sleeping" => state[u] = "sleeping"
    BY <1>1, <1>3, Zenon DEF wait_queue_timeout_handler, InTimerTick, LockFree, tvars, cpuvars
  <2>2. \A d \in active_cpus \ {c} : current[d] = d => d \in ipi'
    BY <2>1, ToldOfThread, Zenon
  <2> QED BY <2>1, <2>2, IdleWaking, Zenon
<1>4. ASSUME NEW w \in WaitQ, NEW b \in BOOLEAN, wait_queue_wake_one(c, w, b)
      PROVE  IdleInv'
  <2>1. Head(list[w]) \in Thread
    <3>1. list[w] # <<>> /\ list[w] \in Seq(Thread)
      BY <1>1, <1>4, Zenon DEF wait_queue_wake_one
    <3> QED BY <3>1
  <2>2. /\ waking.cpu = NoCPU /\ UNCHANGED <<waking, pinned_cpu, active_cpus>>
        /\ ipi' = ipi \cup wakeup_cpu_for_thread(c, Head(list[w]))
        /\ current[c] \in Thread \/ irq'[c] # "none"
    BY <1>1, <1>4, Zenon DEF wait_queue_wake_one, WakeCaller, Running, LockFree, tvars
  <2>3. \A d \in active_cpus \ {c} : current[d] = d => d \in ipi'
    BY <2>1, <2>2, ToldOfThread, Zenon
  <2>4. CASE b
    <3>1. \E st : Rescheduled(c, st) /\ \A u \in Thread : st[u] = "sleeping" => state[u] = "sleeping"
      BY <1>4, <2>4, WakeOneStep, Zenon
    <3> QED BY <2>2, <2>3, <3>1, IdleWaking, Zenon
  <2>5. CASE ~b
    <3>1. /\ UNCHANGED <<current, realtime_cpus>>
          /\ \A t \in Thread : state'[t] = "sleeping" => state[t] = "sleeping"
      BY <1>1, <1>4, <2>1, <2>5 DEF wait_queue_wake_one, cpuvars
    <3> QED BY <2>2, <2>3, <3>1, IdleWaking, Zenon
  <2> QED BY <2>4, <2>5, Zenon
<1> QED BY <1>2, <1>3, <1>4, Zenon

\* wait_queue_wake_all() announces all its threads at the end.
LEMMA IdleWakeAll ==
  ASSUME SchedAssumption, IInv, IdleInv,
         \/ \E c \in CPU, w \in WaitQ, b \in BOOLEAN : wait_queue_wake_all(c, w, b)
         \/ wake_all_pop \/ wake_all_done
  PROVE  IdleInv'
<1>1. /\ state \in [AllThread -> ThreadState] /\ irq \in [CPU -> {"none", "timer", "resched"}]
      /\ list \in [WaitQ -> Seq(Thread)] /\ \A t \in Thread : t \in AllThread
      /\ waking \in {NotWaking} \cup [cpu : CPU, queue : WaitQ, reschedule : BOOLEAN, mask : SUBSET CPU]
      /\ Thread \cap CPU = {} /\ NoCPU \notin CPU /\ active_cpus \subseteq CPU
  BY Zenon DEF IInv, TypeOK, AllThread, SchedAssumption
<1>2. ASSUME NEW c \in CPU, NEW w \in WaitQ, NEW b \in BOOLEAN, wait_queue_wake_all(c, w, b)
      PROVE  IdleInv'
  <2>1. /\ waking'.cpu = c /\ waking'.queue = w /\ list'[w] # <<>> /\ UNCHANGED <<pinned_cpu, current, realtime_cpus>>
        /\ current[c] \in Thread \/ irq'[c] # "none"
        /\ \A t \in Thread : state'[t] = "sleeping" => state[t] = "sleeping"
    BY <1>1, <1>2, Zenon DEF wait_queue_wake_all, WakeCaller, Running, tvars, cpuvars, wvars
  <2> QED BY <1>1, <2>1, Zenon DEF IdleInv
<1>3. CASE wake_all_pop
  <2>1. waking.cpu # NoCPU /\ waking.queue \in WaitQ /\ waking.mask \subseteq CPU /\ Head(list[waking.queue]) \in Thread
    BY <1>1, <1>3 DEF wake_all_pop, NotWaking
  <2>2. PinMask(Head(list[waking.queue])) = CPU
    BY <2>1, Zenon DEF PinMask, IdleInv
  <2>3. waking'.cpu = waking.cpu /\ waking'.mask = CPU
    BY <1>1, <1>3, <2>1, <2>2, Zenon DEF wake_all_pop, NotWaking
  <2>4. UNCHANGED <<pinned_cpu, current, realtime_cpus, irq>>
    BY <1>3, Zenon DEF wake_all_pop, tvars, cpuvars
  <2>5. \A t \in Thread : state'[t] = "sleeping" => state[t] = "sleeping"
    BY <1>1, <1>3, <2>1, Zenon DEF wake_all_pop
  <2> QED BY <2>1, <2>3, <2>4, <2>5, Zenon DEF IdleInv
<1>4. CASE wake_all_done
  <2>1. PICK c \in CPU : c = waking.cpu
    <3>1. waking.cpu # NoCPU
      BY <1>4, Zenon DEF wake_all_done
    <3>2. waking \in [cpu : CPU, queue : WaitQ, reschedule : BOOLEAN, mask : SUBSET CPU]
      BY <3>1, WakingType, Zenon
    <3> QED BY <3>2, Zenon
  <2>2. /\ c # NoCPU /\ waking.mask = CPU /\ waking'.cpu = NoCPU /\ ipi' = ipi \cup mp_reschedule(c, CPU)
        /\ UNCHANGED <<pinned_cpu, active_cpus, irq>> /\ (current[c] \in Thread \/ irq[c] # "none")
    BY <1>1, <1>4, <2>1, Zenon DEF wake_all_done, NotWaking, tvars, IdleInv
  <2>3. \A d \in active_cpus \ {c} : current[d] = d => d \in ipi'
    BY <2>2, Told, Zenon
  <2>4. CASE waking.reschedule
    <3>1. Rescheduled(c, state)
      BY <1>4, <2>1, <2>4, DoneStep, Zenon
    <3>2. /\ \A d \in CPU \ {c} : current'[d] = current[d]
          /\ \A d \in CPU : current'[d] = d => d \notin realtime_cpus'
          /\ current'[c] = c => NothingReady(state')
          /\ \A t \in Thread : state'[t] = "sleeping" => state[t] = "sleeping"
      BY <3>1, AfterResched, Zenon
    <3>3. \A d \in active_cpus' : current'[d] = d /\ ~Alerted(d)' => NothingReady(state')
      BY <1>1, <2>2, <2>3, <3>2, Zenon DEF Alerted
    <3> QED BY <2>2, <3>2, <3>3, Zenon DEF IdleInv
  <2>5. CASE ~waking.reschedule
    <3>1. UNCHANGED <<state, current, realtime_cpus>>
      BY <1>4, <2>5, Zenon DEF wake_all_done, cpuvars
    <3>2. \A d \in active_cpus' : current'[d] = d => Alerted(d)'
      BY <1>1, <2>2, <2>3, <3>1 DEF Alerted
    <3> QED BY <2>2, <3>1, <3>2, Zenon DEF IdleInv
  <2> QED BY <2>4, <2>5, Zenon
<1> QED BY <1>2, <1>3, <1>4, Zenon

\* The steps that neither wake nor switch.
LEMMA IdleQuiet ==
  ASSUME SchedAssumption, \A a \in CreateArgs : a[2] = AnyCPU, IInv, IdleInv, NEW c \in CPU,
         \/ \E t \in Thread : \E a \in CreateArgs : thread_create(c, t, a[1], a[2])
         \/ \E t \in Thread : thread_set_real_time(c, t)
         \/ \E t \in Thread : thread_sleep_handler(c, t)
         \/ thread_timer_tick(c) \/ mp_mbx_reschedule_irq(c) \/ thread_become_idle(c)
  PROVE  IdleInv'
<1>1. /\ state \in [AllThread -> ThreadState] /\ irq \in [CPU -> {"none", "timer", "resched"}]
      /\ \A t \in Thread : t \in AllThread
      /\ pinned_cpu \in [Thread -> CPU \cup {AnyCPU}] /\ active_cpus \subseteq CPU
  BY Zenon DEF IInv, TypeOK, AllThread
<1>2. ASSUME UNCHANGED <<pinned_cpu, current, realtime_cpus, list, waking, state>>,
             waking.cpu # NoCPU /\ irq[waking.cpu] # "none" => irq'[waking.cpu] # "none",
             \A d \in active_cpus' : d \in active_cpus \/ Alerted(d)',
             \A d \in CPU : Alerted(d) => Alerted(d)'
      PROVE  IdleInv'
  BY <1>1, <1>2, Zenon DEF IdleInv
<1>3. ASSUME NEW t \in Thread, NEW a \in CreateArgs, thread_create(c, t, a[1], a[2])
      PROVE  IdleInv'
  <2>1. /\ pinned_cpu' = [pinned_cpu EXCEPT ![t] = AnyCPU] /\ state' = [state EXCEPT ![t] = "suspended"]
        /\ UNCHANGED <<current, realtime_cpus, list, waking, active_cpus, ipi, irq, yielding>>
    BY <1>3, Zenon DEF thread_create, cpuvars, wvars
  <2>2. \A u \in Thread : pinned_cpu'[u] = AnyCPU /\ state'[u] \in {state[u], "suspended"}
    BY <1>1, <2>1, Zenon DEF IdleInv
  <2> QED BY <2>1, <2>2, Zenon DEF IdleInv, Alerted, NothingReady
<1>4. ASSUME NEW t \in Thread, thread_set_real_time(c, t)
      PROVE  IdleInv'
  BY <1>2, <1>4, Zenon DEF thread_set_real_time, wvars, Alerted
<1>5. ASSUME NEW t \in Thread, thread_sleep_handler(c, t)
      PROVE  IdleInv'
  BY <1>5, Zenon DEF thread_sleep_handler, IdleInv
<1>6. CASE thread_timer_tick(c)
  <2>1. irq' \in {irq, [irq EXCEPT ![c] = "timer"]}
    BY <1>6, Zenon DEF thread_timer_tick
  <2>2. \A d \in CPU : irq[d] # "none" => irq'[d] # "none"
    BY <1>1, <2>1, Zenon
  <2>3. waking.cpu # NoCPU => waking.cpu \in CPU
    BY WakingType, Zenon
  <2>4. UNCHANGED <<pinned_cpu, current, realtime_cpus, list, waking, state, active_cpus, ipi, yielding>>
    BY <1>6, Zenon DEF thread_timer_tick, tvars, wvars
  <2> QED BY <1>2, <2>2, <2>3, <2>4, Zenon DEF Alerted
<1>7. CASE mp_mbx_reschedule_irq(c)
  <2>1. irq' = [irq EXCEPT ![c] = "resched"] /\ ipi' = ipi \ {c}
    BY <1>7, Zenon DEF mp_mbx_reschedule_irq
  <2>2. irq'[c] = "resched" /\ \A d \in CPU : irq[d] # "none" => irq'[d] # "none"
    BY <1>1, <2>1, Zenon
  <2>3. waking.cpu # NoCPU => waking.cpu \in CPU
    BY WakingType, Zenon
  <2>4. UNCHANGED <<pinned_cpu, current, realtime_cpus, list, waking, state, active_cpus, yielding>>
    BY <1>7, Zenon DEF mp_mbx_reschedule_irq, tvars, wvars, cpuvars
  <2> QED BY <1>2, <2>1, <2>2, <2>3, <2>4, Zenon DEF Alerted
<1>8. CASE thread_become_idle(c)
  <2>1. /\ UNCHANGED <<pinned_cpu, current, realtime_cpus, list, waking, state, irq, ipi>>
        /\ active_cpus' = active_cpus \cup {c} /\ yielding' = yielding \cup {c}
    BY <1>8, Zenon DEF thread_become_idle, tvars, wvars, idle_thread
  <2> QED BY <1>2, <2>1, Zenon DEF Alerted, idle_thread
<1> QED BY <1>3, <1>4, <1>5, <1>6, <1>7, <1>8, Zenon

\* With no pinned and no sleeping threads no wake-up is lost between processors: a processor
\* idles beside a ready thread only with a reschedule interrupt on its way to it or when it
\* is about to reschedule anyway.  Both hypotheses are needed: thread_sleep_handler() tells
\* no other processor, and a pinned thread may displace one that could run elsewhere.
THEOREM NoWakeupIsLost ==
  ASSUME SchedAssumption, "sleep" \notin Calls, \A a \in CreateArgs : a[2] = AnyCPU
  PROVE  Spec => []NoIdleWhileReady
<1>1. Init => IdleInv
  <2>1. ASSUME Init
        PROVE  \A t \in Thread : pinned_cpu[t] = AnyCPU /\ state[t] # "sleeping"
    BY <2>1, Zenon DEF Init, AllThread
  <2>2. ASSUME Init
        PROVE  waking.cpu = NoCPU /\ active_cpus = {} /\ realtime_cpus = {}
    BY <2>2, Zenon DEF Init, NotWaking
  <2> QED BY <2>1, <2>2, Zenon DEF IdleInv
<1>2. ASSUME IInv, IdleInv, [Next]_vars
      PROVE  IdleInv'
  <2>1. CASE UNCHANGED vars
    BY <1>2, <2>1, Zenon DEF IdleInv, Alerted, NothingReady, vars, tvars, wvars, cpuvars
  <2>2. CASE wake_all_pop \/ wake_all_done
    BY <1>2, <2>2, IdleWakeAll, Zenon
  <2>3. ASSUME NEW c \in CPU, ThreadCall(c)
        PROVE  IdleInv'
    BY <1>2, <2>3, IdleQuiet, IdleWakes, IdleWakeAll, IdleSwitching, Zenon DEF ThreadCall
  <2>4. ASSUME NEW c \in CPU, TimerCallback(c)
        PROVE  IdleInv'
    BY <1>2, <2>4, IdleQuiet, IdleWakes, Zenon DEF TimerCallback
  <2>5. ASSUME NEW c \in CPU, thread_yield(c) \/ thread_preempt(c)
        PROVE  IdleInv'
    BY <1>2, <2>5, IdleSwitching, Zenon
  <2>6. ASSUME NEW c \in CPU, thread_timer_tick(c) \/ mp_mbx_reschedule_irq(c) \/ thread_become_idle(c)
        PROVE  IdleInv'
    BY <1>2, <2>6, IdleQuiet, Zenon
  <2> QED BY <1>2, <2>1, <2>2, <2>3, <2>4, <2>5, <2>6, Zenon DEF Next
<1>3. IdleInv => NoIdleWhileReady
  BY Zenon DEF IdleInv, NoIdleWhileReady, Alerted, NothingReady, idle_thread
<1> QED BY <1>1, <1>2, <1>3, Invariance, PTL DEF Spec
=============================================================================
