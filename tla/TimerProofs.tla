---------------------------- MODULE TimerProofs ----------------------------
(***************************************************************************)
(* kernel/timer.c for any number of processors and timers, any delays and  *)
(* periods that are short against the range of the clock, and a clock that *)
(* wraps around: the queues stay sorted and hold a timer once, no timer is *)
(* late by more than the lateness of two interrupts, none fires early, and *)
(* one that was cancelled is not brought back.                             *)
(*                                                                         *)
(* All times are compared by how far they are from now: the comparison     *)
(* that wraps around agrees with the order of these distances as long as   *)
(* they are closer than half the range, which the invariant says they are. *)
(***************************************************************************)
EXTENDS Timer, TLAPS

\* Among the numbers up to n, there is a first one that is in G, or none: a fact about numbers, which
\* the last section proves from the induction theorems of the library.
LeastNumber ==
  \A n \in Nat : \A G :
    \E j \in 1..(n + 1) : (\A k \in 1..(j - 1) : k \notin G) /\ (j <= n => j \in G)

\* What the theorems assume, and the lemmas with LeastNumber: the constants are what they must be,
\* delays are short, and no thread cancels a timer while timer_tick() handles it.
Assumed == TimerAssumption /\ DelaysAreShort /\ ~Racy
Given == Assumed /\ LeastNumber

-----------------------------------------------------------------------------
\* Times.

Time == 0..(Wrap - 1)
Half == Wrap \div 2

\* The constants, as the provers need them.
LEMMA Halves ==
  ASSUME TimerAssumption
  PROVE  Wrap \in Nat /\ Half \in Nat /\ Half > 0 /\ Wrap = 2 * Half /\ MaxLate \in Nat
<1>1. Wrap \in Nat /\ Wrap > 1 /\ Wrap % 2 = 0 /\ MaxLate \in Nat
  BY DEF TimerAssumption
<1>2. Wrap = 2 * (Wrap \div 2) /\ (Wrap \div 2) \in Nat /\ (Wrap \div 2) > 0
  BY <1>1
<1> QED BY <1>1, <1>2 DEF Half

\* A time is a number.
LEMMA TimesAreNumbers ==
  ASSUME TimerAssumption, NEW w \in Time
  PROVE  w \in Int /\ w >= 0
BY Halves DEF Time

\* x is congruent to y, and at most twice the range away.
Congruent(x, y) ==
  x = y \/ x = y + Wrap \/ x = y - Wrap \/ x = y + Wrap + Wrap \/ x = y - Wrap - Wrap

\* What the truncation to lk_time_t returns.
LEMMA Truncated ==
  ASSUME TimerAssumption, NEW x \in Int, NEW y \in Time, Congruent(x, y)
  PROVE  x % Wrap = y
<1>1. Wrap \in Nat /\ Wrap > 0 /\ y \in Int /\ 0 <= y /\ y < Wrap
  BY Halves DEF Time
<1>2. y % Wrap = y
  BY <1>1
<1>3. (y + Wrap) % Wrap = y /\ (y - Wrap) % Wrap = y
  <2>1. (y + Wrap) % Wrap = y % Wrap
    BY <1>1
  <2>2. y - Wrap \in Int /\ (y - Wrap) + Wrap = y
    BY <1>1
  <2>3. ((y - Wrap) + Wrap) % Wrap = (y - Wrap) % Wrap
    BY <1>1, <2>2
  <2> QED BY <1>2, <2>1, <2>2, <2>3
<1>4. (y + Wrap + Wrap) % Wrap = y /\ (y - Wrap - Wrap) % Wrap = y
  <2>1. y + Wrap \in Int /\ y - Wrap - Wrap \in Int /\ (y - Wrap - Wrap) + Wrap = y - Wrap
    BY <1>1
  <2>2. ((y + Wrap) + Wrap) % Wrap = (y + Wrap) % Wrap
    BY <1>1, <2>1
  <2>3. ((y - Wrap - Wrap) + Wrap) % Wrap = (y - Wrap - Wrap) % Wrap
    BY <1>1, <2>1
  <2> QED BY <1>3, <2>1, <2>2, <2>3
<1> QED BY <1>2, <1>3, <1>4 DEF Congruent

\* The distance of two times is between minus and plus half the range, and congruent to their
\* difference.
LEMMA Distance ==
  ASSUME TimerAssumption, NEW a \in Time, NEW b \in Time
  PROVE  /\ Diff(a, b) \in Int /\ -Half <= Diff(a, b) /\ Diff(a, b) < Half
         /\ a - b = Diff(a, b) \/ a - b = Diff(a, b) + Wrap \/ a - b = Diff(a, b) - Wrap
<1>1. Wrap \in Nat /\ Half \in Nat /\ Half > 0 /\ Wrap = 2 * Half /\ a \in Int /\ b \in Int
      /\ 0 <= a /\ a < Wrap /\ 0 <= b /\ b < Wrap
  BY Halves DEF Time
<1>2. PICK d : d = IF a >= b THEN a - b ELSE a - b + Wrap
  OBVIOUS
<1>3. d \in Time /\ d \in Int /\ 0 <= d /\ d < Wrap /\ Congruent(a - b, d) /\ a - b \in Int
  BY <1>1, <1>2 DEF Time, Congruent
<1>4. (a - b) % Wrap = d
  BY <1>3, Truncated
<1>5. Diff(a, b) = IF d < Half THEN d ELSE d - Wrap
  BY <1>4, Zenon DEF Diff, Half
<1> QED BY <1>1, <1>2, <1>3, <1>5

\* The distance is the only number in that range that is congruent to the difference.
LEMMA DistanceIs ==
  ASSUME TimerAssumption, NEW a \in Time, NEW b \in Time, NEW d \in Int,
         -Half <= d, d < Half, Congruent(a - b, d)
  PROVE  Diff(a, b) = d
<1>1. Wrap \in Nat /\ Half \in Nat /\ Half > 0 /\ Wrap = 2 * Half /\ a \in Int /\ b \in Int
  BY Halves DEF Time
<1>2. PICK e \in Int : e = Diff(a, b)
  BY Distance
<1>3. /\ -Half <= e /\ e < Half
      /\ a - b = e \/ a - b = e + Wrap \/ a - b = e - Wrap
  BY <1>2, Distance
<1>4. \/ d = e \/ d = e + Wrap \/ d = e - Wrap \/ d = e + Wrap + Wrap \/ d = e - Wrap - Wrap
      \/ d = e + Wrap + Wrap + Wrap \/ d = e - Wrap - Wrap - Wrap
  BY <1>1, <1>3 DEF Congruent
<1>5. d = e
  BY <1>1, <1>3, <1>4
<1> QED BY <1>2, <1>5

\* A time d after b, as timer_set() and timer_tick() compute it.
LEMMA Later ==
  ASSUME TimerAssumption, NEW a \in Time, NEW d \in Time
  PROVE  /\ Plus(a, d) \in Time
         /\ Plus(a, d) = a + d \/ Plus(a, d) = a + d - Wrap
<1>1. Wrap \in Nat /\ Wrap > 0 /\ a \in Int /\ d \in Int /\ 0 <= a /\ a < Wrap /\ 0 <= d /\ d < Wrap
  BY Halves DEF Time
<1>2. PICK s : s = IF a + d < Wrap THEN a + d ELSE a + d - Wrap
  OBVIOUS
<1>3. s \in Time /\ a + d \in Int /\ Congruent(a + d, s)
  BY <1>1, <1>2 DEF Time, Congruent
<1>4. Plus(a, d) = s
  BY <1>3, Truncated, Zenon DEF Plus
<1> QED BY <1>1, <1>2, <1>3, <1>4

\* The distance of two times from their distances from a third.
LEMMA Between ==
  ASSUME TimerAssumption, NEW a \in Time, NEW b \in Time, NEW n \in Time, NEW d \in Int,
         d = Diff(a, n) - Diff(b, n), -Half <= d, d < Half
  PROVE  Diff(a, b) = d
<1>1. Wrap \in Nat /\ Half \in Nat /\ Wrap = 2 * Half /\ a \in Int /\ b \in Int /\ n \in Int
  BY Halves DEF Time
<1>2. PICK x \in Int : x = Diff(a, n) /\ (a - n = x \/ a - n = x + Wrap \/ a - n = x - Wrap)
  BY Distance
<1>3. PICK y \in Int : y = Diff(b, n) /\ (b - n = y \/ b - n = y + Wrap \/ b - n = y - Wrap)
  BY Distance
<1>4. d = x - y
  BY <1>2, <1>3
<1>5. Congruent(a - b, d)
  BY <1>1, <1>2, <1>3, <1>4 DEF Congruent
<1> QED BY <1>5, DistanceIs

\* The distance of a time that is d later than b.
LEMMA Postponed ==
  ASSUME TimerAssumption, NEW b \in Time, NEW n \in Time, NEW d \in Time, NEW e \in Int,
         e = Diff(b, n) + d, -Half <= e, e < Half
  PROVE  Diff(Plus(b, d), n) = e
<1>1. Wrap \in Nat /\ Half \in Nat /\ Wrap = 2 * Half /\ d \in Int /\ b \in Int /\ n \in Int
  BY Halves DEF Time
<1>2. PICK y \in Int : y = Diff(b, n) /\ (b - n = y \/ b - n = y + Wrap \/ b - n = y - Wrap)
  BY Distance
<1>3. PICK p \in Time : p = Plus(b, d) /\ (p = b + d \/ p = b + d - Wrap)
  BY Later
<1>4. p \in Int /\ e = y + d
  BY <1>1, <1>2, <1>3 DEF Time
<1>5. Congruent(p - n, e)
  BY <1>1, <1>2, <1>3, <1>4 DEF Congruent
<1> QED BY <1>3, <1>5, DistanceIs

\* The same two times exchanged.
LEMMA Opposite ==
  ASSUME TimerAssumption, NEW a \in Time, NEW b \in Time, Diff(a, b) > -Half
  PROVE  Diff(b, a) = -Diff(a, b)
<1>1. Wrap \in Nat /\ Half \in Nat /\ Wrap = 2 * Half /\ a \in Int /\ b \in Int
  BY Halves DEF Time
<1>2. PICK x \in Int : x = Diff(a, b) /\ -Half <= x /\ x < Half
                       /\ (a - b = x \/ a - b = x + Wrap \/ a - b = x - Wrap)
  BY Distance
<1>3. -x \in Int /\ -Half <= -x /\ -x < Half /\ Congruent(b - a, -x)
  BY <1>1, <1>2 DEF Congruent
<1> QED BY <1>2, <1>3, DistanceIs

\* A time is at no distance from itself.
LEMMA Same ==
  ASSUME TimerAssumption, NEW a \in Time
  PROVE  Diff(a, a) = 0
<1>1. a - a = 0 /\ 0 \in Int /\ -Half <= 0 /\ 0 < Half /\ Congruent(a - a, 0)
  BY Halves DEF Time, Congruent
<1> QED BY <1>1, DistanceIs
-----------------------------------------------------------------------------
\* Queues.

Elems(q) == {q[i] : i \in 1..Len(q)}
Once(q) == \A i, j \in 1..Len(q) : q[i] = q[j] => i = j

\* The queue holds each timer once, in the order of the distances r.
Ordered(q, r) ==
  Once(q) /\ \A i, j \in 1..Len(q) : i < j => r[q[i]] <= r[q[j]]

\* z is q with t at place i; z is q without the timer at place i.
Inserted(q, i, t, z) ==
  /\ z \in Seq(TimerT) /\ Len(z) = Len(q) + 1 /\ z[i] = t
  /\ \A k \in 1..(i - 1) : z[k] = q[k]
  /\ \A k \in i..Len(q) : z[k + 1] = q[k]
Removed(q, i, z) ==
  /\ z \in Seq(TimerT) /\ Len(z) = Len(q) - 1
  /\ \A k \in 1..(i - 1) : z[k] = q[k]
  /\ \A k \in (i + 1)..Len(q) : z[k - 1] = q[k]

\* list_add_before() the i-th timer, and list_add_tail() when there is none.
LEMMA InsertedAt ==
  ASSUME NEW q \in Seq(TimerT), NEW i \in 1..(Len(q) + 1), NEW t \in TimerT
  PROVE  Inserted(q, i, t, list_add_before(q, i, t))
<1>1. Len(q) \in Nat /\ i \in Int /\ 1 <= i /\ i <= Len(q) + 1
  OBVIOUS
<1>2. ASSUME NEW k \in 1..(Len(q) + 1)
      PROVE  (IF k < i THEN q[k] ELSE IF k = i THEN t ELSE q[k - 1]) \in TimerT
  BY <1>1
<1>3. PICK z : z = list_add_before(q, i, t)
  BY Zenon
<1>4. z = [k \in 1..(Len(q) + 1) |-> IF k < i THEN q[k] ELSE IF k = i THEN t ELSE q[k - 1]]
  BY <1>3, Zenon DEF list_add_before
<1>5. z \in Seq(TimerT) /\ Len(z) = Len(q) + 1
  BY <1>1, <1>2, <1>4
<1>6. z[i] = t /\ (\A k \in 1..(i - 1) : z[k] = q[k]) /\ \A k \in i..Len(q) : z[k + 1] = q[k]
  BY <1>1, <1>4
<1> QED BY <1>3, <1>5, <1>6, Zenon DEF Inserted

\* list_delete() of the timer, which is the i-th.
LEMMA RemovedAt ==
  ASSUME NEW q \in Seq(TimerT), NEW t, NEW i \in 1..Len(q),
         i = CHOOSE j \in 1..Len(q) : q[j] = t
  PROVE  Removed(q, i, list_delete(q, t))
<1>1. Len(q) \in Nat /\ i \in Int /\ 1 <= i /\ i <= Len(q)
  OBVIOUS
<1>2. ASSUME NEW k \in 1..(Len(q) - 1) PROVE (IF k < i THEN q[k] ELSE q[k + 1]) \in TimerT
  BY <1>1
<1>3. PICK z : z = list_delete(q, t)
  BY Zenon
<1>4. z = [k \in 1..(Len(q) - 1) |-> IF k < i THEN q[k] ELSE q[k + 1]]
  BY <1>3 DEF list_delete
<1>5. z \in Seq(TimerT) /\ Len(z) = Len(q) - 1
  BY <1>1, <1>2, <1>4
<1>6. ASSUME NEW k \in 1..(i - 1) PROVE z[k] = q[k]
  BY <1>1, <1>4
<1>7. ASSUME NEW k \in (i + 1)..Len(q) PROVE z[k - 1] = q[k]
  <2>1. k - 1 \in 1..(Len(q) - 1) /\ ~(k - 1 < i) /\ (k - 1) + 1 = k
    BY <1>1
  <2> QED BY <1>4, <2>1
<1> QED BY <1>3, <1>5, <1>6, <1>7, Zenon DEF Removed

\* insert_timer_in_queue() at a place i between the timers that are due no later and the ones that
\* are due later.
LEMMA OrderedInsert ==
  ASSUME NEW q \in Seq(TimerT), NEW i \in 1..(Len(q) + 1), NEW t \in TimerT,
         NEW r \in [TimerT -> Int], Ordered(q, r), t \notin Elems(q),
         \A k \in 1..(i - 1) : r[q[k]] <= r[t],
         i <= Len(q) => r[t] < r[q[i]],
         NEW z, Inserted(q, i, t, z)
  PROVE  z \in Seq(TimerT) /\ Ordered(z, r) /\ Elems(z) = Elems(q) \cup {t} /\ z # <<>>
<1>1. z \in Seq(TimerT) /\ Len(z) = Len(q) + 1 /\ z[i] = t
  BY Zenon DEF Inserted
<1>2. Len(q) \in Nat /\ i \in Int /\ 1 <= i /\ i <= Len(q) + 1
  OBVIOUS
<1>3. \A k \in 1..Len(q) : q[k] \in TimerT /\ q[k] # t /\ r[q[k]] \in Int
  BY DEF Elems
<1>4. ASSUME NEW k \in 1..Len(z), k # i
      PROVE  \E m \in 1..Len(q) : z[k] = q[m] /\ m = IF k < i THEN k ELSE k - 1
  <2>1. CASE k < i
    <3>1. k \in 1..(i - 1) /\ k \in 1..Len(q)
      BY <1>1, <1>2, <2>1
    <3> QED BY <2>1, <3>1, Zenon DEF Inserted
  <2>2. CASE k > i
    <3>1. PICK m \in i..Len(q) : m = k - 1 /\ m + 1 = k
      BY <1>1, <1>2, <2>2
    <3>2. z[m + 1] = q[m]
      BY Zenon DEF Inserted
    <3>3. m \in 1..Len(q)
      BY <1>2
    <3>4. ~(k < i)
      BY <1>2, <2>2
    <3> QED BY <3>1, <3>2, <3>3, <3>4, Zenon
  <2> QED BY <1>2, <1>4, <2>1, <2>2
<1>5. \A m, n \in 1..Len(q) : (q[m] = q[n] => m = n) /\ (m < n => r[q[m]] <= r[q[n]])
  BY Zenon DEF Ordered, Once
<1>6. \A k \in i..Len(q) : r[t] < r[q[k]]
  <2> SUFFICES ASSUME NEW k \in i..Len(q) PROVE r[t] < r[q[k]]
    OBVIOUS
  <2>1. k \in 1..Len(q) /\ i \in 1..Len(q) /\ r[t] < r[q[i]] /\ (i = k \/ i < k)
    BY <1>2
  <2>2. r[q[i]] <= r[q[k]]
    BY <1>3, <1>5, <2>1
  <2> QED BY <1>3, <2>1, <2>2
<1>7. Once(z)
  <2> SUFFICES ASSUME NEW j \in 1..Len(z), NEW k \in 1..Len(z), z[j] = z[k] PROVE j = k
    BY Zenon DEF Once
  <2>1. CASE j = i \/ k = i
    BY <1>1, <1>3, <1>4, <2>1, Zenon
  <2>2. CASE j # i /\ k # i
    <3>1. PICK m \in 1..Len(q) : z[j] = q[m] /\ m = IF j < i THEN j ELSE j - 1
      BY <1>4, <2>2
    <3>2. PICK n \in 1..Len(q) : z[k] = q[n] /\ n = IF k < i THEN k ELSE k - 1
      BY <1>4, <2>2
    <3>3. m = n
      BY <1>5, <3>1, <3>2, Zenon
    <3> QED BY <1>2, <2>2, <3>1, <3>2, <3>3
  <2> QED BY <2>1, <2>2, Zenon
<1>8. ASSUME NEW j \in 1..Len(z), NEW k \in 1..Len(z), j < k PROVE r[z[j]] <= r[z[k]]
  <2>1. CASE j = i
    <3>1. PICK n \in 1..Len(q) : z[k] = q[n] /\ n = IF k < i THEN k ELSE k - 1
      BY <1>2, <1>4, <1>8, <2>1
    <3>2. n \in i..Len(q)
      BY <1>2, <1>8, <2>1, <3>1
    <3>3. r[t] < r[q[n]] /\ r[t] \in Int /\ r[q[n]] \in Int
      BY <1>3, <1>6, <3>2
    <3>4. r[t] <= r[q[n]]
      BY <3>3
    <3> QED BY <1>1, <2>1, <3>1, <3>4, Zenon
  <2>2. CASE k = i
    <3>1. PICK m \in 1..Len(q) : z[j] = q[m] /\ m = IF j < i THEN j ELSE j - 1
      BY <1>2, <1>4, <1>8, <2>2
    <3>2. m \in 1..(i - 1)
      BY <1>2, <1>8, <2>2, <3>1
    <3> QED BY <1>1, <2>2, <3>1, <3>2, Zenon
  <2>3. CASE j # i /\ k # i
    <3>1. PICK m \in 1..Len(q) : z[j] = q[m] /\ m = IF j < i THEN j ELSE j - 1
      BY <1>4, <2>3
    <3>2. PICK n \in 1..Len(q) : z[k] = q[n] /\ n = IF k < i THEN k ELSE k - 1
      BY <1>4, <2>3
    <3>3. m < n
      BY <1>2, <1>8, <2>3, <3>1, <3>2
    <3> QED BY <1>5, <3>1, <3>2, <3>3, Zenon
  <2> QED BY <2>1, <2>2, <2>3, Zenon
<1>9. Elems(z) = Elems(q) \cup {t}
  <2>1. \A k \in 1..Len(z) : z[k] \in Elems(q) \cup {t}
    BY <1>1, <1>4, Zenon DEF Elems
  <2>2. t \in Elems(z)
    BY <1>1, <1>2 DEF Elems
  <2>3. ASSUME NEW k \in 1..Len(q) PROVE q[k] \in Elems(z)
    <3>1. CASE k < i
      <4>1. k \in 1..(i - 1) /\ k \in 1..Len(z)
        BY <1>1, <1>2, <3>1
      <4> QED BY <4>1, Zenon DEF Elems, Inserted
    <3>2. CASE k >= i
      <4>1. k \in i..Len(q) /\ k + 1 \in 1..Len(z)
        BY <1>1, <1>2, <3>2
      <4> QED BY <4>1, Zenon DEF Elems, Inserted
    <3> QED BY <1>2, <3>1, <3>2
  <2> QED BY <2>1, <2>2, <2>3, Zenon DEF Elems
<1>10. z # <<>>
  BY <1>1, <1>2
<1> QED BY <1>1, <1>7, <1>8, <1>9, <1>10, Zenon DEF Ordered

\* The places of the timers behind the one that is taken off, before and after.
LEMMA Shifted ==
  ASSUME NEW i \in Int, NEW j \in Int, NEW k \in Int
  PROVE  /\ (IF j < i THEN j ELSE j + 1) = (IF k < i THEN k ELSE k + 1) => j = k
         /\ j < k => (IF j < i THEN j ELSE j + 1) < (IF k < i THEN k ELSE k + 1)
OBVIOUS

\* A timer is taken off a queue that is in order.
LEMMA OrderedRemove ==
  ASSUME NEW q \in Seq(TimerT), NEW i \in 1..Len(q), NEW r \in [TimerT -> Int], Ordered(q, r),
         NEW z, Removed(q, i, z)
  PROVE  z \in Seq(TimerT) /\ Ordered(z, r) /\ Elems(z) = Elems(q) \ {q[i]}
<1>1. z \in Seq(TimerT) /\ Len(z) = Len(q) - 1
  BY Zenon DEF Removed
<1>2. Len(q) \in Nat /\ i \in Int /\ 1 <= i /\ i <= Len(q)
  OBVIOUS
<1>3. ASSUME NEW k \in 1..Len(z)
      PROVE  \E m \in 1..Len(q) : z[k] = q[m] /\ m = IF k < i THEN k ELSE k + 1
  <2>1. CASE k < i
    <3>1. k \in 1..(i - 1) /\ k \in 1..Len(q)
      BY <1>1, <1>2, <2>1
    <3> QED BY <2>1, <3>1 DEF Removed
  <2>2. CASE k >= i
    <3>1. PICK m \in (i + 1)..Len(q) : m = k + 1 /\ m - 1 = k
      BY <1>1, <1>2, <2>2
    <3>2. z[m - 1] = q[m]
      BY Zenon DEF Removed
    <3>3. m \in 1..Len(q)
      BY <1>2
    <3>4. ~(k < i)
      BY <1>2, <2>2
    <3> QED BY <3>1, <3>2, <3>3, <3>4, Zenon
  <2> QED BY <1>2, <2>1, <2>2
<1>4. \A m, n \in 1..Len(q) : (q[m] = q[n] => m = n) /\ (m < n => r[q[m]] <= r[q[n]])
  BY Zenon DEF Ordered, Once
<1>5. Once(z)
  <2> SUFFICES ASSUME NEW j \in 1..Len(z), NEW k \in 1..Len(z), z[j] = z[k] PROVE j = k
    BY Zenon DEF Once
  <2>1. PICK m \in 1..Len(q) : z[j] = q[m] /\ m = IF j < i THEN j ELSE j + 1
    BY <1>3
  <2>2. PICK n \in 1..Len(q) : z[k] = q[n] /\ n = IF k < i THEN k ELSE k + 1
    BY <1>3
  <2>3. m = n
    BY <1>4, <2>1, <2>2, Zenon
  <2>4. (IF j < i THEN j ELSE j + 1) = (IF k < i THEN k ELSE k + 1)
    BY <2>1, <2>2, <2>3, Zenon
  <2>5. j \in Int /\ k \in Int
    BY <1>1, <1>2
  <2> QED BY <1>2, <2>4, <2>5, Shifted, Zenon
<1>6. ASSUME NEW j \in 1..Len(z), NEW k \in 1..Len(z), j < k PROVE r[z[j]] <= r[z[k]]
  <2>1. PICK m \in 1..Len(q) : z[j] = q[m] /\ m = IF j < i THEN j ELSE j + 1
    BY <1>3
  <2>2. PICK n \in 1..Len(q) : z[k] = q[n] /\ n = IF k < i THEN k ELSE k + 1
    BY <1>3
  <2>3. j \in Int /\ k \in Int
    BY <1>1, <1>2
  <2>4. m < n
    BY <1>2, <1>6, <2>1, <2>2, <2>3, Shifted, Zenon
  <2> QED BY <1>4, <2>1, <2>2, <2>4, Zenon
<1>7. Elems(z) = Elems(q) \ {q[i]}
  <2>1. ASSUME NEW k \in 1..Len(z) PROVE z[k] \in Elems(q) /\ z[k] # q[i]
    <3>1. PICK m \in 1..Len(q) : z[k] = q[m] /\ m = IF k < i THEN k ELSE k + 1
      BY <1>3
    <3>2. m # i
      BY <1>2, <3>1
    <3> QED BY <1>4, <3>1, <3>2, Zenon DEF Elems
  <2>2. ASSUME NEW k \in 1..Len(q), k # i PROVE q[k] \in Elems(z)
    <3>1. CASE k < i
      <4>1. k \in 1..(i - 1) /\ k \in 1..Len(z)
        BY <1>1, <1>2, <3>1
      <4> QED BY <4>1, Zenon DEF Elems, Removed
    <3>2. CASE k > i
      <4>1. k \in (i + 1)..Len(q) /\ k - 1 \in 1..Len(z)
        BY <1>1, <1>2, <3>2
      <4> QED BY <4>1, Zenon DEF Elems, Removed
    <3> QED BY <1>2, <2>2, <3>1, <3>2
  <2> QED BY <2>1, <2>2, Zenon DEF Elems
<1> QED BY <1>1, <1>5, <1>6, <1>7, Zenon DEF Ordered

\* The head of a queue that is in order is due first, and list_remove_head() keeps the order.
LEMMA OrderedHead ==
  ASSUME NEW q \in Seq(TimerT), q # <<>>, NEW r \in [TimerT -> Int], Ordered(q, r)
  PROVE  /\ Head(q) \in TimerT /\ Head(q) \in Elems(q)
         /\ \A u \in Elems(q) : r[Head(q)] <= r[u]
         /\ Tail(q) \in Seq(TimerT) /\ Ordered(Tail(q), r) /\ Elems(Tail(q)) = Elems(q) \ {Head(q)}
<1>1. Len(q) \in Nat /\ Len(q) >= 1 /\ 1 \in 1..Len(q) /\ Head(q) = q[1] /\ q[1] \in TimerT
  OBVIOUS
<1>2. Head(q) \in Elems(q)
  BY <1>1 DEF Elems
<1>3. \A u \in Elems(q) : r[Head(q)] <= r[u]
  <2> SUFFICES ASSUME NEW k \in 1..Len(q) PROVE r[q[1]] <= r[q[k]]
    BY <1>1 DEF Elems
  <2>1. CASE k = 1
    BY <1>1, <2>1
  <2>2. CASE k > 1
    BY <1>1, <2>2 DEF Ordered
  <2> QED BY <1>1, <2>1, <2>2
<1>4. /\ Tail(q) \in Seq(TimerT) /\ Len(Tail(q)) = Len(q) - 1
      /\ \A k \in 1..Len(Tail(q)) : Tail(q)[k] = q[k + 1]
  BY <1>1
<1>5. PICK z \in Seq(TimerT) : z = Tail(q)
  BY <1>4, Zenon
<1>6. /\ Len(z) = Len(q) - 1
      /\ \A k \in 1..Len(z) : k + 1 \in 1..Len(q) /\ k + 1 # 1 /\ z[k] = q[k + 1]
  BY <1>1, <1>4, <1>5
<1>7. \A m, n \in 1..Len(q) : (q[m] = q[n] => m = n) /\ (m < n => r[q[m]] <= r[q[n]])
  BY DEF Ordered, Once
<1>8. Ordered(z, r)
  <2>1. ASSUME NEW j \in 1..Len(z), NEW k \in 1..Len(z)
        PROVE  (z[j] = z[k] => j = k) /\ (j < k => r[z[j]] <= r[z[k]])
    <3>1. PICK m \in 1..Len(q) : z[j] = q[m] /\ m = j + 1
      BY <1>6
    <3>2. PICK n \in 1..Len(q) : z[k] = q[n] /\ n = k + 1
      BY <1>6
    <3>3. (m = n => j = k) /\ (j < k => m < n)
      BY <3>1, <3>2
    <3> QED BY <1>7, <3>1, <3>2, <3>3, Zenon
  <2> QED BY <2>1, Zenon DEF Ordered, Once
<1>9. Elems(z) = Elems(q) \ {q[1]}
  <2>1. ASSUME NEW k \in 1..Len(z) PROVE z[k] \in Elems(q) /\ z[k] # q[1]
    <3>1. k + 1 \in 1..Len(q) /\ k + 1 # 1 /\ z[k] = q[k + 1]
      BY <1>6, Zenon
    <3> QED BY <1>1, <1>7, <3>1, Zenon DEF Elems
  <2>2. ASSUME NEW k \in 1..Len(q), k # 1 PROVE q[k] \in Elems(z)
    <3>1. k - 1 \in 1..Len(z) /\ z[k - 1] = q[k]
      BY <1>1, <1>6, <2>2
    <3> QED BY <3>1, Zenon DEF Elems
  <2> QED BY <2>1, <2>2, Zenon DEF Elems
<1> QED BY <1>1, <1>2, <1>3, <1>5, <1>8, <1>9
\* The distances of the times in sched from n.
Ahead(sched, n) == [u \in TimerT |-> Diff(sched[u], n)]

\* The times in a queue in order can be compared with that of a timer that is not in it.
Comparable(q, t, sched, n, r) ==
  /\ r = Ahead(sched, n) /\ Ordered(q, r) /\ t \notin Elems(q)
  /\ \A u \in Elems(q) : -Half <= r[u] - r[t] /\ r[u] - r[t] < Half

\* insert_timer_in_queue(): then the queue stays in order and holds the timer as well.
LEMMA QueueInsert ==
  ASSUME Given, NEW q \in Seq(TimerT), NEW t \in TimerT, NEW n \in Time,
         NEW sched \in [TimerT -> Time], NEW r \in [TimerT -> Int], Comparable(q, t, sched, n, r),
         NEW z, z = insert_timer_in_queue(q, t, sched)
  PROVE  z \in Seq(TimerT) /\ Ordered(z, r) /\ Elems(z) = Elems(q) \cup {t} /\ z # <<>>
<1>0. /\ r = Ahead(sched, n) /\ Ordered(q, r) /\ t \notin Elems(q)
      /\ \A u \in Elems(q) : -Half <= r[u] - r[t] /\ r[u] - r[t] < Half
  BY Zenon DEF Comparable
<1> USE <1>0
<1>1. Len(q) \in Nat /\ \A k \in 1..Len(q) : q[k] \in TimerT /\ q[k] \in Elems(q)
  BY DEF Elems
<1>2. ASSUME NEW u \in Elems(q), u \in TimerT
      PROVE  TIME_GT(sched[u], sched[t]) <=> r[t] < r[u]
  <2>1. sched[u] \in Time /\ sched[t] \in Time /\ r[u] \in Int /\ r[t] \in Int
    BY <1>2
  <2>2. r[u] = Diff(sched[u], n) /\ r[t] = Diff(sched[t], n)
    BY <1>2, Zenon DEF Ahead
  <2>3. PICK d \in Int : d = r[u] - r[t] /\ -Half <= d /\ d < Half
    BY <1>2, <2>1
  <2>4. Diff(sched[u], sched[t]) = d
    <3>1. TimerAssumption
      BY Zenon DEF Given, Assumed
    <3> QED BY <2>1, <2>2, <2>3, <3>1, Between
  <2> QED BY <2>1, <2>3, <2>4 DEF TIME_GT
<1> DEFINE P(j) == /\ \A k \in 1..(j - 1) : ~TIME_GT(sched[q[k]], sched[t])
                   /\ j <= Len(q) => TIME_GT(sched[q[j]], sched[t])
<1>3. \E j \in 1..(Len(q) + 1) : P(j)
  <2> DEFINE G == {k \in 1..Len(q) : TIME_GT(sched[q[k]], sched[t])}
  <2> HIDE DEF G
  <2>1. PICK j \in 1..(Len(q) + 1) : (\A k \in 1..(j - 1) : k \notin G) /\ (j <= Len(q) => j \in G)
    BY <1>1, Zenon DEF Given, LeastNumber
  <2>2. \A k \in 1..(j - 1) : k \in 1..Len(q)
    BY <1>1
  <2> QED BY <2>1, <2>2, Zenon DEF G
<1>4. PICK i : i = CHOOSE j \in 1..(Len(q) + 1) : P(j)
  BY Zenon
<1>5. i \in 1..(Len(q) + 1) /\ P(i)
  BY <1>3, <1>4, Zenon
<1>6. z = list_add_before(q, i, t)
  BY <1>4, Zenon DEF insert_timer_in_queue
<1>7. \A k \in 1..(i - 1) : r[q[k]] <= r[t]
  <2> SUFFICES ASSUME NEW k \in 1..(i - 1) PROVE r[q[k]] <= r[t]
    BY Zenon
  <2>1. k \in 1..Len(q)
    BY <1>1, <1>5
  <2>2. ~(r[t] < r[q[k]])
    BY <1>1, <1>2, <1>5, <2>1, Zenon
  <2>3. r[q[k]] \in Int /\ r[t] \in Int
    BY <1>1, <2>1, Zenon
  <2> QED BY <2>2, <2>3
<1>8. i <= Len(q) => r[t] < r[q[i]]
  <2>1. i <= Len(q) => i \in 1..Len(q)
    BY <1>1, <1>5
  <2> QED BY <1>1, <1>2, <1>5, <2>1, Zenon
<1>9. Inserted(q, i, t, z)
  BY <1>5, <1>6, InsertedAt, Zenon
<1> QED BY <1>5, <1>7, <1>8, <1>9, OrderedInsert, Zenon

\* What timer_cancel() does to a queue, whether the timer is in it or not.
LEMMA QueueDelete ==
  ASSUME NEW q \in Seq(TimerT), NEW t \in TimerT, NEW r \in [TimerT -> Int], Ordered(q, r),
         NEW z, z = IF list_in_list(q, t) THEN list_delete(q, t) ELSE q
  PROVE  z \in Seq(TimerT) /\ Ordered(z, r) /\ Elems(z) = Elems(q) \ {t}
<1>1. CASE list_in_list(q, t)
  <2>1. PICK i : i = CHOOSE j \in 1..Len(q) : q[j] = t
    BY Zenon
  <2>2. i \in 1..Len(q) /\ q[i] = t
    BY <1>1, <2>1, Zenon DEF list_in_list
  <2>3. Removed(q, i, z)
    BY <1>1, <2>1, <2>2, RemovedAt, Zenon
  <2> QED BY <2>2, <2>3, OrderedRemove, Zenon
<1>2. CASE ~list_in_list(q, t)
  <2>1. z = q /\ t \notin Elems(q)
    BY <1>2, Zenon DEF list_in_list, Elems
  <2> QED BY <2>1, Zenon
<1> QED BY <1>1, <1>2, Zenon

-----------------------------------------------------------------------------
\* The invariant.

Queue(c) == Elems(timer_queue[c])
Remaining == [t \in TimerT |-> Diff(scheduled_time[t], now)]   \* negative when the timer is late
Lag(c) == Diff(now, pc[c].now)                                 \* since timer_tick() was called on c

\* d ticks ahead, and after MaxLate or twice as many more, times can still be compared.
Short(d) == d + MaxLate < Half /\ d + 2 * MaxLate <= Half

\* The ticks that have to pass before the callback may be called pass before t is due.
NotEarly(t) == early[t] = 0 \/ early[t] <= Remaining[t]

Types ==
  /\ TypeOK
  /\ timer_queue \in [CPU -> Seq(TimerT)]
  /\ pc \in [CPU -> [at : {"idle", "dequeued", "called"}, timer : TimerT \cup {NULL},
                     now : Time, periodic : BOOLEAN]]
  /\ \A c \in CPU : pc[c].at = "idle" <=> pc[c].timer = NULL

\* Each queue is in order.
InOrder == \A c \in CPU : Ordered(timer_queue[c], Remaining)

\* A timer is in one queue at most, or handled by one processor; it goes back into no other queue
\* than that processor's meanwhile.
At(c, t) == pc[c].timer = t \/ t \in Queue(c)
InOnePlace == \A c, d \in CPU : \A t \in TimerT : At(c, t) /\ At(d, t) => c = d

\* A timer that is in a queue.
InTime(t) == callback[t] /\ Short(Remaining[t]) /\ NotEarly(t)
Waiting == \A c \in CPU : \A t \in Queue(c) : InTime(t)

\* A timer that is being set: the time stamp is MaxLate old at most.
Stamped(t) ==
  /\ callback[t] /\ NotEarly(t)
  /\ owner[t] >= 0 /\ Short(owner[t])
  /\ owner[t] - MaxLate <= Remaining[t] /\ Remaining[t] <= owner[t]
BeingSet ==
  \A t \in TimerT : owner[t] # Off =>
    Stamped(t) /\ \A c \in CPU : ~At(c, t)

PeriodIsShort(t) ==
  /\ periodic_time[t] = 0 \/ Short(periodic_time[t])
  /\ ~callback[t] => periodic_time[t] = 0
PeriodsAreShort == \A t \in TimerT : PeriodIsShort(t)

\* The hardware timer of a processor is set for MaxLate after its first timer at the latest.
ArmedFor(c) == \A t \in Queue(c) : hw[c] >= 0 /\ hw[c] - MaxLate <= Remaining[t]
Armed == \A c \in CPU : pc[c].at = "idle" => ArmedFor(c)

\* While timer_tick() runs, no timer of the queue was due more than MaxLate before it was called.
TickingOn(c) ==
  /\ 0 <= Lag(c) /\ Lag(c) <= MaxLate
  /\ \A t \in Queue(c) : -MaxLate <= Remaining[t] + Lag(c)
Ticking == \A c \in CPU : pc[c].at # "idle" => TickingOn(c)

\* The timer that timer_tick() handles is out of the queue, and was due, until its callback sets or
\* cancels it.
HandlingOf(c, t) ==
  /\ pc[c].at = "dequeued" => callback[t] /\ t \notin Queue(c)
  /\ callback[t] /\ t \notin Queue(c) =>
       /\ early[t] = 0
       /\ -MaxLate <= Remaining[t] + Lag(c) /\ Remaining[t] + Lag(c) <= 0
Handling == \A c \in CPU : \A t \in TimerT : pc[c].timer = t => HandlingOf(c, t)

IInv ==
  /\ Types /\ InOrder /\ InOnePlace /\ Waiting
  /\ BeingSet /\ PeriodsAreShort /\ Armed /\ Ticking /\ Handling

-----------------------------------------------------------------------------
\* What follows from the invariant.

\* The bounds, as numbers.
LEMMA Bounds ==
  ASSUME Given
  PROVE  /\ Wrap \in Nat /\ Half \in Nat /\ Wrap = 2 * Half /\ MaxLate \in Nat /\ 2 * MaxLate < Half
         /\ 0 \in Time /\ 1 \in Time /\ TimerAssumption
<1>1. TimerAssumption
  BY Zenon DEF Given, Assumed
<1>2. 2 * MaxLate < Half
  BY Zenon DEF Given, Assumed, DelaysAreShort, Half
<1> QED BY <1>1, <1>2, Halves DEF Time

\* What the two entry points pass to timer_set().
LEMMA SettingsAreShort ==
  ASSUME Given, NEW s \in Settings
  PROVE  /\ s[1] \in Time /\ s[1] >= 1 /\ Short(s[1])
         /\ s[2] \in Time /\ s[2] \in Periods \cup {0, 1} /\ (s[2] = 0 \/ Short(s[2]))
<1>1. Short(s[1])
  BY Zenon DEF Given, Assumed, DelaysAreShort, Short, Half
<1>2. Delays \subseteq Time /\ Periods \subseteq Time
  BY Bounds, Zenon DEF TimerAssumption, Time
<1>3. CASE \E d \in Delays : s = timer_set_oneshot(d)
  <2>1. PICK d \in Delays : s = <<IF d = 0 THEN 1 ELSE d, 0>>
    BY <1>3, Zenon DEF timer_set_oneshot
  <2>2. s[1] = (IF d = 0 THEN 1 ELSE d) /\ s[2] = 0
    BY <2>1
  <2>3. d \in Time /\ d \in Nat
    BY <1>2 DEF Time
  <2>4. s[1] \in Time /\ s[1] >= 1
    BY <2>2, <2>3, Bounds
  <2> QED BY <1>1, <2>2, <2>4, Bounds
<1>4. CASE \E p \in Periods : s = timer_set_periodic(p)
  <2>1. PICK p \in Periods : s = <<IF p = 0 THEN 1 ELSE p, IF p = 0 THEN 1 ELSE p>>
    BY <1>4, Zenon DEF timer_set_periodic
  <2>2. s[1] = (IF p = 0 THEN 1 ELSE p) /\ s[2] = s[1]
    BY <2>1
  <2>3. p \in Time /\ p \in Nat
    BY <1>2 DEF Time
  <2>4. s[1] \in Time /\ s[1] >= 1
    BY <2>2, <2>3, Bounds
  <2>5. s[2] \in Periods \cup {0, 1}
    BY <2>2
  <2> QED BY <1>1, <2>2, <2>4, <2>5, Zenon
<1> QED BY <1>3, <1>4, Zenon DEF Settings

PcType == [at : {"idle", "dequeued", "called"}, timer : TimerT \cup {NULL}, now : Time,
           periodic : BOOLEAN]

\* The types, with times instead of their range.
LEMMA Typed ==
  ASSUME Given, Types
  PROVE  /\ now \in Time /\ timer_queue \in [CPU -> Seq(TimerT)]
         /\ scheduled_time \in [TimerT -> Time] /\ periodic_time \in [TimerT -> Time]
         /\ callback \in [TimerT -> BOOLEAN] /\ hw \in [CPU -> Off..(Wrap - 1)]
         /\ owner \in [TimerT -> Off..(Wrap - 1)] /\ early \in [TimerT -> Time]
         /\ pc \in [CPU -> PcType] /\ \A c \in CPU : pc[c].at = "idle" <=> pc[c].timer = NULL
         /\ Remaining \in [TimerT -> Int]
<1>1. /\ now \in Time /\ timer_queue \in [CPU -> Seq(TimerT)]
      /\ scheduled_time \in [TimerT -> Time]
      /\ callback \in [TimerT -> BOOLEAN] /\ hw \in [CPU -> Off..(Wrap - 1)]
      /\ owner \in [TimerT -> Off..(Wrap - 1)] /\ early \in [TimerT -> Time]
      /\ pc \in [CPU -> PcType] /\ \A c \in CPU : pc[c].at = "idle" <=> pc[c].timer = NULL
      /\ periodic_time \in [TimerT -> Periods \cup {0, 1}]
  BY Zenon DEF Types, TypeOK, Time, PcType
<1>2. Periods \cup {0, 1} \subseteq Time
  BY Bounds, Zenon DEF TimerAssumption, Time
<1>3. periodic_time \in [TimerT -> Time]
  BY <1>1, <1>2
<1>4. ASSUME NEW t \in TimerT PROVE Diff(scheduled_time[t], now) \in Int
  <2>1. scheduled_time[t] \in Time
    BY <1>1
  <2> QED BY <1>1, <2>1, Bounds, Distance, Zenon
<1>5. Remaining \in [TimerT -> Int]
  BY <1>4, Zenon DEF Remaining
<1> QED BY <1>1, <1>3, <1>5, Zenon

\* The timers of an idle processor were due MaxLate ago at most, those of any twice that.
LEMMA NotTooLate ==
  ASSUME Given, IInv, NEW c \in CPU, NEW t \in Queue(c)
  PROVE  /\ t \in TimerT /\ Remaining[t] \in Int /\ Short(Remaining[t])
         /\ -2 * MaxLate <= Remaining[t]
         /\ pc[c].at = "idle" => -MaxLate <= Remaining[t]
<1>1. timer_queue[c] \in Seq(TimerT) /\ Remaining \in [TimerT -> Int] /\ hw \in [CPU -> Off..(Wrap - 1)]
  BY Typed, Zenon DEF IInv
<1>2. t \in TimerT /\ Remaining[t] \in Int
  BY <1>1 DEF Queue, Elems
<1>3. Short(Remaining[t])
  BY Zenon DEF IInv, Waiting, InTime
<1>4. CASE pc[c].at = "idle"
  <2>1. hw[c] >= 0 /\ hw[c] - MaxLate <= Remaining[t]
    BY <1>4, Zenon DEF IInv, Armed, ArmedFor
  <2>2. hw[c] \in Int
    BY <1>1 DEF Off
  <2>3. -MaxLate <= Remaining[t] /\ -2 * MaxLate <= Remaining[t]
    BY <1>2, <2>1, <2>2, Bounds
  <2> QED BY <1>2, <1>3, <2>3, Zenon
<1>5. CASE pc[c].at # "idle"
  <2>1. 0 <= Lag(c) /\ Lag(c) <= MaxLate /\ -MaxLate <= Remaining[t] + Lag(c)
    BY <1>5, Zenon DEF IInv, Ticking, TickingOn
  <2>2. pc \in [CPU -> PcType] /\ now \in Time
    BY Typed, Zenon DEF IInv
  <2>3. pc[c].now \in Time
    BY <2>2 DEF PcType
  <2>4. Lag(c) \in Int
    BY <2>2, <2>3, Bounds, Distance, Zenon DEF Lag
  <2>5. -2 * MaxLate <= Remaining[t]
    BY <1>2, <2>1, <2>4, Bounds
  <2> QED BY <1>2, <1>3, <1>5, <2>5, Zenon
<1> QED BY <1>4, <1>5, Zenon

\* An order of distances is one of distances that agree on the queue.
LEMMA OrderedAgain ==
  ASSUME NEW q, NEW r, NEW r2, Ordered(q, r), \A u \in Elems(q) : r2[u] = r[u]
  PROVE  Ordered(q, r2)
BY Zenon DEF Ordered, Elems

\* A queue stays in order while all its timers get one tick closer.
LEMMA OrderedLater ==
  ASSUME NEW q \in Seq(TimerT), NEW r \in [TimerT -> Int], NEW r2, Ordered(q, r),
         \A u \in Elems(q) : r2[u] = r[u] - 1
  PROVE  Ordered(q, r2)
<1>1. Once(q)
  BY Zenon DEF Ordered
<1>2. ASSUME NEW i \in 1..Len(q), NEW j \in 1..Len(q), i < j PROVE r2[q[i]] <= r2[q[j]]
  <2>1. r[q[i]] <= r[q[j]] /\ r2[q[i]] = r[q[i]] - 1 /\ r2[q[j]] = r[q[j]] - 1
    BY <1>2, Zenon DEF Ordered, Elems
  <2>2. r[q[i]] \in Int /\ r[q[j]] \in Int
    OBVIOUS
  <2> QED BY <2>1, <2>2
<1> QED BY <1>1, <1>2, Zenon DEF Ordered

-----------------------------------------------------------------------------
\* What a step leaves alone.

\* A step at which no time passes leaves the timer as it is.
Untouched(t) ==
  /\ now' = now
  /\ scheduled_time'[t] = scheduled_time[t] /\ periodic_time'[t] = periodic_time[t]
  /\ callback'[t] = callback[t] /\ early'[t] = early[t] /\ owner'[t] = owner[t]

\* What the invariant says of such a timer is what it said before.
LEMMA UntouchedTimer ==
  ASSUME NEW t \in TimerT, Untouched(t)
  PROVE  /\ Remaining'[t] = Remaining[t]
         /\ InTime(t) => InTime(t)'
         /\ Stamped(t) => Stamped(t)'
         /\ PeriodIsShort(t) => PeriodIsShort(t)'
<1>1. Remaining'[t] = Remaining[t]
  BY Zenon DEF Untouched, Remaining
<1>2. NotEarly(t) => NotEarly(t)'
  BY <1>1, Zenon DEF Untouched, NotEarly
<1>3. InTime(t) => InTime(t)'
  BY <1>1, <1>2, Zenon DEF Untouched, InTime
<1>4. Stamped(t) => Stamped(t)'
  BY <1>1, <1>2, Zenon DEF Untouched, Stamped
<1>5. PeriodIsShort(t) => PeriodIsShort(t)'
  BY Zenon DEF Untouched, PeriodIsShort
<1> QED BY <1>1, <1>3, <1>4, <1>5, Zenon

\* A processor that goes on as it was, with timers that are left alone: it may have lost some.
LEMMA UntouchedProcessor ==
  ASSUME NEW c \in CPU, pc'[c] = pc[c], hw'[c] = hw[c], now' = now,
         \A t \in Queue(c)' : t \in TimerT /\ t \in Queue(c) /\ Untouched(t)
  PROVE  /\ ArmedFor(c) => ArmedFor(c)'
         /\ TickingOn(c) => TickingOn(c)'
<1>1. \A t \in Queue(c)' : t \in Queue(c) /\ Remaining'[t] = Remaining[t]
  BY UntouchedTimer, Zenon
<1>2. Lag(c)' = Lag(c)
  BY Zenon DEF Lag
<1>3. ArmedFor(c) => ArmedFor(c)'
  BY <1>1, Zenon DEF ArmedFor
<1>4. TickingOn(c) => TickingOn(c)'
  BY <1>1, <1>2, Zenon DEF TickingOn
<1> QED BY <1>3, <1>4, Zenon

\* What timer_tick() handles is as it was when the step leaves it alone.
LEMMA UntouchedHandling ==
  ASSUME NEW c \in CPU, pc'[c] = pc[c], NEW t \in TimerT, Untouched(t),
         t \in Queue(c)' <=> t \in Queue(c), HandlingOf(c, t)
  PROVE  HandlingOf(c, t)'
<1>1. Remaining'[t] = Remaining[t]
  BY UntouchedTimer, Zenon
<1>2. Lag(c)' = Lag(c) /\ callback'[t] = callback[t] /\ early'[t] = early[t]
  BY Zenon DEF Lag, Untouched
<1> QED BY <1>1, <1>2, Zenon DEF HandlingOf

\* A queue of timers that are left alone stays in order.
LEMMA UntouchedOrder ==
  ASSUME NEW q, Ordered(q, Remaining), \A t \in Elems(q) : t \in TimerT /\ Untouched(t)
  PROVE  Ordered(q, Remaining')
<1>1. \A t \in Elems(q) : Remaining'[t] = Remaining[t]
  BY UntouchedTimer, Zenon
<1> QED BY <1>1, OrderedAgain, Zenon

\* Timers stay in one place when none gets to another processor.
LEMMA StillInOnePlace ==
  ASSUME InOnePlace, \A d \in CPU, u \in TimerT : At(d, u)' => At(d, u)
  PROVE  InOnePlace'
BY Zenon DEF InOnePlace

\* They do when one that was nowhere else gets to a processor.
LEMMA ArrivesInOnePlace ==
  ASSUME InOnePlace, NEW c \in CPU, NEW t, t \in TimerT => \A d \in CPU : d # c => ~At(d, t),
         \A d \in CPU, u \in TimerT : At(d, u)' => At(d, u) \/ (d = c /\ u = t)
  PROVE  InOnePlace'
<1>1. ASSUME NEW d \in CPU, NEW e \in CPU, NEW u \in TimerT, At(d, u)', At(e, u)' PROVE d = e
  <2>1. CASE u = t
    BY <1>1, <2>1, Zenon
  <2>2. CASE u # t
    BY <1>1, <2>2, Zenon DEF InOnePlace
  <2> QED BY <2>1, <2>2, Zenon
<1> QED BY <1>1, Zenon DEF InOnePlace

\* A step of processor c that touches at most the timer t, which no other processor has, after which
\* the invariant holds of t and of what c has then.
StepOn(c, t) ==
  /\ now' = now
  /\ \A u \in TimerT : u # t => Untouched(u)
  /\ \A d \in CPU : d # c => /\ pc'[d] = pc[d] /\ hw'[d] = hw[d]
                             /\ timer_queue'[d] = timer_queue[d]
                             /\ t \in TimerT => ~At(d, t)
  /\ t \in TimerT => owner'[t] = Off /\ PeriodIsShort(t)'
  /\ \A u \in TimerT : At(c, u)' => At(c, u) \/ u = t
  /\ Types'
  /\ Ordered(timer_queue'[c], Remaining')
  /\ \A u \in Queue(c)' : InTime(u)'
  /\ pc'[c].at = "idle" => ArmedFor(c)'
  /\ pc'[c].at # "idle" => TickingOn(c)'
  /\ \A u \in TimerT : pc'[c].timer = u => HandlingOf(c, u)'

\* Such a step keeps the invariant.
LEMMA StepOfOne ==
  ASSUME Given, IInv, NEW c \in CPU, NEW t, StepOn(c, t)
  PROVE  IInv'
<1>0. /\ now' = now
      /\ \A u \in TimerT : u # t => Untouched(u)
      /\ \A d \in CPU : d # c => /\ pc'[d] = pc[d] /\ hw'[d] = hw[d]
                                 /\ timer_queue'[d] = timer_queue[d]
                                 /\ t \in TimerT => ~At(d, t)
      /\ t \in TimerT => owner'[t] = Off /\ PeriodIsShort(t)'
      /\ \A u \in TimerT : At(c, u)' => At(c, u) \/ u = t
      /\ Types'
      /\ Ordered(timer_queue'[c], Remaining')
      /\ \A u \in Queue(c)' : InTime(u)'
      /\ pc'[c].at = "idle" => ArmedFor(c)'
      /\ pc'[c].at # "idle" => TickingOn(c)'
      /\ \A u \in TimerT : pc'[c].timer = u => HandlingOf(c, u)'
  BY Zenon DEF StepOn
<1> USE <1>0
<1>1. ASSUME NEW d \in CPU, d # c
      PROVE  /\ Queue(d)' = Queue(d)
             /\ \A u \in Queue(d) : u \in TimerT /\ Untouched(u)
             /\ \A u \in TimerT : At(d, u)' <=> At(d, u)
  <2>1. Queue(d)' = Queue(d)
    BY <1>1, Zenon DEF Queue
  <2>2. timer_queue \in [CPU -> Seq(TimerT)]
    BY Typed, Zenon DEF IInv
  <2>3. Queue(d) \subseteq TimerT
    BY <2>2 DEF Queue, Elems
  <2>4. \A u \in TimerT : At(d, u)' <=> At(d, u)
    BY <1>1, <2>1, Zenon DEF At
  <2>5. ASSUME NEW u \in Queue(d) PROVE u \in TimerT /\ Untouched(u)
    BY <1>1, <2>3, Zenon DEF At
  <2> QED BY <2>1, <2>4, <2>5, Zenon
<1>2. InOrder'
  <2>1. ASSUME NEW d \in CPU, d # c PROVE Ordered(timer_queue'[d], Remaining')
    <3>1. Ordered(timer_queue[d], Remaining)
      BY Zenon DEF IInv, InOrder
    <3>2. Ordered(timer_queue[d], Remaining')
      BY <1>1, <2>1, <3>1, UntouchedOrder, Zenon DEF Queue
    <3> QED BY <2>1, <3>2, Zenon
  <2> QED BY <2>1, Zenon DEF InOrder
<1>3. InOnePlace'
  <2>1. \A d \in CPU, u \in TimerT : At(d, u)' => At(d, u) \/ (d = c /\ u = t)
    BY <1>1, Zenon
  <2> QED BY <2>1, ArrivesInOnePlace, Zenon DEF IInv
<1>4. Waiting'
  <2>1. ASSUME NEW d \in CPU, d # c, NEW u \in Queue(d) PROVE InTime(u)'
    <3>1. InTime(u) /\ u \in TimerT /\ Untouched(u)
      BY <1>1, <2>1, Zenon DEF IInv, Waiting
    <3> QED BY <3>1, UntouchedTimer, Zenon
  <2> QED BY <1>1, <2>1, Zenon DEF Waiting
<1>5. BeingSet'
  <2>1. ASSUME NEW u \in TimerT, owner'[u] # Off
        PROVE  Stamped(u)' /\ \A d \in CPU : ~At(d, u)'
    <3>1. u # t
      BY <2>1, Zenon
    <3>2. Untouched(u) /\ owner[u] # Off
      BY <2>1, <3>1, Zenon DEF Untouched
    <3>3. Stamped(u) /\ \A d \in CPU : ~At(d, u)
      BY <3>2, Zenon DEF IInv, BeingSet
    <3>4. Stamped(u)'
      BY <3>2, <3>3, UntouchedTimer, Zenon
    <3>5. ASSUME NEW d \in CPU PROVE ~At(d, u)'
      BY <1>1, <3>1, <3>3, Zenon
    <3> QED BY <3>4, <3>5, Zenon
  <2> QED BY <2>1, Zenon DEF BeingSet
<1>6. PeriodsAreShort'
  BY UntouchedTimer, Zenon DEF IInv, PeriodsAreShort
<1>7. ASSUME NEW d \in CPU, d # c
      PROVE  (ArmedFor(d) => ArmedFor(d)') /\ (TickingOn(d) => TickingOn(d)')
  <2>1. \A u \in Queue(d)' : u \in TimerT /\ u \in Queue(d) /\ Untouched(u)
    BY <1>1, <1>7, Zenon
  <2> QED BY <1>7, <2>1, UntouchedProcessor, Zenon
<1>8. Armed'
  BY <1>7, Zenon DEF IInv, Armed
<1>9. Ticking'
  BY <1>7, Zenon DEF IInv, Ticking
<1>10. Handling'
  <2>1. ASSUME NEW d \in CPU, d # c, NEW u \in TimerT, pc'[d].timer = u PROVE HandlingOf(d, u)'
    <3>1. pc'[d] = pc[d] /\ HandlingOf(d, u)
      BY <2>1, Zenon DEF IInv, Handling
    <3>2. Untouched(u)
      BY <2>1, <3>1, Zenon DEF At
    <3> QED BY <1>1, <2>1, <3>1, <3>2, UntouchedHandling, Zenon
  <2> QED BY <2>1, Zenon DEF Handling
<1> QED BY <1>2, <1>3, <1>4, <1>5, <1>6, <1>8, <1>9, <1>10, Zenon DEF IInv

-----------------------------------------------------------------------------
\* timer_set() by the owner.

\* A time stamp that was just taken, and a delay.
LEMMA JustSet ==
  ASSUME Given, NEW n \in Time, NEW delay \in Time, Short(delay)
  PROVE  Plus(n, delay) \in Time /\ Diff(Plus(n, delay), n) = delay
<1>1. Diff(n, n) = 0
  BY Bounds, Same
<1>2. delay \in Int /\ delay = Diff(n, n) + delay /\ -Half <= delay /\ delay < Half
  BY <1>1, Bounds DEF Time, Short
<1>3. Diff(Plus(n, delay), n) = delay
  BY <1>2, Bounds, Postponed
<1> QED BY <1>3, Bounds, Later, Zenon

\* A timer is in a queue, or handled, exactly when some processor has it.
LEMMA QueuedIs ==
  ASSUME NEW t, NEW c \in CPU, timer_queue \in [CPU -> Seq(TimerT)]
  PROVE  /\ ~Queued(t) => t \notin Queue(c)
         /\ ~Handled(t) => pc[c].timer # t
BY Zenon DEF Queued, Handled, Queue, Elems, list_in_list

\* As far as the time stamp, timer_set() keeps the invariant.
LEMMA KeptBySet ==
  ASSUME Given, IInv, NEW c \in CPU, NEW t \in TimerT, NEW s \in Settings,
         timer_set(c, t, s[1], s[2])
  PROVE  IInv'
<1>1. PICK delay \in Time, period \in Time : /\ delay = s[1] /\ period = s[2] /\ Short(delay)
                      /\ period \in Periods \cup {0, 1} /\ (period = 0 \/ Short(period))
  BY SettingsAreShort, Zenon
<1>2. /\ scheduled_time' = [scheduled_time EXCEPT ![t] = Plus(now, delay)]
      /\ periodic_time' = [periodic_time EXCEPT ![t] = period]
      /\ callback' = [callback EXCEPT ![t] = TRUE]
      /\ early' = [early EXCEPT ![t] = delay]
      /\ owner' = [owner EXCEPT ![t] = delay]
      /\ now' = now /\ timer_queue' = timer_queue /\ hw' = hw /\ pc' = pc
  BY <1>1, Zenon DEF timer_set, set_fields
<1>3. /\ now \in Time /\ timer_queue \in [CPU -> Seq(TimerT)]
      /\ scheduled_time \in [TimerT -> Time] /\ periodic_time \in [TimerT -> Time]
      /\ callback \in [TimerT -> BOOLEAN] /\ hw \in [CPU -> Off..(Wrap - 1)]
      /\ owner \in [TimerT -> Off..(Wrap - 1)] /\ early \in [TimerT -> Time]
      /\ pc \in [CPU -> PcType] /\ Remaining \in [TimerT -> Int]
  BY Typed, Zenon DEF IInv
<1>4. \A d \in CPU : ~At(d, t)
  <2>1. ~Queued(t) /\ ~Handled(t)
    BY Zenon DEF timer_set, Given, Assumed
  <2> QED BY <1>3, <2>1, QueuedIs, Zenon DEF At
<1>5. Plus(now, delay) \in Time /\ Diff(Plus(now, delay), now) = delay
  BY <1>1, <1>3, JustSet
<1>6. Remaining'[t] = delay
  BY <1>2, <1>3, <1>5, Zenon DEF Remaining
<1>7. \A d \in CPU : Queue(d)' = Queue(d) /\ Queue(d) \subseteq TimerT \ {t}
  <2>1. ASSUME NEW d \in CPU PROVE Queue(d) \subseteq TimerT
    BY <1>3 DEF Queue, Elems
  <2> QED BY <1>2, <1>4, <2>1, Zenon DEF Queue, At
<1>8. \A u \in TimerT \ {t} : Untouched(u)
  BY <1>2, <1>3, Zenon DEF Untouched
<1>9. owner'[t] = delay /\ callback'[t] = TRUE /\ early'[t] = delay /\ periodic_time'[t] = period
  BY <1>2, <1>3
<1>10. Types'
  <2>1. TypeOK
    BY Zenon DEF IInv, Types
  <2>2. delay \in 0..(Wrap - 1) /\ delay \in Off..(Wrap - 1) /\ Plus(now, delay) \in 0..(Wrap - 1)
    BY <1>5, Bounds DEF Time, Off
  <2>3. TypeOK'
    BY <1>1, <1>2, <2>1, <2>2 DEF TypeOK
  <2> QED BY <1>2, <2>3, Zenon DEF IInv, Types
<1>11. InOrder'
  <2>1. ASSUME NEW d \in CPU PROVE Ordered(timer_queue[d], Remaining')
    <3>1. Ordered(timer_queue[d], Remaining)
      BY Zenon DEF IInv, InOrder
    <3>2. \A u \in Elems(timer_queue[d]) : u \in TimerT /\ Untouched(u)
      BY <1>7, <1>8, Zenon DEF Queue
    <3> QED BY <3>1, <3>2, UntouchedOrder
  <2> QED BY <1>2, <2>1, Zenon DEF InOrder
<1>12. \A d \in CPU, u \in TimerT : At(d, u)' <=> At(d, u)
  BY <1>2, <1>7, Zenon DEF At
<1>13. InOnePlace'
  BY <1>12, StillInOnePlace, Zenon DEF IInv
<1>14. Waiting'
  <2>1. ASSUME NEW d \in CPU, NEW u \in Queue(d) PROVE InTime(u)'
    <3>1. InTime(u) /\ u \in TimerT /\ Untouched(u)
      BY <1>7, <1>8, Zenon DEF IInv, Waiting
    <3> QED BY <3>1, UntouchedTimer, Zenon
  <2> QED BY <1>7, <2>1, Zenon DEF Waiting
<1>15. BeingSet'
  <2>1. ASSUME NEW u \in TimerT, owner'[u] # Off
        PROVE  Stamped(u)' /\ \A d \in CPU : ~At(d, u)'
    <3>1. CASE u # t
      <4>1. Untouched(u) /\ owner[u] # Off
        BY <1>8, <2>1, <3>1, Zenon DEF Untouched
      <4>2. Stamped(u) /\ \A d \in CPU : ~At(d, u)
        BY <4>1, Zenon DEF IInv, BeingSet
      <4> QED BY <1>12, <4>1, <4>2, UntouchedTimer, Zenon
    <3>2. CASE u = t
      <4>1. delay >= 0 /\ delay - MaxLate <= delay /\ delay <= delay
        BY Bounds DEF Time
      <4>2. Stamped(t)'
        BY <1>1, <1>6, <1>9, <4>1, Zenon DEF NotEarly, Stamped
      <4> QED BY <1>4, <1>12, <3>2, <4>2, Zenon
    <3> QED BY <3>1, <3>2, Zenon
  <2> QED BY <2>1, Zenon DEF BeingSet
<1>16. PeriodsAreShort'
  <2>1. PeriodIsShort(t)'
    BY <1>1, <1>9, Zenon DEF PeriodIsShort
  <2> QED BY <1>8, <2>1, UntouchedTimer, Zenon DEF IInv, PeriodsAreShort
<1>17. ASSUME NEW d \in CPU PROVE (ArmedFor(d) => ArmedFor(d)') /\ (TickingOn(d) => TickingOn(d)')
  <2>1. \A u \in Queue(d)' : u \in TimerT /\ u \in Queue(d) /\ Untouched(u)
    BY <1>7, <1>8, Zenon
  <2> QED BY <1>2, <2>1, UntouchedProcessor, Zenon
<1>18. Armed' /\ Ticking'
  BY <1>2, <1>17, Zenon DEF IInv, Armed, Ticking
<1>19. Handling'
  <2>1. ASSUME NEW d \in CPU, NEW u \in TimerT, pc'[d].timer = u PROVE HandlingOf(d, u)'
    <3>1. Untouched(u) /\ pc'[d] = pc[d] /\ HandlingOf(d, u)
      BY <1>2, <1>4, <1>8, <2>1, Zenon DEF IInv, Handling, At
    <3> QED BY <1>7, <3>1, UntouchedHandling, Zenon
  <2> QED BY <2>1, Zenon DEF Handling
<1> QED BY <1>10, <1>11, <1>12, <1>13, <1>14, <1>15, <1>16, <1>18, <1>19, Zenon DEF IInv
\* Less than a short distance is short.
LEMMA Shorter ==
  ASSUME Given, NEW a \in Int, NEW b \in Int, a <= b, Short(b)
  PROVE  Short(a)
BY Bounds DEF Short

\* The critical section of timer_set() keeps the invariant.
LEMMA KeptBySetInsert ==
  ASSUME Given, IInv, NEW c \in CPU, NEW t \in TimerT, timer_set_insert(c, t)
  PROVE  IInv'
<1> DEFINE z == insert_timer_in_queue(timer_queue[c], t, scheduled_time)
<1>0. z = insert_timer_in_queue(timer_queue[c], t, scheduled_time)
  OBVIOUS
<1>1. /\ owner[t] # Off /\ pc[c].at = "idle"
      /\ timer_queue' = [timer_queue EXCEPT ![c] = z]
      /\ hw' = IF Head(z) = t THEN [hw EXCEPT ![c] = owner[t]] ELSE hw
      /\ owner' = [owner EXCEPT ![t] = Off]
      /\ now' = now /\ pc' = pc /\ scheduled_time' = scheduled_time
      /\ periodic_time' = periodic_time /\ callback' = callback /\ early' = early
  BY Zenon DEF timer_set_insert, set_insert, ThreadRuns, fields
<1> HIDE DEF z
<1>2. /\ now \in Time /\ timer_queue \in [CPU -> Seq(TimerT)]
      /\ scheduled_time \in [TimerT -> Time]
      /\ hw \in [CPU -> Off..(Wrap - 1)] /\ owner \in [TimerT -> Off..(Wrap - 1)]
      /\ Remaining \in [TimerT -> Int] /\ (pc[c].at = "idle" <=> pc[c].timer = NULL)
  BY Typed, Zenon DEF IInv
<1>3. Stamped(t) /\ \A d \in CPU : ~At(d, t)
  BY <1>1, Zenon DEF IInv, BeingSet
<1>4. PICK o \in Int, x \in Int : o = owner[t] /\ x = Remaining[t]
  BY <1>2 DEF Off
<1>5. o >= 0 /\ o - MaxLate <= x /\ x <= o /\ Short(o)
  BY <1>3, <1>4, Zenon DEF Stamped
<1>6. ASSUME NEW u \in Queue(c)
      PROVE  /\ u \in TimerT /\ Remaining[u] \in Int /\ -MaxLate <= Remaining[u]
             /\ -Half <= Remaining[u] - x /\ Remaining[u] - x < Half
  <2>1. PICK y \in Int : y = Remaining[u] /\ Short(y) /\ -MaxLate <= y /\ u \in TimerT
    BY <1>1, NotTooLate, Zenon
  <2>2. -Half <= y - x /\ y - x < Half
    BY <1>5, <2>1, Bounds DEF Short
  <2> QED BY <2>1, <2>2, Zenon
<1>7. Ordered(timer_queue[c], Remaining) /\ t \notin Elems(timer_queue[c])
  BY <1>3, Zenon DEF IInv, InOrder, At, Queue
<1>8. /\ z \in Seq(TimerT) /\ z # <<>> /\ Ordered(z, Remaining) /\ Elems(z) = Queue(c) \cup {t}
  <2>1. Remaining = Ahead(scheduled_time, now)
    BY Zenon DEF Remaining, Ahead
  <2>2. timer_queue[c] \in Seq(TimerT)
    BY <1>2
  <2>3. \A u \in Elems(timer_queue[c]) : -Half <= Remaining[u] - Remaining[t]
                                         /\ Remaining[u] - Remaining[t] < Half
    BY <1>4, <1>6, Zenon DEF Queue
  <2>4. TimerAssumption /\ now \in Time /\ scheduled_time \in [TimerT -> Time]
        /\ Remaining \in [TimerT -> Int]
    BY <1>2, Bounds, Zenon
  <2>5. /\ z \in Seq(TimerT) /\ z # <<>> /\ Ordered(z, Remaining)
        /\ Elems(z) = Elems(timer_queue[c]) \cup {t}
    <3>1. Comparable(timer_queue[c], t, scheduled_time, now, Remaining)
      BY <1>7, <2>1, <2>3, Zenon DEF Comparable
    <3> QED BY <1>0, <2>2, <2>4, <3>1, QueueInsert, Zenon
  <2> QED BY <2>5, Zenon DEF Queue
<1>9. /\ timer_queue' \in [CPU -> Seq(TimerT)] /\ timer_queue'[c] = z
      /\ \A d \in CPU : d # c => timer_queue'[d] = timer_queue[d] /\ hw'[d] = hw[d]
      /\ hw' \in [CPU -> Off..(Wrap - 1)] /\ owner' \in [TimerT -> Off..(Wrap - 1)]
      /\ owner'[t] = Off /\ \A u \in TimerT : u # t => owner'[u] = owner[u]
  <2>1. Off \in Off..(Wrap - 1)
    BY Bounds DEF Off
  <2>2. /\ hw' \in [CPU -> Off..(Wrap - 1)] /\ owner' \in [TimerT -> Off..(Wrap - 1)]
        /\ \A d \in CPU : d # c => hw'[d] = hw[d]
    BY <1>1, <1>2, <2>1
  <2>3. /\ timer_queue' \in [CPU -> Seq(TimerT)] /\ timer_queue'[c] = z
        /\ \A d \in CPU : d # c => timer_queue'[d] = timer_queue[d]
    BY <1>1, <1>2, <1>8, Zenon
  <2>4. owner'[t] = Off /\ \A u \in TimerT : u # t => owner'[u] = owner[u]
    BY <1>1, <1>2, Zenon
  <2> QED BY <2>2, <2>3, <2>4, Zenon
<1>10. Queue(c)' = Queue(c) \cup {t} /\ Remaining' = Remaining
  BY <1>1, <1>8, <1>9, Zenon DEF Queue, Remaining
<1>11. \A u \in TimerT : u # t => Untouched(u)
  BY <1>1, <1>9, Zenon DEF Untouched
<1>12. Types'
  <2>1. TypeOK'
    BY <1>1, <1>9, Zenon DEF IInv, Types, TypeOK
  <2> QED BY <1>1, <1>9, <2>1, Zenon DEF IInv, Types
<1>13. PeriodIsShort(t)'
  BY <1>1, Zenon DEF IInv, PeriodsAreShort, PeriodIsShort
<1>14. ASSUME NEW u \in Queue(c)' PROVE InTime(u)'
  <2>1. CASE u = t
    <3>1. Short(x)
      BY <1>5, Shorter
    <3>2. callback[t] /\ NotEarly(t)
      BY <1>3, Zenon DEF Stamped
    <3> QED BY <1>1, <1>4, <1>10, <2>1, <3>1, <3>2, Zenon DEF InTime, NotEarly
  <2>2. CASE u # t
    <3>1. u \in Queue(c) /\ u \in TimerT
      BY <1>6, <1>10, <2>2, Zenon
    <3>2. InTime(u) /\ Untouched(u)
      BY <1>11, <2>2, <3>1, Zenon DEF IInv, Waiting
    <3> QED BY <3>1, <3>2, UntouchedTimer, Zenon
  <2> QED BY <2>1, <2>2, Zenon
<1>15. ArmedFor(c)'
  <2>1. /\ Head(z) \in Elems(z) /\ \A u \in Elems(z) : Remaining[Head(z)] <= Remaining[u]
    BY <1>2, <1>8, OrderedHead, Zenon
  <2>2. \A u \in Elems(z) : Remaining[u] \in Int
    BY <1>4, <1>6, <1>8, Zenon
  <2>3. PICK h \in Int, y \in Int : h = hw'[c] /\ y = Remaining[Head(z)]
    BY <1>9, <2>1, <2>2 DEF Off
  <2>4. h >= 0 /\ h - MaxLate <= y
    <3>1. CASE Head(z) = t
      <4>1. h = o /\ y = x
        BY <1>1, <1>2, <1>4, <2>3, <3>1
      <4> QED BY <1>5, <4>1
    <3>2. CASE Head(z) # t
      <4>1. Head(z) \in Queue(c) /\ hw' = hw
        BY <1>1, <1>8, <2>1, <3>2, Zenon
      <4>2. ArmedFor(c)
        BY <1>1, Zenon DEF IInv, Armed
      <4> QED BY <2>3, <4>1, <4>2, Zenon DEF ArmedFor
    <3> QED BY <3>1, <3>2, Zenon
  <2>5. ASSUME NEW u \in Queue(c)' PROVE hw'[c] >= 0 /\ hw'[c] - MaxLate <= Remaining'[u]
    <3>1. u \in Elems(z)
      BY <1>8, <1>10, Zenon
    <3>2. PICK w \in Int : w = Remaining[u] /\ y <= w
      BY <2>1, <2>2, <2>3, <3>1, Zenon
    <3>3. h - MaxLate <= w
      BY <2>4, <3>2, Bounds
    <3> QED BY <1>10, <2>3, <2>4, <3>2, <3>3, Zenon
  <2> QED BY <2>5, Zenon DEF ArmedFor
<1>16. \A u \in TimerT : At(c, u)' => At(c, u) \/ u = t
  BY <1>1, <1>10, Zenon DEF At
<1>17. pc'[c].at = "idle" /\ \A u \in TimerT : pc'[c].timer # u
  BY <1>1, <1>2, Bounds, Zenon DEF TimerAssumption
<1>18. \A d \in CPU : d # c => /\ pc'[d] = pc[d] /\ hw'[d] = hw[d]
                               /\ timer_queue'[d] = timer_queue[d]
                               /\ t \in TimerT => ~At(d, t)
  BY <1>1, <1>3, <1>9, Zenon
<1>19. Ordered(timer_queue'[c], Remaining')
  BY <1>8, <1>9, <1>10, Zenon
<1>20. /\ now' = now /\ (t \in TimerT => owner'[t] = Off /\ PeriodIsShort(t)')
       /\ \A u \in Queue(c)' : InTime(u)'
       /\ pc'[c].at = "idle" => ArmedFor(c)'
       /\ pc'[c].at # "idle" => TickingOn(c)'
       /\ \A u \in TimerT : pc'[c].timer = u => HandlingOf(c, u)'
  BY <1>1, <1>9, <1>13, <1>14, <1>15, <1>17, Zenon
<1>21. StepOn(c, t)
  BY <1>11, <1>12, <1>16, <1>18, <1>19, <1>20, Zenon DEF StepOn
<1> QED BY <1>21, StepOfOne, Zenon

-----------------------------------------------------------------------------
\* timer_set() by the callback keeps the invariant: one call under the lock, in timer_tick().
LEMMA KeptByCallbackSet ==
  ASSUME Given, IInv, NEW c \in CPU, NEW t \in TimerT, NEW s \in Settings,
         callback_set(c, t, s[1], s[2])
  PROVE  IInv'
<1> DEFINE z == insert_timer_in_queue(timer_queue[c], t, scheduled_time')
<1>1. PICK delay \in Time, period \in Time : /\ delay = s[1] /\ period = s[2] /\ Short(delay)
                      /\ period \in Periods \cup {0, 1} /\ (period = 0 \/ Short(period))
  BY SettingsAreShort, Zenon
<1>2. z = insert_timer_in_queue(timer_queue[c], t, scheduled_time')
  OBVIOUS
<1>3. /\ pc[c].at = "called" /\ pc[c].timer = t /\ owner[t] = Off /\ ~Queued(t)
      /\ scheduled_time' = [scheduled_time EXCEPT ![t] = Plus(now, delay)]
      /\ periodic_time' = [periodic_time EXCEPT ![t] = period]
      /\ callback' = [callback EXCEPT ![t] = TRUE]
      /\ early' = [early EXCEPT ![t] = delay]
      /\ timer_queue' = [timer_queue EXCEPT ![c] = z]
      /\ hw' = IF Head(z) = t THEN [hw EXCEPT ![c] = delay] ELSE hw
      /\ now' = now /\ owner' = owner /\ pc' = pc
  BY <1>1, Zenon DEF callback_set, set_fields, set_insert, CallbackRuns
<1> HIDE DEF z
<1>4. /\ now \in Time /\ timer_queue \in [CPU -> Seq(TimerT)]
      /\ scheduled_time \in [TimerT -> Time] /\ periodic_time \in [TimerT -> Time]
      /\ callback \in [TimerT -> BOOLEAN] /\ hw \in [CPU -> Off..(Wrap - 1)]
      /\ early \in [TimerT -> Time] /\ pc \in [CPU -> PcType] /\ Remaining \in [TimerT -> Int]
  BY Typed, Zenon DEF IInv
<1>5. /\ t \notin Queue(c) /\ \A d \in CPU : d # c => ~At(d, t)
  <2>1. t \notin Queue(c)
    BY <1>3, <1>4, QueuedIs, Zenon
  <2> QED BY <1>3, <2>1, Zenon DEF IInv, InOnePlace, At
<1>6. Plus(now, delay) \in Time /\ Diff(Plus(now, delay), now) = delay
  BY <1>1, <1>4, JustSet
<1>7. scheduled_time' \in [TimerT -> Time] /\ scheduled_time'[t] = Plus(now, delay)
  BY <1>3, <1>4, <1>6, Zenon
<1>8. \A u \in TimerT : u # t => Untouched(u)
  BY <1>3, <1>4, Zenon DEF Untouched
<1>9. Remaining'[t] = delay /\ Remaining' \in [TimerT -> Int]
  <2>1. Remaining'[t] = delay
    BY <1>3, <1>6, <1>7, Zenon DEF Remaining
  <2>2. ASSUME NEW u \in TimerT PROVE Diff(scheduled_time'[u], now') \in Int
    <3>1. scheduled_time'[u] \in Time /\ now' \in Time
      BY <1>3, <1>4, <1>7
    <3> QED BY <3>1, Bounds, Distance, Zenon
  <2> QED BY <2>1, <2>2, Zenon DEF Remaining
<1>10. Remaining' = Ahead(scheduled_time', now)
  <2>1. now' = now
    BY <1>3, Zenon
  <2> QED BY <2>1 DEF Remaining, Ahead
<1>11. PICK x \in Int : x = delay /\ x >= 0
  <2>1. delay \in Int /\ delay >= 0
    BY DEF Time
  <2> QED BY <2>1, Zenon
<1>12. ASSUME NEW u \in Queue(c)
       PROVE  /\ u \in TimerT /\ Remaining'[u] = Remaining[u] /\ Untouched(u)
              /\ -Half <= Remaining'[u] - Remaining'[t] /\ Remaining'[u] - Remaining'[t] < Half
  <2>1. PICK y \in Int : y = Remaining[u] /\ Short(y) /\ -2 * MaxLate <= y /\ u \in TimerT
    BY NotTooLate, Zenon
  <2>2. Untouched(u)
    BY <1>5, <1>8, <2>1, Zenon
  <2>3. Remaining'[u] = Remaining[u]
    BY <2>1, <2>2, UntouchedTimer, Zenon
  <2>4. -Half <= y - x /\ y - x < Half
    BY <1>1, <1>11, <2>1, Bounds DEF Short
  <2> QED BY <1>9, <1>11, <2>1, <2>2, <2>3, <2>4, Zenon
<1>13. /\ z \in Seq(TimerT) /\ z # <<>> /\ Ordered(z, Remaining') /\ Elems(z) = Queue(c) \cup {t}
  <2>1. timer_queue[c] \in Seq(TimerT) /\ TimerAssumption
    BY <1>4, Bounds
  <2>2. Ordered(timer_queue[c], Remaining') /\ t \notin Elems(timer_queue[c])
    <3>1. Ordered(timer_queue[c], Remaining)
      BY Zenon DEF IInv, InOrder
    <3>2. Ordered(timer_queue[c], Remaining')
      BY <1>12, <3>1, UntouchedOrder, Zenon DEF Queue
    <3> QED BY <1>5, <3>2, Zenon DEF Queue
  <2>3. \A u \in Elems(timer_queue[c]) : -Half <= Remaining'[u] - Remaining'[t]
                                         /\ Remaining'[u] - Remaining'[t] < Half
    BY <1>12, Zenon DEF Queue
  <2>4. PICK r \in [TimerT -> Int], sch \in [TimerT -> Time] :
             r = Remaining' /\ sch = scheduled_time'
    BY <1>7, <1>9, Zenon
  <2>5. Comparable(timer_queue[c], t, sch, now, r)
    BY <1>10, <2>2, <2>3, <2>4, Zenon DEF Comparable
  <2>6. /\ z \in Seq(TimerT) /\ z # <<>> /\ Ordered(z, r)
        /\ Elems(z) = Elems(timer_queue[c]) \cup {t}
    BY <1>2, <1>4, <2>1, <2>4, <2>5, QueueInsert, Zenon
  <2> QED BY <2>4, <2>6, Zenon DEF Queue
<1>14. /\ timer_queue' \in [CPU -> Seq(TimerT)] /\ timer_queue'[c] = z
       /\ \A d \in CPU : d # c => timer_queue'[d] = timer_queue[d] /\ hw'[d] = hw[d]
       /\ hw' \in [CPU -> Off..(Wrap - 1)]
  <2>1. delay \in Off..(Wrap - 1)
    BY Bounds DEF Off, Time
  <2>2. hw' \in [CPU -> Off..(Wrap - 1)] /\ \A d \in CPU : d # c => hw'[d] = hw[d]
    BY <1>3, <1>4, <2>1
  <2>3. /\ timer_queue' \in [CPU -> Seq(TimerT)] /\ timer_queue'[c] = z
        /\ \A d \in CPU : d # c => timer_queue'[d] = timer_queue[d]
    BY <1>3, <1>4, <1>13, Zenon
  <2> QED BY <2>2, <2>3, Zenon
<1>15. Queue(c)' = Queue(c) \cup {t}
  BY <1>13, <1>14, Zenon DEF Queue
<1>16. /\ periodic_time'[t] = period /\ callback'[t] = TRUE /\ early'[t] = delay
       /\ callback' \in [TimerT -> BOOLEAN] /\ early' \in [TimerT -> Time]
  BY <1>3, <1>4, Zenon
<1>17. Types'
  <2>1. periodic_time' \in [TimerT -> Periods \cup {0, 1}]
    BY <1>1, <1>3, Zenon DEF IInv, Types, TypeOK
  <2>2. TypeOK'
    BY <1>3, <1>4, <1>7, <1>14, <1>16, <2>1, Zenon DEF IInv, Types, TypeOK, Time
  <2> QED BY <1>3, <1>14, <2>2, Zenon DEF IInv, Types
<1>18. PeriodIsShort(t)'
  BY <1>1, <1>16, Zenon DEF PeriodIsShort
<1>19. ASSUME NEW u \in Queue(c)' PROVE InTime(u)'
  <2>1. CASE u = t
    <3>1. delay <= delay
      BY <1>11
    <3> QED BY <1>1, <1>9, <1>16, <2>1, <3>1, Zenon DEF InTime, NotEarly
  <2>2. CASE u # t
    <3>1. u \in Queue(c) /\ u \in TimerT /\ Untouched(u)
      BY <1>12, <1>15, <2>2, Zenon
    <3>2. InTime(u)
      BY <3>1, Zenon DEF IInv, Waiting
    <3> QED BY <3>1, <3>2, UntouchedTimer, Zenon
  <2> QED BY <2>1, <2>2, Zenon
<1>20. TickingOn(c)'
  <2>1. TickingOn(c) /\ Lag(c)' = Lag(c)
    BY <1>3, Zenon DEF IInv, Ticking, Lag
  <2>2. Lag(c) \in Int
    <3>1. pc[c].now \in Time
      BY <1>4 DEF PcType
    <3> QED BY <1>4, <3>1, Bounds, Distance, Zenon DEF Lag
  <2>3. -MaxLate <= delay + Lag(c)
    <3>1. 0 <= Lag(c)
      BY <2>1, Zenon DEF TickingOn
    <3> QED BY <1>11, <2>2, <3>1, Bounds
  <2>4. ASSUME NEW u \in Queue(c)' PROVE -MaxLate <= Remaining'[u] + Lag(c)
    <3>1. CASE u = t
      BY <1>9, <2>3, <3>1, Zenon
    <3>2. CASE u # t
      BY <1>12, <1>15, <2>1, <3>2, Zenon DEF TickingOn
    <3> QED BY <3>1, <3>2, Zenon
  <2> QED BY <2>1, <2>4, Zenon DEF TickingOn
<1>21. ASSUME NEW u \in TimerT, pc'[c].timer = u PROVE HandlingOf(c, u)'
  BY <1>3, <1>15, <1>21, Zenon DEF HandlingOf
<1>22. \A u \in TimerT : At(c, u)' => At(c, u) \/ u = t
  BY <1>3, <1>15, Zenon DEF At
<1>23. \A d \in CPU : d # c => /\ pc'[d] = pc[d] /\ hw'[d] = hw[d]
                               /\ timer_queue'[d] = timer_queue[d]
                               /\ t \in TimerT => ~At(d, t)
  BY <1>3, <1>5, <1>14, Zenon
<1>24. /\ now' = now /\ Ordered(timer_queue'[c], Remaining')
       /\ t \in TimerT => owner'[t] = Off /\ PeriodIsShort(t)'
       /\ \A u \in Queue(c)' : InTime(u)'
       /\ pc'[c].at = "idle" => ArmedFor(c)'
       /\ pc'[c].at # "idle" => TickingOn(c)'
       /\ \A u \in TimerT : pc'[c].timer = u => HandlingOf(c, u)'
  BY <1>3, <1>13, <1>14, <1>18, <1>19, <1>20, <1>21, Zenon
<1>25. StepOn(c, t)
  BY <1>8, <1>17, <1>22, <1>23, <1>24, Zenon DEF StepOn
<1> QED BY <1>25, StepOfOne, Zenon
-----------------------------------------------------------------------------
\* timer_cancel().

\* The ticks until a time that is not in the past.
LEMMA TicksUntil ==
  ASSUME TimerAssumption, NEW a \in Time, NEW b \in Time, Diff(a, b) >= 0
  PROVE  (a - b) % Wrap = Diff(a, b) /\ Diff(a, b) \in Time
<1>1. Wrap \in Nat /\ Half \in Nat /\ Wrap = 2 * Half /\ a \in Int /\ b \in Int
  BY Halves DEF Time
<1>2. PICK d \in Int : /\ d = Diff(a, b) /\ 0 <= d /\ d < Half
                       /\ a - b = d \/ a - b = d + Wrap \/ a - b = d - Wrap
  BY Distance, Zenon
<1>3. d \in Time /\ a - b \in Int /\ Congruent(a - b, d)
  BY <1>1, <1>2 DEF Time, Congruent
<1> QED BY <1>2, <1>3, Truncated, Zenon

\* A timer that is due no earlier than another is not later than it.
LEMMA NoLater ==
  ASSUME NEW x \in Int, NEW y \in Int, NEW l \in Int, NEW m \in Int, x <= y, l <= m
  PROVE  (x + l) - m <= y
OBVIOUS

\* The hardware timer of a processor that runs threads is set for the first of the timers that are
\* left.
LEMMA KeptArmed ==
  ASSUME Given, IInv, NEW c \in CPU, NEW t \in TimerT, pc[c].at = "idle", NEW z \in Seq(TimerT),
         Ordered(z, Remaining), Elems(z) = Queue(c) \ {t}, NEW v,
         v = IF z = <<>> THEN Off
             ELSE IF Head(z) = Head(timer_queue[c]) THEN hw[c]
             ELSE IF TIME_LT(scheduled_time[Head(z)], now) THEN 0
             ELSE (scheduled_time[Head(z)] - now) % Wrap
  PROVE  \A u \in Elems(z) : v >= 0 /\ v - MaxLate <= Remaining[u]
<1> SUFFICES ASSUME NEW u \in Elems(z) PROVE v >= 0 /\ v - MaxLate <= Remaining[u]
  BY Zenon
<1>1. now \in Time /\ scheduled_time \in [TimerT -> Time] /\ Remaining \in [TimerT -> Int]
  BY Typed, Zenon DEF IInv
<1>2. z # <<>>
  BY DEF Elems
<1>3. PICK h \in TimerT : /\ h = Head(z) /\ h \in Elems(z) /\ Remaining[h] <= Remaining[u]
  BY <1>1, <1>2, OrderedHead, Zenon
<1>4. PICK x \in Int, y \in Int : /\ x = Remaining[h] /\ y = Remaining[u]
                                  /\ -MaxLate <= x /\ x <= y
  BY <1>3, NotTooLate, Zenon
<1>5. CASE h = Head(timer_queue[c])
  <2>1. v = hw[c]
    BY <1>2, <1>3, <1>5, Zenon
  <2> QED BY <2>1, Zenon DEF IInv, Armed, ArmedFor
<1>6. CASE h # Head(timer_queue[c]) /\ TIME_LT(scheduled_time[h], now)
  <2>1. v = 0
    BY <1>2, <1>3, <1>6, Zenon
  <2>2. 0 - MaxLate <= y
    BY <1>4, Bounds
  <2> QED BY <1>4, <2>1, <2>2
<1>7. CASE h # Head(timer_queue[c]) /\ ~TIME_LT(scheduled_time[h], now)
  <2>1. v = (scheduled_time[h] - now) % Wrap
    BY <1>2, <1>3, <1>7, Zenon
  <2>2. x = Diff(scheduled_time[h], now) /\ ~(x < 0) /\ scheduled_time[h] \in Time
    BY <1>1, <1>4, <1>7, Zenon DEF Remaining, TIME_LT
  <2>3. x >= 0
    BY <2>2
  <2>4. v = x
    BY <1>1, <2>1, <2>2, <2>3, Bounds, TicksUntil, Zenon
  <2>5. x - MaxLate <= y
    <3>1. x + 0 = x /\ MaxLate \in Int /\ 0 <= MaxLate /\ 0 \in Int
      BY Bounds
    <3> QED BY <1>4, <3>1, NoLater, Zenon
  <2> QED BY <1>4, <2>3, <2>4, <2>5, Zenon
<1> QED BY <1>5, <1>6, <1>7, Zenon
\* timer_cancel() keeps the invariant.
LEMMA KeptByCancel ==
  ASSUME Given, IInv, NEW c \in CPU, NEW t \in TimerT, timer_cancel(c, t)
  PROVE  IInv'
<1>1. /\ now \in Time /\ timer_queue \in [CPU -> Seq(TimerT)]
      /\ scheduled_time \in [TimerT -> Time] /\ periodic_time \in [TimerT -> Time]
      /\ callback \in [TimerT -> BOOLEAN] /\ hw \in [CPU -> Off..(Wrap - 1)]
      /\ pc \in [CPU -> PcType] /\ Remaining \in [TimerT -> Int]
  BY Typed, Zenon DEF IInv
<1> DEFINE z == unlink(t)
           v == IF z[c] = <<>> THEN Off
                ELSE IF Head(z[c]) = Head(timer_queue[c]) THEN hw[c]
                ELSE IF TIME_LT(scheduled_time[Head(z[c])], now) THEN 0
                ELSE (scheduled_time[Head(z[c])] - now) % Wrap
<1>2. /\ owner[t] = Off /\ timer_queue' = z /\ now' = now /\ owner' = owner /\ pc' = pc
      /\ periodic_time' = [periodic_time EXCEPT ![t] = 0]
      /\ callback' = [callback EXCEPT ![t] = FALSE]
      /\ scheduled_time' = scheduled_time /\ early' = early
  BY Zenon DEF timer_cancel, cancel_fields
<1>3. hw' = [hw EXCEPT ![c] = v]
  BY <1>1 DEF timer_cancel
<1>4. \A d \in CPU : pc[d].timer = t => pc[d].at # "dequeued"
  <2>1. CallbackRuns(c, t) \/ ~Handled(t)
    BY Zenon DEF timer_cancel, Given, Assumed
  <2>2. CASE CallbackRuns(c, t)
    <3>1. pc[c].timer = t /\ pc[c].at # "dequeued"
      BY <2>2 DEF CallbackRuns
    <3> QED BY <3>1, Zenon DEF IInv, InOnePlace, At
  <2>3. CASE ~Handled(t)
    BY <2>3, Zenon DEF Handled
  <2> QED BY <2>1, <2>2, <2>3, Zenon
<1>5. ASSUME NEW d \in CPU
      PROVE  z[d] \in Seq(TimerT) /\ Ordered(z[d], Remaining) /\ Elems(z[d]) = Queue(d) \ {t}
  <2>1. z[d] = IF list_in_list(timer_queue[d], t) THEN list_delete(timer_queue[d], t)
               ELSE timer_queue[d]
    BY Zenon DEF unlink
  <2>2. timer_queue[d] \in Seq(TimerT)
    BY <1>1
  <2>3. Ordered(timer_queue[d], Remaining)
    BY Zenon DEF IInv, InOrder
  <2>4. PICK y : y = z[d]
    BY Zenon
  <2>5. y \in Seq(TimerT) /\ Ordered(y, Remaining) /\ Elems(y) = Elems(timer_queue[d]) \ {t}
    BY <1>1, <2>1, <2>2, <2>3, <2>4, QueueDelete
  <2> QED BY <2>4, <2>5, Zenon DEF Queue
<1>6. z \in [CPU -> Seq(TimerT)]
  <2>1. z = [d \in CPU |-> z[d]]
    BY Zenon DEF unlink
  <2> HIDE DEF z
  <2> QED BY <1>5, <2>1, Zenon
<1> HIDE DEF z
<1>7. v \in Off..(Wrap - 1)
  <2>1. CASE z[c] # <<>>
    <3>1. Head(z[c]) \in TimerT
      BY <1>5, <2>1
    <3>2. scheduled_time[Head(z[c])] \in Int /\ now \in Int
      BY <1>1, <3>1 DEF Time
    <3>3. (scheduled_time[Head(z[c])] - now) % Wrap \in 0..(Wrap - 1)
      BY <3>2, Bounds, Halves
    <3>4. hw[c] \in Off..(Wrap - 1) /\ 0 \in Off..(Wrap - 1) /\ 0..(Wrap - 1) \subseteq Off..(Wrap - 1)
      BY <1>1, Bounds, Halves DEF Off
    <3> QED BY <2>1, <3>3, <3>4, Zenon
  <2>2. CASE z[c] = <<>>
    BY <2>2, Bounds DEF Off
  <2> QED BY <2>1, <2>2, Zenon
<1>8. pc[c].at = "idle" => \A u \in Elems(z[c]) : v >= 0 /\ v - MaxLate <= Remaining[u]
  BY <1>5, KeptArmed, Zenon
<1> HIDE DEF v
<1>9. hw' \in [CPU -> Off..(Wrap - 1)] /\ hw'[c] = v /\ \A d \in CPU : d # c => hw'[d] = hw[d]
  BY <1>1, <1>3, <1>7, Zenon
<1>10. /\ \A d \in CPU : Queue(d)' = Queue(d) \ {t} /\ Queue(d) \subseteq TimerT
       /\ Remaining' = Remaining
  <2>1. \A d \in CPU : Queue(d) \subseteq TimerT
    BY <1>1 DEF Queue, Elems
  <2>2. Remaining' = Remaining
    BY <1>2, Zenon DEF Remaining
  <2> QED BY <1>2, <1>5, <2>1, <2>2, Zenon DEF Queue
<1>11. \A u \in TimerT : u # t => Untouched(u)
  BY <1>1, <1>2, Zenon DEF Untouched
<1>12. callback'[t] = FALSE /\ periodic_time'[t] = 0
  BY <1>1, <1>2, Zenon
<1>13. Types'
  <2>1. /\ periodic_time' \in [TimerT -> Periods \cup {0, 1}]
        /\ callback' \in [TimerT -> BOOLEAN]
    BY <1>1, <1>2, Zenon DEF IInv, Types, TypeOK
  <2>2. TypeOK'
    BY <1>2, <1>6, <1>9, <2>1, Zenon DEF IInv, Types, TypeOK
  <2> QED BY <1>2, <1>6, <2>2, Zenon DEF IInv, Types
<1>14. InOrder'
  BY <1>2, <1>5, <1>10, Zenon DEF InOrder
<1>15. \A d \in CPU, u \in TimerT : At(d, u)' => At(d, u)
  BY <1>2, <1>10, Zenon DEF At
<1>16. InOnePlace'
  BY <1>15, StillInOnePlace, Zenon DEF IInv
<1>17. Waiting'
  <2>1. ASSUME NEW d \in CPU, NEW u \in Queue(d)' PROVE InTime(u)'
    <3>1. u \in TimerT /\ u # t /\ u \in Queue(d)
      BY <1>10, Zenon
    <3>2. InTime(u) /\ Untouched(u)
      BY <1>11, <3>1, Zenon DEF IInv, Waiting
    <3> QED BY <3>1, <3>2, UntouchedTimer, Zenon
  <2> QED BY <2>1, Zenon DEF Waiting
<1>18. BeingSet'
  <2>1. ASSUME NEW u \in TimerT, owner'[u] # Off
        PROVE  Stamped(u)' /\ \A d \in CPU : ~At(d, u)'
    <3>1. u # t /\ owner[u] # Off
      BY <1>2, <2>1, Zenon
    <3>2. Stamped(u) /\ \A d \in CPU : ~At(d, u)
      BY <3>1, Zenon DEF IInv, BeingSet
    <3>3. Untouched(u)
      BY <1>11, <3>1, Zenon
    <3> QED BY <1>15, <3>2, <3>3, UntouchedTimer, Zenon
  <2> QED BY <2>1, Zenon DEF BeingSet
<1>19. PeriodsAreShort'
  <2>1. PeriodIsShort(t)'
    BY <1>12, Zenon DEF PeriodIsShort
  <2> QED BY <1>11, <2>1, UntouchedTimer, Zenon DEF IInv, PeriodsAreShort
<1>20. Armed'
  <2>1. ASSUME NEW d \in CPU, d # c, pc'[d].at = "idle" PROVE ArmedFor(d)'
    <3>1. \A u \in Queue(d)' : u \in TimerT /\ u \in Queue(d) /\ Untouched(u)
      BY <1>10, <1>11, Zenon
    <3>2. ArmedFor(d) /\ pc'[d] = pc[d] /\ hw'[d] = hw[d]
      BY <1>2, <1>9, <2>1, Zenon DEF IInv, Armed
    <3> QED BY <1>2, <3>1, <3>2, UntouchedProcessor, Zenon
  <2>2. ASSUME pc'[c].at = "idle" PROVE ArmedFor(c)'
    BY <1>2, <1>5, <1>8, <1>9, <1>10, <2>2, Zenon DEF ArmedFor
  <2> QED BY <2>1, <2>2, Zenon DEF Armed
<1>21. Ticking'
  <2>1. ASSUME NEW d \in CPU, pc'[d].at # "idle" PROVE TickingOn(d)'
    <3>1. TickingOn(d) /\ Lag(d)' = Lag(d)
      BY <1>2, <2>1, Zenon DEF IInv, Ticking, Lag
    <3> QED BY <1>10, <3>1, Zenon DEF TickingOn
  <2> QED BY <2>1, Zenon DEF Ticking
<1>22. Handling'
  <2>1. ASSUME NEW d \in CPU, NEW u \in TimerT, pc'[d].timer = u PROVE HandlingOf(d, u)'
    <3>1. CASE u = t
      BY <1>2, <1>4, <1>12, <2>1, <3>1, Zenon DEF HandlingOf
    <3>2. CASE u # t
      <4>1. pc'[d] = pc[d] /\ HandlingOf(d, u)
        BY <1>2, <2>1, Zenon DEF IInv, Handling
      <4>2. Untouched(u) /\ (u \in Queue(d)' <=> u \in Queue(d))
        BY <1>10, <1>11, <3>2, Zenon
      <4> QED BY <4>1, <4>2, UntouchedHandling, Zenon
    <3> QED BY <3>1, <3>2, Zenon
  <2> QED BY <2>1, Zenon DEF Handling
<1> QED BY <1>13, <1>14, <1>16, <1>17, <1>18, <1>19, <1>20, <1>21, <1>22, Zenon DEF IInv
-----------------------------------------------------------------------------
\* timer_tick(): the loop.

\* A time that is x ticks from m is x + lag ticks from n, when m is lag ticks after n.
LEMMA Earlier ==
  ASSUME Given, NEW a \in Time, NEW m \in Time, NEW n \in Time, NEW x \in Int, NEW lag \in Int,
         x = Diff(a, m), lag = Diff(m, n), 0 <= lag, lag <= MaxLate,
         x + MaxLate < Half, -MaxLate <= x + lag
  PROVE  Diff(a, n) = x + lag /\ Diff(n, a) = -(x + lag)
<1>1. lag > -Half
  BY Bounds
<1>2. Diff(n, m) = -lag
  BY <1>1, Bounds, Opposite, Zenon
<1>3. PICK d \in Int : d = x + lag
  OBVIOUS
<1>4. d = Diff(a, m) - Diff(n, m) /\ -Half <= d /\ d < Half /\ d > -Half
  BY <1>2, <1>3, Bounds
<1>5. Diff(a, n) = d
  BY <1>4, Bounds, Between, Zenon
<1>6. Diff(n, a) = -d
  BY <1>4, <1>5, Bounds, Opposite, Zenon
<1> QED BY <1>3, <1>5, <1>6, Zenon

\* What the loop does with the queue q, called for the time n, when r are the distances of the timers
\* from now: it takes one that is due, or sets the hardware timer for the first and returns.
Dequeues(c, n, q, r, armed) ==
  \E h \in TimerT, z \in Seq(TimerT) :
    /\ h \in Elems(q) /\ Elems(z) = Elems(q) \ {h} /\ Ordered(z, r)
    /\ r[h] + Diff(now, n) <= 0
    /\ timer_queue' = [timer_queue EXCEPT ![c] = z]
    /\ pc' = [pc EXCEPT ![c] = [at |-> "dequeued", timer |-> h, now |-> n, periodic |-> FALSE]]
    /\ hw' = armed
Returns(c, q, r, armed) ==
  /\ timer_queue' = [timer_queue EXCEPT ![c] = q]
  /\ pc' = [pc EXCEPT ![c] = Idle]
  /\ hw' \in [CPU -> Off..(Wrap - 1)] /\ \A d \in CPU : d # c => hw'[d] = armed[d]
  /\ \A u \in Elems(q) : hw'[c] >= 0 /\ hw'[c] - MaxLate <= r[u]

\* That is what it does.
LEMMA TickLoop ==
  ASSUME Given, NEW c \in CPU, now \in Time, NEW n \in Time, NEW q \in Seq(TimerT),
         NEW sched \in [TimerT -> Time], NEW r \in [TimerT -> Int], r = Ahead(sched, now),
         NEW lag \in Int, lag = Diff(now, n), 0 <= lag, lag <= MaxLate, Ordered(q, r),
         \A u \in Elems(q) : Short(r[u]) /\ -MaxLate <= r[u] + lag,
         NEW armed \in [CPU -> Off..(Wrap - 1)], tick_loop(c, n, q, sched, armed)
  PROVE  Dequeues(c, n, q, r, armed) \/ Returns(c, q, r, armed)
<1>1. CASE q = <<>>
  <2>1. Elems(q) = {}
    BY <1>1 DEF Elems
  <2>2. /\ timer_queue' = [timer_queue EXCEPT ![c] = q] /\ hw' = armed
        /\ pc' = [pc EXCEPT ![c] = Idle]
    BY <1>1, Zenon DEF tick_loop
  <2> QED BY <2>1, <2>2, Zenon DEF Returns
<1>2. CASE q # <<>>
  <2>1. PICK h \in TimerT : h = Head(q) /\ h \in Elems(q) /\ \A u \in Elems(q) : r[h] <= r[u]
    BY <1>2, OrderedHead, Zenon
  <2>2. PICK a \in Time, x \in Int : a = sched[h] /\ x = r[h]
    BY Zenon
  <2>3. x = Diff(a, now) /\ Short(x) /\ -MaxLate <= x + lag
    BY <2>1, <2>2, Zenon DEF Ahead
  <2>4. Diff(a, n) = x + lag /\ Diff(n, a) = -(x + lag)
    BY <2>3, Earlier DEF Short
  <2>5. Due(n, sched[Head(q)]) <=> x + lag <= 0
    <3>1. Due(n, sched[Head(q)]) <=> ~(-(x + lag) < 0)
      BY <2>1, <2>2, <2>4, Zenon DEF Due, TIME_LT
    <3> QED BY <3>1
  <2>6. CASE x + lag <= 0
    <3>1. /\ timer_queue' = [timer_queue EXCEPT ![c] = Tail(q)] /\ hw' = armed
          /\ pc' = [pc EXCEPT ![c] = [at |-> "dequeued", timer |-> h, now |-> n, periodic |-> FALSE]]
      BY <1>2, <2>1, <2>5, <2>6, Zenon DEF tick_loop
    <3>2. Tail(q) \in Seq(TimerT) /\ Ordered(Tail(q), r) /\ Elems(Tail(q)) = Elems(q) \ {h}
      BY <1>2, <2>1, OrderedHead, Zenon
    <3> QED BY <2>1, <2>2, <2>6, <3>1, <3>2, Zenon DEF Dequeues
  <2>7. CASE ~(x + lag <= 0)
    <3>1. TIME_GT(sched[Head(q)], n)
      <4>1. x + lag > 0
        BY <2>7
      <4> QED BY <2>1, <2>2, <2>4, <4>1, Zenon DEF TIME_GT
    <3>2. /\ timer_queue' = [timer_queue EXCEPT ![c] = q]
          /\ pc' = [pc EXCEPT ![c] = Idle]
          /\ hw' = [armed EXCEPT ![c] = (a - n) % Wrap]
      BY <1>2, <2>1, <2>2, <2>5, <2>7, <3>1, Zenon DEF tick_loop
    <3>3. (a - n) % Wrap = x + lag /\ x + lag \in Time
      <4>1. Diff(a, n) >= 0
        BY <2>4, <2>7
      <4> QED BY <2>4, <4>1, Bounds, TicksUntil, Zenon
    <3>4. x + lag \in Off..(Wrap - 1)
      BY <3>3 DEF Time, Off
    <3>5. /\ hw' \in [CPU -> Off..(Wrap - 1)] /\ hw'[c] = x + lag
          /\ \A d \in CPU : d # c => hw'[d] = armed[d]
      BY <3>2, <3>3, <3>4, Zenon
    <3>6. ASSUME NEW u \in Elems(q) PROVE hw'[c] >= 0 /\ hw'[c] - MaxLate <= r[u]
      <4>1. u \in TimerT
        BY DEF Elems
      <4>2. PICK y \in Int : y = r[u] /\ x <= y
        BY <2>1, <2>2, <4>1, Zenon
      <4>3. x + lag >= 0
        BY <2>7
      <4>4. MaxLate \in Int
        BY Bounds
      <4>5. (x + lag) - MaxLate <= y
        BY <4>2, <4>4, NoLater, Zenon
      <4> QED BY <3>5, <4>2, <4>3, <4>5, Zenon
    <3> QED BY <3>2, <3>5, <3>6, Zenon DEF Returns
  <2> QED BY <2>6, <2>7, Zenon
<1> QED BY <1>1, <1>2, Zenon
\* The loop with a queue in order, whose timers are the ones that were there and possibly the one
\* that was handled, moved to another time.
LoopOn(c, n, q, sched, armed, r, x, lag) ==
  /\ r = Ahead(sched, now) /\ x = pc[c].timer /\ lag = Diff(now, n) /\ 0 <= lag /\ lag <= MaxLate
  /\ now' = now /\ owner' = owner /\ periodic_time' = periodic_time
  /\ callback' = callback /\ early' = early /\ scheduled_time' = sched
  /\ \A u \in TimerT : u # x => sched[u] = scheduled_time[u]
  /\ Ordered(q, r)
  /\ \A u \in Elems(q) :
       /\ u \in Queue(c) \/ u = x
       /\ Short(r[u]) /\ -MaxLate <= r[u] + lag
       /\ callback[u] /\ (early[u] = 0 \/ early[u] <= r[u])
  /\ \A d \in CPU : d # c => armed[d] = hw[d]
  /\ tick_loop(c, n, q, sched, armed)

\* When a timer is due, no time has to pass before its callback may be called.
LEMMA NothingLeft ==
  ASSUME NEW e \in Int, NEW y \in Int, NEW l \in Int, e >= 0, e = 0 \/ e <= y, y + l <= 0, 0 <= l
  PROVE  e = 0
<1>1. y <= 0
  OBVIOUS
<1> QED BY <1>1

\* It keeps the invariant.
LEMMA KeptByLoop ==
  ASSUME Given, IInv, NEW c \in CPU, NEW n \in Time, NEW q \in Seq(TimerT),
         NEW sched \in [TimerT -> Time], NEW armed \in [CPU -> Off..(Wrap - 1)],
         NEW r \in [TimerT -> Int], NEW x, NEW lag \in Int,
         LoopOn(c, n, q, sched, armed, r, x, lag)
  PROVE  IInv'
<1>0. /\ r = Ahead(sched, now) /\ x = pc[c].timer /\ lag = Diff(now, n) /\ 0 <= lag /\ lag <= MaxLate
      /\ now' = now /\ owner' = owner /\ periodic_time' = periodic_time
      /\ callback' = callback /\ early' = early /\ scheduled_time' = sched
      /\ \A u \in TimerT : u # x => sched[u] = scheduled_time[u]
      /\ Ordered(q, r)
      /\ \A u \in Elems(q) :
           /\ u \in Queue(c) \/ u = x
           /\ Short(r[u]) /\ -MaxLate <= r[u] + lag
           /\ callback[u] /\ (early[u] = 0 \/ early[u] <= r[u])
      /\ \A d \in CPU : d # c => armed[d] = hw[d]
      /\ tick_loop(c, n, q, sched, armed)
  BY Zenon DEF LoopOn
<1>1. /\ now \in Time /\ timer_queue \in [CPU -> Seq(TimerT)] /\ early \in [TimerT -> Time]
      /\ pc \in [CPU -> PcType] /\ \A d \in CPU : pc[d].at = "idle" <=> pc[d].timer = NULL
  BY <1>0, Typed, Zenon DEF IInv
<1>2. Dequeues(c, n, q, r, armed) \/ Returns(c, q, r, armed)
  BY <1>0, <1>1, TickLoop, Zenon
<1>3. Remaining' = r
  BY <1>0, Zenon DEF Remaining, Ahead
<1>4. \A u \in TimerT : u # x => Untouched(u)
  BY <1>0, Zenon DEF Untouched
<1>5. Elems(q) \subseteq TimerT
  BY <1>0 DEF Elems
<1>6. ASSUME NEW u \in Elems(q) PROVE InTime(u)'
  BY <1>0, <1>3, Zenon DEF InTime, NotEarly
<1>7. x \in TimerT => /\ \A d \in CPU : d # c => ~At(d, x)
                      /\ owner'[x] = Off /\ PeriodIsShort(x)'
  <2>1. SUFFICES ASSUME x \in TimerT
                 PROVE  (\A d \in CPU : d # c => ~At(d, x)) /\ owner[x] = Off /\ PeriodIsShort(x)'
    BY <1>0, Zenon
  <2>2. At(c, x)
    BY <1>0, Zenon DEF At
  <2>3. \A d \in CPU : d # c => ~At(d, x)
    BY <1>0, <2>1, <2>2, Zenon DEF IInv, InOnePlace
  <2>4. owner[x] = Off
    BY <1>0, <2>1, <2>2, Zenon DEF IInv, BeingSet
  <2>5. PeriodIsShort(x)'
    BY <1>0, <2>1, Zenon DEF IInv, PeriodsAreShort, PeriodIsShort
  <2> QED BY <2>3, <2>4, <2>5, Zenon
<1>8. \A u \in Elems(q) : u # x => At(c, u)
  BY <1>0, Zenon DEF At
<1>9. ASSUME NEW p \in PcType, p.at = "idle" <=> p.timer = NULL, NEW z \in Seq(TimerT),
             pc' = [pc EXCEPT ![c] = p], timer_queue' = [timer_queue EXCEPT ![c] = z],
             hw' \in [CPU -> Off..(Wrap - 1)]
      PROVE  /\ Types' /\ pc'[c] = p /\ timer_queue'[c] = z /\ Queue(c)' = Elems(z)
             /\ \A d \in CPU : d # c => pc'[d] = pc[d] /\ timer_queue'[d] = timer_queue[d]
  <2>1. /\ pc'[c] = p /\ timer_queue'[c] = z /\ pc' \in [CPU -> PcType]
        /\ timer_queue' \in [CPU -> Seq(TimerT)]
        /\ \A d \in CPU : d # c => pc'[d] = pc[d] /\ timer_queue'[d] = timer_queue[d]
    BY <1>0, <1>1, <1>9, Zenon
  <2>2. \A d \in CPU : pc'[d].at = "idle" <=> pc'[d].timer = NULL
    BY <1>0, <1>1, <1>9, <2>1, Zenon
  <2>3. TypeOK'
    BY <1>0, <1>9, <2>1, Zenon DEF IInv, Types, TypeOK, Time
  <2>4. Types'
    BY <1>0, <2>1, <2>2, <2>3, Zenon DEF Types, PcType
  <2> QED BY <2>1, <2>4, Zenon DEF Queue
<1>10. CASE Dequeues(c, n, q, r, armed)
  <2>1. PICK h \in TimerT, z \in Seq(TimerT) :
          /\ h \in Elems(q) /\ Elems(z) = Elems(q) \ {h} /\ Ordered(z, r)
          /\ r[h] + Diff(now, n) <= 0
          /\ timer_queue' = [timer_queue EXCEPT ![c] = z]
          /\ pc' = [pc EXCEPT ![c] = [at |-> "dequeued", timer |-> h, now |-> n, periodic |-> FALSE]]
          /\ hw' = armed
    BY <1>10, Zenon DEF Dequeues
  <2>2. PICK p \in PcType : /\ p = [at |-> "dequeued", timer |-> h, now |-> n, periodic |-> FALSE]
                            /\ p.at = "dequeued" /\ p.timer = h /\ p.now = n
    <3>1. PICK p : p = [at |-> "dequeued", timer |-> h, now |-> n, periodic |-> FALSE]
      BY <1>0, Zenon
    <3>2. p \in PcType /\ p.at = "dequeued" /\ p.timer = h /\ p.now = n
      BY <1>0, <3>1, Zenon DEF PcType
    <3> QED BY <3>1, <3>2, Zenon
  <2>3. h # NULL
    BY <1>0, Bounds, Zenon DEF TimerAssumption
  <2>4. /\ Types' /\ pc'[c] = p /\ timer_queue'[c] = z /\ Queue(c)' = Elems(z)
        /\ \A d \in CPU : d # c => pc'[d] = pc[d] /\ timer_queue'[d] = timer_queue[d]
    BY <1>9, <2>1, <2>2, <2>3, Zenon
  <2>5. \A u \in TimerT : At(c, u)' => At(c, u) \/ u = x
    <3>1. h # x => At(c, h)
      BY <1>8, <2>1, Zenon
    <3>2. \A u \in Queue(c)' : u # x => At(c, u)
      BY <1>8, <2>1, <2>4, Zenon
    <3>3. pc'[c].timer = h
      BY <2>2, <2>4, Zenon
    <3> QED BY <3>1, <3>2, <3>3, Zenon DEF At
  <2>6. Lag(c)' = lag
    BY <1>0, <2>2, <2>4, Zenon DEF Lag
  <2>7. TickingOn(c)'
    BY <1>0, <1>3, <2>1, <2>4, <2>6, Zenon DEF TickingOn
  <2>8. HandlingOf(c, h)'
    <3>1. early[h] = 0
      <4>1. PICK e \in Int, y \in Int : e = early[h] /\ y = r[h] /\ e >= 0
        <5>1. early[h] \in Time
          BY <1>1, Zenon
        <5> QED BY <5>1, TimesAreNumbers, Bounds, Zenon
      <4>2. e = 0 \/ e <= y
        BY <1>0, <2>1, <4>1, Zenon
      <4>3. y + lag <= 0 /\ 0 <= lag
        BY <1>0, <2>1, <4>1, Zenon
      <4>4. e >= 0
        BY <4>1, Zenon
      <4>5. e = 0
        BY <4>2, <4>3, <4>4, NothingLeft, Zenon
      <4> QED BY <4>1, <4>5, Zenon
    <3>2. callback'[h] /\ h \notin Queue(c)' /\ early'[h] = 0
      BY <1>0, <2>1, <2>4, <3>1, Zenon
    <3>3. -MaxLate <= Remaining'[h] + Lag(c)' /\ Remaining'[h] + Lag(c)' <= 0
      BY <1>0, <1>3, <2>1, <2>6, Zenon
    <3> QED BY <3>2, <3>3, Zenon DEF HandlingOf
  <2>9. \A d \in CPU : d # c => /\ pc'[d] = pc[d] /\ hw'[d] = hw[d]
                                /\ timer_queue'[d] = timer_queue[d]
                                /\ x \in TimerT => ~At(d, x)
    BY <1>0, <1>7, <2>1, <2>4, Zenon
  <2>10. /\ now' = now /\ Ordered(timer_queue'[c], Remaining')
         /\ x \in TimerT => owner'[x] = Off /\ PeriodIsShort(x)'
         /\ \A u \in Queue(c)' : InTime(u)'
         /\ pc'[c].at = "idle" => ArmedFor(c)'
         /\ pc'[c].at # "idle" => TickingOn(c)'
         /\ \A u \in TimerT : pc'[c].timer = u => HandlingOf(c, u)'
    <3>1. pc'[c].at # "idle" /\ pc'[c].timer = h
      BY <2>2, <2>4
    <3>2. now' = now /\ Ordered(timer_queue'[c], Remaining')
      BY <1>0, <1>3, <2>1, <2>4, Zenon
    <3>3. \A u \in Queue(c)' : InTime(u)'
      BY <1>6, <2>1, <2>4, Zenon
    <3>4. \A u \in TimerT : pc'[c].timer = u => HandlingOf(c, u)'
      BY <2>8, <3>1, Zenon
    <3> QED BY <1>7, <2>7, <3>1, <3>2, <3>3, <3>4, Zenon
  <2>11. StepOn(c, x)
    BY <1>4, <2>4, <2>5, <2>9, <2>10, Zenon DEF StepOn
  <2> QED BY <2>11, StepOfOne, Zenon
<1>11. CASE Returns(c, q, r, armed)
  <2>1. PICK p \in PcType : p = Idle /\ p.at = "idle" /\ p.timer = NULL
    <3>1. Idle \in PcType /\ Idle.at = "idle" /\ Idle.timer = NULL
      BY <1>0, Bounds DEF PcType, Idle
    <3> QED BY <3>1, Zenon
  <2>2. /\ timer_queue' = [timer_queue EXCEPT ![c] = q] /\ pc' = [pc EXCEPT ![c] = p]
        /\ hw' \in [CPU -> Off..(Wrap - 1)] /\ \A d \in CPU : d # c => hw'[d] = armed[d]
        /\ \A u \in Elems(q) : hw'[c] >= 0 /\ hw'[c] - MaxLate <= r[u]
    BY <1>11, <2>1, Zenon DEF Returns
  <2>3. /\ Types' /\ pc'[c] = p /\ timer_queue'[c] = q /\ Queue(c)' = Elems(q)
        /\ \A d \in CPU : d # c => pc'[d] = pc[d] /\ timer_queue'[d] = timer_queue[d]
    BY <1>9, <2>1, <2>2, Zenon
  <2>4. \A u \in TimerT : pc'[c].timer # u
    BY <1>0, <2>1, <2>3, Bounds, Zenon DEF TimerAssumption
  <2>5. \A u \in TimerT : At(c, u)' => At(c, u) \/ u = x
    BY <1>0, <1>8, <2>3, <2>4, Zenon DEF At
  <2>6. ArmedFor(c)'
    BY <1>0, <1>3, <2>2, <2>3, Zenon DEF ArmedFor
  <2>7. \A d \in CPU : d # c => /\ pc'[d] = pc[d] /\ hw'[d] = hw[d]
                                /\ timer_queue'[d] = timer_queue[d]
                                /\ x \in TimerT => ~At(d, x)
    BY <1>0, <1>7, <2>2, <2>3, Zenon
  <2>8. /\ now' = now /\ Ordered(timer_queue'[c], Remaining')
        /\ x \in TimerT => owner'[x] = Off /\ PeriodIsShort(x)'
        /\ \A u \in Queue(c)' : InTime(u)'
        /\ pc'[c].at = "idle" => ArmedFor(c)'
        /\ pc'[c].at # "idle" => TickingOn(c)'
        /\ \A u \in TimerT : pc'[c].timer = u => HandlingOf(c, u)'
    BY <1>0, <1>3, <1>6, <1>7, <2>1, <2>3, <2>4, <2>6, Zenon
  <2>9. StepOn(c, x)
    BY <1>4, <2>3, <2>5, <2>7, <2>8, Zenon DEF StepOn
  <2> QED BY <2>9, StepOfOne, Zenon
<1> QED BY <1>2, <1>10, <1>11, Zenon
\* timer_tick() when the hardware timer fires, as far as the first callback, keeps the invariant.
LEMMA KeptByTick ==
  ASSUME Given, IInv, NEW c \in CPU, timer_tick(c)
  PROVE  IInv'
<1>1. /\ now \in Time /\ timer_queue \in [CPU -> Seq(TimerT)]
      /\ scheduled_time \in [TimerT -> Time] /\ hw \in [CPU -> Off..(Wrap - 1)]
      /\ Remaining \in [TimerT -> Int]
  BY Typed, Zenon DEF IInv
<1> DEFINE armed == [hw EXCEPT ![c] = Off]
<1>2. /\ pc[c].at = "idle" /\ tick_loop(c, now, timer_queue[c], scheduled_time, armed)
      /\ now' = now /\ owner' = owner /\ periodic_time' = periodic_time
      /\ callback' = callback /\ early' = early /\ scheduled_time' = scheduled_time
  BY Zenon DEF timer_tick, ThreadRuns, fields
<1>3. armed \in [CPU -> Off..(Wrap - 1)] /\ \A d \in CPU : d # c => armed[d] = hw[d]
  <2>1. Off \in Off..(Wrap - 1)
    BY Bounds DEF Off
  <2> QED BY <1>1, <2>1, Zenon
<1> HIDE DEF armed
<1>4. PICK lag \in Int : lag = 0 /\ lag = Diff(now, now) /\ 0 <= lag /\ lag <= MaxLate
  <2>1. Diff(now, now) = 0
    BY <1>1, Bounds, Same, Zenon
  <2>2. 0 \in Int /\ 0 <= 0 /\ 0 <= MaxLate
    BY Bounds
  <2> QED BY <2>1, <2>2, Zenon
<1>5. /\ timer_queue[c] \in Seq(TimerT) /\ Remaining = Ahead(scheduled_time, now)
      /\ Ordered(timer_queue[c], Remaining)
  BY <1>1, Zenon DEF Remaining, Ahead, IInv, InOrder
<1>6. ASSUME NEW u \in Elems(timer_queue[c])
      PROVE  /\ Short(Remaining[u]) /\ -MaxLate <= Remaining[u] + lag
             /\ callback[u] /\ (early[u] = 0 \/ early[u] <= Remaining[u]) /\ u \in Queue(c)
  <2>1. u \in Queue(c)
    BY Zenon DEF Queue
  <2>2. PICK y \in Int : y = Remaining[u] /\ -MaxLate <= y
    BY <1>2, <2>1, NotTooLate, Zenon
  <2>3. -MaxLate <= y + lag
    BY <1>4, <2>2
  <2>4. InTime(u)
    BY <2>1, Zenon DEF IInv, Waiting
  <2> QED BY <2>1, <2>2, <2>3, <2>4, Zenon DEF InTime, NotEarly
<1>7. PICK x : x = pc[c].timer
  BY Zenon
<1>8. LoopOn(c, now, timer_queue[c], scheduled_time, armed, Remaining, x, lag)
  BY <1>2, <1>3, <1>4, <1>5, <1>6, <1>7, Zenon DEF LoopOn
<1> QED BY <1>1, <1>3, <1>5, <1>8, KeptByLoop, Zenon

\* The step to the callback keeps the invariant.
LEMMA KeptByCall ==
  ASSUME Given, IInv, NEW c \in CPU, tick_call(c)
  PROVE  IInv'
<1>1. /\ pc \in [CPU -> PcType] /\ \A d \in CPU : pc[d].at = "idle" <=> pc[d].timer = NULL
  BY Typed, Zenon DEF IInv
<1>2. /\ pc[c].at = "dequeued"
      /\ pc' = [pc EXCEPT ![c].at = "called", ![c].periodic = periodic_time[pc[c].timer] > 0]
      /\ now' = now /\ timer_queue' = timer_queue /\ hw' = hw /\ owner' = owner
      /\ periodic_time' = periodic_time /\ callback' = callback /\ early' = early
      /\ scheduled_time' = scheduled_time
  BY Zenon DEF tick_call, fields
<1>3. PICK x : x = pc[c].timer
  BY Zenon
<1>4. /\ pc'[c].at = "called" /\ pc'[c].timer = x /\ pc'[c].now = pc[c].now
      /\ pc' \in [CPU -> PcType] /\ \A d \in CPU : d # c => pc'[d] = pc[d]
  <2>1. PICK v \in BOOLEAN : v = (periodic_time[pc[c].timer] > 0)
    <3>1. (periodic_time[pc[c].timer] > 0) \in BOOLEAN
      OBVIOUS
    <3> QED BY <3>1, Zenon
  <2>2. pc' = [pc EXCEPT ![c].at = "called", ![c].periodic = v]
    BY <1>2, <2>1
  <2>3. pc[c] \in PcType
    BY <1>1
  <2>4. pc'[c] = [pc[c] EXCEPT !.at = "called", !.periodic = v]
    BY <1>1, <2>2
  <2>5. pc'[c].at = "called" /\ pc'[c].timer = x /\ pc'[c].now = pc[c].now /\ pc'[c] \in PcType
    BY <1>3, <2>1, <2>3, <2>4, Zenon DEF PcType
  <2>6. \A d \in CPU : d # c => pc'[d] = pc[d]
    BY <1>1, <2>2
  <2>7. pc' \in [CPU -> PcType]
    BY <1>1, <2>2, <2>5
  <2> QED BY <2>5, <2>6, <2>7, Zenon
<1>5. \A u \in TimerT : Untouched(u)
  BY <1>2, Zenon DEF Untouched
<1>6. x # NULL
  BY <1>1, <1>2, <1>3
<1>7. Types'
  <2>1. TypeOK'
    BY <1>2, Zenon DEF IInv, Types, TypeOK
  <2>2. \A d \in CPU : pc'[d].at = "idle" <=> pc'[d].timer = NULL
    <3>1. pc'[c].at # "idle" /\ pc'[c].timer # NULL
      BY <1>4, <1>6
    <3> QED BY <1>1, <1>4, <3>1, Zenon
  <2> QED BY <1>2, <1>4, <2>1, <2>2, Zenon DEF IInv, Types, PcType
<1>8. /\ Remaining' = Remaining /\ Queue(c)' = Queue(c) /\ Lag(c)' = Lag(c)
  BY <1>2, <1>4, Zenon DEF Remaining, Queue, Lag
<1>9. At(c, x)
  BY <1>3, Zenon DEF At
<1>10. x \in TimerT => /\ \A d \in CPU : d # c => ~At(d, x)
                       /\ owner'[x] = Off /\ PeriodIsShort(x)'
  <2>1. SUFFICES ASSUME x \in TimerT
                 PROVE  (\A d \in CPU : d # c => ~At(d, x)) /\ owner[x] = Off /\ PeriodIsShort(x)'
    BY <1>2, Zenon
  <2>2. \A d \in CPU : d # c => ~At(d, x)
    BY <1>9, <2>1, Zenon DEF IInv, InOnePlace
  <2>3. owner[x] = Off
    BY <1>9, <2>1, Zenon DEF IInv, BeingSet
  <2>4. PeriodIsShort(x)'
    BY <1>2, <2>1, Zenon DEF IInv, PeriodsAreShort, PeriodIsShort
  <2> QED BY <2>2, <2>3, <2>4, Zenon
<1>11. \A u \in TimerT : At(c, u)' => At(c, u) \/ u = x
  BY <1>4, <1>8, Zenon DEF At
<1>12. Ordered(timer_queue'[c], Remaining')
  BY <1>2, <1>8, Zenon DEF IInv, InOrder
<1>13. ASSUME NEW u \in Queue(c)' PROVE InTime(u)'
  <2>1. InTime(u)
    BY <1>8, Zenon DEF IInv, Waiting
  <2> QED BY <1>2, <1>8, <2>1, Zenon DEF InTime, NotEarly
<1>14. TickingOn(c)'
  <2>1. pc[c].at # "idle"
    BY <1>2
  <2>2. TickingOn(c)
    BY <2>1, Zenon DEF IInv, Ticking
  <2> QED BY <1>8, <2>2, Zenon DEF TickingOn
<1>15. ASSUME NEW u \in TimerT, pc'[c].timer = u PROVE HandlingOf(c, u)'
  <2>1. HandlingOf(c, u)
    BY <1>3, <1>4, <1>15, Zenon DEF IInv, Handling
  <2>2. pc'[c].at # "dequeued"
    BY <1>4
  <2> QED BY <1>2, <1>8, <2>1, <2>2, Zenon DEF HandlingOf
<1>16. \A d \in CPU : d # c => /\ pc'[d] = pc[d] /\ hw'[d] = hw[d]
                               /\ timer_queue'[d] = timer_queue[d]
                               /\ x \in TimerT => ~At(d, x)
  BY <1>2, <1>4, <1>10, Zenon
<1>17. pc'[c].at # "idle"
  BY <1>4
<1>18. StepOn(c, x)
  BY <1>2, <1>5, <1>7, <1>10, <1>11, <1>12, <1>13, <1>14, <1>15, <1>16, <1>17, Zenon DEF StepOn
<1> QED BY <1>18, StepOfOne, Zenon
-----------------------------------------------------------------------------
\* timer_tick() after the callback.

\* The next time of a periodic timer is at most its period after the time n of the tick, and not
\* before it.
LEMMA NextPeriod ==
  ASSUME Given, NEW a \in Time, NEW p \in Time, NEW n \in Time, NEW m \in Time, Short(p),
         NEW o \in Int, o = Diff(a, n), -MaxLate <= o, o <= 0,
         NEW lag \in Int, lag = Diff(m, n), 0 <= lag, lag <= MaxLate,
         NEW s, s = IF TIME_LT(Plus(a, p), n) THEN Plus(n, p) ELSE Plus(a, p)
  PROVE  s \in Time /\ \E w \in Int : 0 <= w /\ w <= p /\ Diff(s, m) = w - lag
<1>1. p \in Int /\ 0 <= p /\ p < Half /\ Half \in Int /\ MaxLate \in Int /\ 2 * MaxLate < Half
  BY Bounds DEF Time, Short
<1>2. Diff(Plus(n, p), n) = p /\ Plus(n, p) \in Time
  BY JustSet, Zenon
<1>3. PICK e \in Int : e = o + p /\ -Half <= e /\ e < Half
  <2>1. o + p \in Int /\ -Half <= o + p /\ o + p < Half
    BY <1>1
  <2> QED BY <2>1, Zenon
<1>4. Diff(Plus(a, p), n) = e /\ Plus(a, p) \in Time
  <2>1. TimerAssumption /\ e = Diff(a, n) + p
    BY <1>3, Bounds, Zenon
  <2>2. Plus(a, p) \in Time
    BY <2>1, Later, Zenon
  <2> QED BY <1>3, <2>1, <2>2, Postponed
<1>5. s \in Time
  BY <1>2, <1>4, Zenon
<1>6. PICK w \in Int : 0 <= w /\ w <= p /\ Diff(s, n) = w
  <2>1. CASE e < 0
    <3>1. s = Plus(n, p)
      BY <1>4, <2>1, Zenon DEF TIME_LT
    <3>2. p \in Int /\ 0 <= p /\ p <= p
      BY <1>1
    <3> QED BY <1>2, <3>1, <3>2, Zenon
  <2>2. CASE ~(e < 0)
    <3>1. s = Plus(a, p)
      BY <1>4, <2>2, Zenon DEF TIME_LT
    <3>2. 0 <= e /\ e <= p
      BY <1>1, <1>3, <2>2
    <3> QED BY <1>4, <3>1, <3>2, Zenon
  <2> QED BY <2>1, <2>2, Zenon
<1>7. PICK x \in Int : x = w - lag /\ x = Diff(s, n) - Diff(m, n) /\ -Half <= x /\ x < Half
  <2>1. w - lag \in Int /\ -Half <= w - lag /\ w - lag < Half
    BY <1>1, <1>6
  <2> QED BY <1>6, <2>1, Zenon
<1>8. Diff(s, m) = x
  <2>1. TimerAssumption
    BY Bounds, Zenon
  <2> QED BY <1>5, <1>7, <2>1, Between
<1> QED BY <1>5, <1>6, <1>7, <1>8, Zenon

\* A timer that is out of the queue, and was due at most MaxLate before the tick for n.
DueFor(c, t, n) ==
  /\ TickingOn(c) /\ t \notin Queue(c) /\ callback[t] /\ early[t] = 0
  /\ periodic_time[t] \in Time /\ Short(periodic_time[t])
  /\ \E lag \in Int : lag = Lag(c) /\ lag = Diff(now, n) /\ 0 <= lag /\ lag <= MaxLate
  /\ \E o \in Int : o = Diff(scheduled_time[t], n) /\ -MaxLate <= o /\ o <= 0

\* The timer that the callback has returned from is one, when it goes back into the queue.
LEMMA WasDue ==
  ASSUME Given, IInv, NEW c \in CPU, NEW t \in TimerT, NEW n \in Time, n = pc[c].now,
         CallbackRuns(c, t), tick_requeues(c, t)
  PROVE  DueFor(c, t, n)
<1>1. /\ now \in Time /\ timer_queue \in [CPU -> Seq(TimerT)]
      /\ scheduled_time \in [TimerT -> Time] /\ periodic_time \in [TimerT -> Time]
      /\ callback \in [TimerT -> BOOLEAN] /\ Remaining \in [TimerT -> Int]
  BY Typed, Zenon DEF IInv
<1>2. periodic_time[t] \in Time /\ Short(periodic_time[t]) /\ callback[t]
  <2>1. periodic_time[t] \in Time /\ periodic_time[t] > 0
    BY <1>1, Zenon DEF tick_requeues
  <2>2. periodic_time[t] # 0
    BY <2>1 DEF Time
  <2>3. PeriodIsShort(t)
    BY Zenon DEF IInv, PeriodsAreShort
  <2> QED BY <1>1, <2>1, <2>2, <2>3, Zenon DEF PeriodIsShort
<1>3. t \notin Queue(c)
  BY <1>1, QueuedIs, Zenon DEF tick_requeues
<1>4. TickingOn(c) /\ HandlingOf(c, t)
  <2>1. pc[c].at # "idle" /\ pc[c].timer = t
    BY DEF CallbackRuns
  <2> QED BY <2>1, Zenon DEF IInv, Ticking, Handling
<1>5. PICK lag \in Int : lag = Lag(c) /\ lag = Diff(now, n) /\ 0 <= lag /\ lag <= MaxLate
  <2>1. Diff(now, n) \in Int
    BY <1>1, Bounds, Distance, Zenon
  <2> QED BY <1>4, <2>1, Zenon DEF TickingOn, Lag
<1>6. \E o \in Int : o = Diff(scheduled_time[t], n) /\ -MaxLate <= o /\ o <= 0
  <2>1. PICK x \in Int : x = Remaining[t] /\ x = Diff(scheduled_time[t], now)
    BY <1>1, Zenon DEF Remaining
  <2>2. -MaxLate <= x + lag /\ x + lag <= 0
    BY <1>2, <1>3, <1>4, <1>5, <2>1, Zenon DEF HandlingOf
  <2>3. x + MaxLate < Half
    BY <1>5, <2>2, Bounds
  <2>4. PICK a \in Time : a = scheduled_time[t]
    BY <1>1, Zenon
  <2>5. Diff(a, n) = x + lag
    BY <1>1, <1>5, <2>1, <2>2, <2>3, <2>4, Earlier
  <2>6. x + lag \in Int
    OBVIOUS
  <2> QED BY <2>2, <2>4, <2>5, <2>6, Zenon
<1>7. early[t] = 0
  BY <1>2, <1>3, <1>4, Zenon DEF HandlingOf
<1> QED BY <1>2, <1>3, <1>4, <1>5, <1>6, <1>7, Zenon DEF DueFor

\* The time a periodic timer gets after its callback.
NextTime(t, n) ==
  IF TIME_LT(Plus(scheduled_time[t], periodic_time[t]), n)
  THEN Plus(n, periodic_time[t]) ELSE Plus(scheduled_time[t], periodic_time[t])

\* The times, the queue and the distances after that.
GoesBack(c, t, n, sched, z, r) ==
  /\ n = pc[c].now
  /\ sched = [scheduled_time EXCEPT ![t] = NextTime(t, n)]
  /\ z = insert_timer_in_queue(timer_queue[c], t, sched)
  /\ r = Ahead(sched, now)

\* It can be compared with the times in the queue.
LEMMA RequeueGap ==
  ASSUME Given, NEW p \in Time, Short(p), NEW lag \in Int, 0 <= lag, lag <= MaxLate,
         NEW w \in Int, 0 <= w, w <= p
  PROVE  /\ w - lag \in Int /\ Short(w - lag) /\ -MaxLate <= (w - lag) + lag
         /\ \A y \in Int : Short(y) /\ -MaxLate <= y + lag =>
              -Half <= y - (w - lag) /\ y - (w - lag) < Half
<1>1. /\ p \in Int /\ MaxLate \in Nat /\ Half \in Int
      /\ p + MaxLate < Half /\ p + 2 * MaxLate <= Half
  BY Bounds DEF Short, Time
<1>2. w - lag \in Int /\ w - lag <= p /\ Short(w - lag) /\ -MaxLate <= (w - lag) + lag
  BY <1>1 DEF Short
<1>3. ASSUME NEW y \in Int, Short(y), -MaxLate <= y + lag
      PROVE  -Half <= y - (w - lag) /\ y - (w - lag) < Half
  <2>1. y + MaxLate < Half
    BY <1>3, Zenon DEF Short
  <2> QED BY <1>1, <1>3, <2>1
<1> QED BY <1>2, <1>3, Zenon

\* A periodic timer goes back into the queue of its processor, in order.
LEMMA Requeued ==
  ASSUME Given, IInv, NEW c \in CPU, NEW t \in TimerT, NEW n \in Time,
         CallbackRuns(c, t), tick_requeues(c, t),
         NEW sched, NEW z, NEW r, GoesBack(c, t, n, sched, z, r)
  PROVE  /\ z \in Seq(TimerT) /\ sched \in [TimerT -> Time] /\ r \in [TimerT -> Int]
         /\ \A u \in TimerT : u # t => sched[u] = scheduled_time[u]
         /\ Ordered(z, r)
         /\ \A u \in Elems(z) : /\ u \in Queue(c) \/ u = t
                                /\ Short(r[u]) /\ -MaxLate <= r[u] + Lag(c)
                                /\ callback[u] /\ (early[u] = 0 \/ early[u] <= r[u])
<1>1. /\ now \in Time /\ timer_queue \in [CPU -> Seq(TimerT)]
      /\ scheduled_time \in [TimerT -> Time] /\ Remaining \in [TimerT -> Int]
  BY Typed, Zenon DEF IInv
<1>2. /\ TickingOn(c) /\ t \notin Queue(c) /\ callback[t] /\ early[t] = 0
      /\ periodic_time[t] \in Time /\ Short(periodic_time[t])
      /\ \E lag \in Int : lag = Lag(c) /\ lag = Diff(now, n) /\ 0 <= lag /\ lag <= MaxLate
      /\ \E o \in Int : o = Diff(scheduled_time[t], n) /\ -MaxLate <= o /\ o <= 0
  <2>1. n = pc[c].now
    BY Zenon DEF GoesBack
  <2>2. DueFor(c, t, n)
    BY <2>1, WasDue, Zenon
  <2> QED BY <2>2, Zenon DEF DueFor
<1>3. PICK p \in Time : p = periodic_time[t] /\ Short(p)
  BY <1>2, Zenon
<1>4. PICK lag \in Int : lag = Lag(c) /\ lag = Diff(now, n) /\ 0 <= lag /\ lag <= MaxLate
  BY <1>2, Zenon
<1>5. PICK s \in Time, w \in Int : s = NextTime(t, n) /\ 0 <= w /\ w <= p /\ Diff(s, now) = w - lag
  <2>1. PICK a \in Time, o \in Int : /\ a = scheduled_time[t] /\ o = Diff(a, n)
                                     /\ -MaxLate <= o /\ o <= 0
    BY <1>1, <1>2, Zenon
  <2>2. PICK s : s = IF TIME_LT(Plus(a, p), n) THEN Plus(n, p) ELSE Plus(a, p)
    BY Zenon
  <2>3. s = NextTime(t, n)
    BY <1>3, <2>1, <2>2, Zenon DEF NextTime
  <2>4. s \in Time /\ \E w \in Int : 0 <= w /\ w <= p /\ Diff(s, now) = w - lag
    BY <1>1, <1>3, <1>4, <2>1, <2>2, NextPeriod
  <2> QED BY <2>3, <2>4, Zenon
<1>6. /\ sched \in [TimerT -> Time] /\ sched[t] = s
       /\ \A u \in TimerT : u # t => sched[u] = scheduled_time[u]
  <2>1. sched = [scheduled_time EXCEPT ![t] = s]
    BY <1>5, Zenon DEF GoesBack
  <2> QED BY <1>1, <2>1
<1>7. r \in [TimerT -> Int] /\ r[t] = w - lag /\ \A u \in TimerT : u # t => r[u] = Remaining[u]
  <2>1. \A u \in TimerT : r[u] = Diff(sched[u], now)
    BY Zenon DEF Ahead, GoesBack
  <2>2. ASSUME NEW u \in TimerT PROVE Diff(sched[u], now) \in Int
    <3>1. sched[u] \in Time
      BY <1>6
    <3> QED BY <1>1, <3>1, Bounds, Distance, Zenon
  <2>3. r \in [TimerT -> Int]
    BY <2>2, Zenon DEF Ahead, GoesBack
  <2>4. \A u \in TimerT : u # t => r[u] = Remaining[u]
    BY <1>6, <2>1, Zenon DEF Remaining
  <2> QED BY <1>5, <1>6, <2>1, <2>3, <2>4, Zenon
<1>8. /\ w - lag \in Int /\ Short(w - lag) /\ -MaxLate <= (w - lag) + lag
      /\ \A y \in Int : Short(y) /\ -MaxLate <= y + lag =>
           -Half <= y - (w - lag) /\ y - (w - lag) < Half
  BY <1>3, <1>4, <1>5, RequeueGap, Zenon
<1>9. ASSUME NEW u \in Queue(c)
       PROVE  /\ u \in TimerT /\ u # t /\ r[u] = Remaining[u]
              /\ -Half <= r[u] - r[t] /\ r[u] - r[t] < Half
              /\ Short(r[u]) /\ -MaxLate <= r[u] + lag
  <2>1. PICK y \in Int : y = Remaining[u] /\ Short(y) /\ u \in TimerT
    BY NotTooLate, Zenon
  <2>2. -MaxLate <= y + lag
    BY <1>2, <1>4, <2>1, Zenon DEF TickingOn
  <2>3. -Half <= y - (w - lag) /\ y - (w - lag) < Half
    BY <1>8, <2>1, <2>2, Zenon
  <2> QED BY <1>2, <1>7, <2>1, <2>2, <2>3, Zenon
<1>10. z \in Seq(TimerT) /\ Ordered(z, r) /\ Elems(z) = Elems(timer_queue[c]) \cup {t}
  <2>1. timer_queue[c] \in Seq(TimerT) /\ TimerAssumption /\ t \notin Elems(timer_queue[c])
    BY <1>1, <1>2, Bounds, Zenon DEF Queue
  <2>2. Ordered(timer_queue[c], r)
    <3>1. Ordered(timer_queue[c], Remaining)
      BY Zenon DEF IInv, InOrder
    <3>2. \A u \in Elems(timer_queue[c]) : r[u] = Remaining[u]
      BY <1>9, Zenon DEF Queue
    <3> QED BY <3>1, <3>2, OrderedAgain, Zenon
  <2>3. \A u \in Elems(timer_queue[c]) : -Half <= r[u] - r[t] /\ r[u] - r[t] < Half
    BY <1>9, Zenon DEF Queue
  <2>4. r = Ahead(sched, now) /\ z = insert_timer_in_queue(timer_queue[c], t, sched)
    BY Zenon DEF GoesBack
  <2>5. now \in Time /\ sched \in [TimerT -> Time] /\ r \in [TimerT -> Int]
    BY <1>1, <1>6, <1>7, Zenon
  <2>6. Comparable(timer_queue[c], t, sched, now, r)
    BY <2>1, <2>2, <2>3, <2>4, Zenon DEF Comparable
  <2> QED BY <2>1, <2>4, <2>5, <2>6, QueueInsert, Zenon
<1>11. ASSUME NEW u \in Elems(z)
       PROVE  /\ u \in Queue(c) \/ u = t
              /\ Short(r[u]) /\ -MaxLate <= r[u] + Lag(c)
              /\ callback[u] /\ (early[u] = 0 \/ early[u] <= r[u])
  <2>1. CASE u = t
    BY <1>2, <1>4, <1>7, <1>8, <2>1, Zenon
  <2>2. CASE u # t
    <3>1. u \in Queue(c)
      BY <1>10, <2>2, Zenon DEF Queue
    <3>2. InTime(u)
      BY <3>1, Zenon DEF IInv, Waiting
    <3> QED BY <1>4, <1>9, <3>1, <3>2, Zenon DEF InTime, NotEarly
  <2> QED BY <2>1, <2>2, Zenon
<1> QED BY <1>6, <1>7, <1>10, <1>11, Zenon
\* What timer_tick() does after the callback, as far as the next one or its end, keeps the invariant.
LEMMA KeptByReturn ==
  ASSUME Given, IInv, NEW c \in CPU, tick_return(c)
  PROVE  IInv'
<1>1. /\ now \in Time /\ timer_queue \in [CPU -> Seq(TimerT)]
      /\ scheduled_time \in [TimerT -> Time] /\ hw \in [CPU -> Off..(Wrap - 1)]
      /\ pc \in [CPU -> PcType] /\ (pc[c].at = "idle" <=> pc[c].timer = NULL)
      /\ Remaining \in [TimerT -> Int]
  BY Typed, Zenon DEF IInv
<1>2. pc[c].at = "called" /\ pc[c].at # "idle"
  <2>1. pc[c].at = "called"
    BY Zenon DEF tick_return
  <2> QED BY <2>1
<1>3. PICK t \in TimerT, n \in Time : t = pc[c].timer /\ n = pc[c].now
  <2>1. pc[c] \in PcType /\ pc[c].timer # NULL
    BY <1>1, <1>2, Zenon
  <2>2. pc[c].timer \in TimerT /\ pc[c].now \in Time
    BY <2>1 DEF PcType
  <2> QED BY <2>2, Zenon
<1>4. CallbackRuns(c, t)
  BY <1>2, <1>3, Zenon DEF CallbackRuns
<1>5. TickingOn(c)
  BY <1>2, Zenon DEF IInv, Ticking
<1>6. PICK lag \in Int : lag = Lag(c) /\ lag = Diff(now, n) /\ 0 <= lag /\ lag <= MaxLate
  <2>1. Diff(now, n) \in Int
    BY <1>1, Bounds, Distance, Zenon
  <2>2. Lag(c) = Diff(now, n)
    BY <1>3, Zenon DEF Lag
  <2> QED BY <1>5, <2>1, <2>2, Zenon DEF TickingOn
<1>7. /\ now' = now /\ owner' = owner /\ periodic_time' = periodic_time
      /\ callback' = callback /\ early' = early
  BY Zenon DEF tick_return
<1>8. CASE tick_requeues(c, t)
  <2>1. PICK sched : sched = [scheduled_time EXCEPT ![t] = NextTime(t, n)]
    BY Zenon
  <2>2. PICK z : z = insert_timer_in_queue(timer_queue[c], t, sched)
    BY Zenon
  <2>3. PICK r : r = Ahead(sched, now)
    BY Zenon
  <2>4. GoesBack(c, t, n, sched, z, r)
    BY <1>3, <2>1, <2>2, <2>3, Zenon DEF GoesBack
  <2>5. scheduled_time' = sched /\ tick_loop(c, n, z, sched, hw)
    BY <1>3, <1>8, <2>1, <2>2, Zenon DEF tick_return, NextTime
  <2>6. /\ z \in Seq(TimerT) /\ sched \in [TimerT -> Time] /\ r \in [TimerT -> Int]
        /\ \A u \in TimerT : u # t => sched[u] = scheduled_time[u]
        /\ Ordered(z, r)
        /\ \A u \in Elems(z) : /\ u \in Queue(c) \/ u = t
                               /\ Short(r[u]) /\ -MaxLate <= r[u] + Lag(c)
                               /\ callback[u] /\ (early[u] = 0 \/ early[u] <= r[u])
    BY <1>4, <1>8, <2>4, Requeued
  <2>7. LoopOn(c, n, z, sched, hw, r, t, lag)
    BY <1>3, <1>6, <1>7, <2>3, <2>5, <2>6, Zenon DEF LoopOn
  <2> QED BY <1>1, <2>6, <2>7, KeptByLoop, Zenon
<1>9. CASE ~tick_requeues(c, t)
  <2>1. scheduled_time' = scheduled_time /\ tick_loop(c, n, timer_queue[c], scheduled_time, hw)
    BY <1>3, <1>9, Zenon DEF tick_return
  <2>2. /\ timer_queue[c] \in Seq(TimerT) /\ Remaining = Ahead(scheduled_time, now)
        /\ Ordered(timer_queue[c], Remaining)
    BY <1>1, Zenon DEF Remaining, Ahead, IInv, InOrder
  <2>3. ASSUME NEW u \in Elems(timer_queue[c])
        PROVE  /\ u \in Queue(c)
               /\ Short(Remaining[u]) /\ -MaxLate <= Remaining[u] + lag
               /\ callback[u] /\ (early[u] = 0 \/ early[u] <= Remaining[u])
    <3>1. u \in Queue(c)
      BY Zenon DEF Queue
    <3>2. InTime(u)
      BY <3>1, Zenon DEF IInv, Waiting
    <3>3. -MaxLate <= Remaining[u] + lag
      BY <1>5, <1>6, <3>1, Zenon DEF TickingOn
    <3> QED BY <3>1, <3>2, <3>3, Zenon DEF InTime, NotEarly
  <2>4. LoopOn(c, n, timer_queue[c], scheduled_time, hw, Remaining, t, lag)
    BY <1>3, <1>6, <1>7, <2>1, <2>2, <2>3, Zenon DEF LoopOn
  <2> QED BY <1>1, <2>2, <2>4, KeptByLoop, Zenon
<1> QED BY <1>8, <1>9, Zenon
-----------------------------------------------------------------------------
\* The clock.

\* A tick later, a time that was less than half the range ago is a tick less ahead.
LEMMA OneTick ==
  ASSUME Given, NEW x \in Time, NEW m \in Time, NEW d \in Int, d = Diff(x, m), -Half < d
  PROVE  Plus(m, 1) \in Time /\ Diff(x, Plus(m, 1)) = d - 1
<1>1. TimerAssumption /\ 1 \in Time /\ Wrap \in Nat /\ Half \in Nat /\ Wrap = 2 * Half
  BY Bounds, Zenon
<1>2. PICK y \in Int : /\ y = Plus(m, 1) /\ y \in Time
                       /\ y = m + 1 \/ y = m + 1 - Wrap
  <2>1. Plus(m, 1) \in Time /\ (Plus(m, 1) = m + 1 \/ Plus(m, 1) = m + 1 - Wrap)
    BY <1>1, Later, Zenon
  <2>2. Plus(m, 1) \in Int
    BY <2>1 DEF Time
  <2> QED BY <2>1, <2>2, Zenon
<1>3. d < Half /\ (x - m = d \/ x - m = d + Wrap \/ x - m = d - Wrap)
  BY <1>1, Distance, Zenon
<1>4. x \in Int /\ m \in Int
  BY DEF Time
<1>5. PICK e \in Int : e = d - 1 /\ -Half <= e /\ e < Half /\ Congruent(x - y, e)
  <2>1. d - 1 \in Int /\ -Half <= d - 1 /\ d - 1 < Half /\ Congruent(x - y, d - 1)
    BY <1>1, <1>2, <1>3, <1>4 DEF Congruent
  <2> QED BY <2>1, Zenon
<1>6. Diff(x, y) = e
  BY <1>1, <1>2, <1>5, DistanceIs, Zenon
<1> QED BY <1>2, <1>5, <1>6, Zenon

\* The time stamp of a timer that is being set is as old as the time it has lost.
LEMMA StampAge ==
  ASSUME Given, NEW s \in Time, NEW m \in Time, NEW o \in Int, NEW d \in Int, d = Diff(s, m),
         d <= o, o - d <= MaxLate
  PROVE  (m - (s - o)) % Wrap = o - d
<1>1. TimerAssumption /\ Wrap \in Nat /\ Half \in Nat /\ Wrap = 2 * Half /\ MaxLate \in Nat
      /\ 2 * MaxLate < Half
  BY Bounds, Zenon
<1>2. s \in Int /\ m \in Int
  BY DEF Time
<1>3. s - m = d \/ s - m = d + Wrap \/ s - m = d - Wrap
  BY <1>1, Distance, Zenon
<1>4. PICK y \in Time : y = o - d
  <2>1. o - d \in Time
    BY <1>1 DEF Time
  <2> QED BY <2>1, Zenon
<1>5. PICK x \in Int : x = m - (s - o) /\ Congruent(x, y)
  <2>1. m - (s - o) \in Int /\ Congruent(m - (s - o), y)
    BY <1>1, <1>2, <1>3, <1>4 DEF Congruent
  <2> QED BY <2>1, Zenon
<1>6. x % Wrap = y
  BY <1>1, <1>5, Truncated, Zenon
<1> QED BY <1>4, <1>5, <1>6, Zenon

\* Numbers that are below others by one less.
LEMMA EarlyTick ==
  ASSUME NEW e \in Nat, NEW d \in Int, NEW e2, e2 = (IF e > 0 THEN e - 1 ELSE 0), e = 0 \/ e <= d
  PROVE  e2 = 0 \/ e2 <= d - 1
OBVIOUS
\* A tick of the clock keeps the invariant.
LEMMA KeptByClock ==
  ASSUME Given, IInv, Clock
  PROVE  IInv'
<1>1. /\ now \in Time /\ timer_queue \in [CPU -> Seq(TimerT)]
      /\ scheduled_time \in [TimerT -> Time] /\ hw \in [CPU -> Off..(Wrap - 1)]
      /\ owner \in [TimerT -> Off..(Wrap - 1)] /\ early \in [TimerT -> Time]
      /\ pc \in [CPU -> PcType] /\ Remaining \in [TimerT -> Int]
      /\ \A c \in CPU : pc[c].at = "idle" <=> pc[c].timer = NULL
  BY Typed, Zenon DEF IInv
<1>2. /\ now' = Plus(now, 1)
      /\ timer_queue' = timer_queue /\ scheduled_time' = scheduled_time
      /\ periodic_time' = periodic_time /\ callback' = callback /\ owner' = owner /\ pc' = pc
  BY Zenon DEF Clock
<1>3. hw' = [c \in CPU |-> IF hw[c] > 0 THEN hw[c] - 1 ELSE hw[c]]
  BY Zenon DEF Clock
<1>4. early' = [t \in TimerT |-> IF early[t] > 0 THEN early[t] - 1 ELSE 0]
  BY Zenon DEF Clock
<1>5. \A c \in CPU : /\ pc[c].at = "idle" => hw[c] # 0
                     /\ pc[c].at # "idle" => (now - pc[c].now) % Wrap < MaxLate
  BY Zenon DEF Clock, ThreadRuns
<1>6. \A t \in TimerT : owner[t] # Off => (now - (scheduled_time[t] - owner[t])) % Wrap < MaxLate
  BY Zenon DEF Clock
<1>7. now' \in Time
  BY <1>1, <1>2, Bounds, Later, Zenon
<1>8. ASSUME NEW t \in TimerT, -Half < Remaining[t] PROVE Remaining'[t] = Remaining[t] - 1
  <2>1. PICK d \in Int, x \in Time : d = Remaining[t] /\ x = scheduled_time[t] /\ d = Diff(x, now)
    BY <1>1, Zenon DEF Remaining
  <2>2. Diff(x, Plus(now, 1)) = d - 1
    BY <1>1, <1>8, <2>1, OneTick, Zenon
  <2> QED BY <1>2, <2>1, <2>2, Zenon DEF Remaining
<1>9. ASSUME NEW t \in TimerT, NotEarly(t), -Half < Remaining[t] PROVE NotEarly(t)'
  <2>1. PICK e \in Nat, d \in Int : e = early[t] /\ d = Remaining[t]
    <3>1. early[t] \in Nat /\ Remaining[t] \in Int
      BY <1>1 DEF Time
    <3> QED BY <3>1, Zenon
  <2>2. PICK e2 : e2 = early'[t] /\ e2 = IF e > 0 THEN e - 1 ELSE 0
    BY <1>4, <2>1, Zenon
  <2>3. e = 0 \/ e <= d
    BY <1>9, <2>1, Zenon DEF NotEarly
  <2>4. e2 = 0 \/ e2 <= d - 1
    BY <2>2, <2>3, EarlyTick, Zenon
  <2>5. Remaining'[t] = d - 1
    BY <1>8, <1>9, <2>1, Zenon
  <2> QED BY <2>2, <2>4, <2>5, Zenon DEF NotEarly
<1>10. \A c \in CPU : Queue(c)' = Queue(c) /\ \A t \in TimerT : At(c, t)' <=> At(c, t)
  BY <1>2, Zenon DEF Queue, At
<1>11. ASSUME NEW c \in CPU, NEW t \in Queue(c)
       PROVE  /\ t \in TimerT /\ Remaining[t] \in Int /\ -Half < Remaining[t]
              /\ Remaining'[t] = Remaining[t] - 1 /\ Short(Remaining'[t])
  <2>1. PICK d \in Int : d = Remaining[t] /\ Short(d) /\ -2 * MaxLate <= d /\ t \in TimerT
    BY NotTooLate, Zenon
  <2>2. -Half < d /\ d - 1 \in Int /\ d - 1 <= d
    BY <2>1, Bounds
  <2>3. Short(d - 1)
    BY <2>1, <2>2, Shorter
  <2> QED BY <1>8, <2>1, <2>2, <2>3, Zenon
<1>12. ASSUME NEW c \in CPU, pc[c].at # "idle"
       PROVE  /\ Lag(c) \in Int /\ 0 <= Lag(c) /\ Lag(c) < MaxLate /\ Lag(c)' = Lag(c) + 1
              /\ \A t \in Queue(c) : -MaxLate <= Remaining[t] + Lag(c)
  <2>1. PICK n \in Time : n = pc[c].now
    <3>1. pc[c].now \in Time
      BY <1>1 DEF PcType
    <3> QED BY <3>1, Zenon
  <2>2. PICK l \in Int : l = Lag(c) /\ l = Diff(now, n)
    <3>1. Diff(now, n) \in Int
      BY <1>1, Bounds, Distance, Zenon
    <3> QED BY <2>1, <3>1, Zenon DEF Lag
  <2>3. TickingOn(c)
    BY <1>12, Zenon DEF IInv, Ticking
  <2>4. 0 <= l /\ l <= MaxLate
    BY <2>2, <2>3, Zenon DEF TickingOn
  <2>5. l < MaxLate
    <3>1. Diff(now, n) >= 0
      BY <2>2, <2>4
    <3>2. (now - n) % Wrap = l
      BY <1>1, <2>2, <3>1, Bounds, TicksUntil, Zenon
    <3> QED BY <1>5, <1>12, <2>1, <3>2, Zenon
  <2>6. PICK e \in Int : e = l + 1 /\ e = Diff(now, n) + 1 /\ -Half <= e /\ e < Half
    <3>1. l + 1 \in Int /\ -Half <= l + 1 /\ l + 1 < Half
      BY <2>4, <2>5, Bounds
    <3> QED BY <2>2, <3>1, Zenon
  <2>7. Diff(Plus(now, 1), n) = e
    BY <1>1, <2>6, Bounds, Postponed
  <2>8. Lag(c)' = l + 1
    BY <1>2, <2>1, <2>6, <2>7, Zenon DEF Lag
  <2> QED BY <2>2, <2>3, <2>4, <2>5, <2>8, Zenon DEF TickingOn
<1>13. Types'
  <2>1. hw' \in [CPU -> Off..(Wrap - 1)]
    <3>1. ASSUME NEW c \in CPU
          PROVE  (IF hw[c] > 0 THEN hw[c] - 1 ELSE hw[c]) \in Off..(Wrap - 1)
      <4>1. hw[c] \in Off..(Wrap - 1)
        BY <1>1
      <4> QED BY <4>1, Bounds DEF Off
    <3> QED BY <1>3, <3>1, Zenon
  <2>2. early' \in [TimerT -> Time]
    <3>1. ASSUME NEW t \in TimerT
          PROVE  (IF early[t] > 0 THEN early[t] - 1 ELSE 0) \in Time
      <4>1. early[t] \in Time
        BY <1>1
      <4> QED BY <4>1, Bounds DEF Time
    <3> QED BY <1>4, <3>1, Zenon
  <2>3. TypeOK'
    BY <1>2, <1>7, <2>1, <2>2, Zenon DEF IInv, Types, TypeOK, Time
  <2> QED BY <1>2, <2>3, Zenon DEF IInv, Types
<1>14. InOrder'
  <2>1. ASSUME NEW c \in CPU PROVE Ordered(timer_queue[c], Remaining')
    <3>1. Ordered(timer_queue[c], Remaining) /\ timer_queue[c] \in Seq(TimerT)
      BY <1>1, Zenon DEF IInv, InOrder
    <3>2. \A u \in Elems(timer_queue[c]) : Remaining'[u] = Remaining[u] - 1
      BY <1>11, Zenon DEF Queue
    <3> QED BY <1>1, <3>1, <3>2, OrderedLater, Zenon
  <2> QED BY <1>2, <2>1, Zenon DEF InOrder
<1>15. InOnePlace'
  BY <1>10, StillInOnePlace, Zenon DEF IInv
<1>16. Waiting'
  <2>1. ASSUME NEW c \in CPU, NEW t \in Queue(c) PROVE InTime(t)'
    <3>1. InTime(t)
      BY Zenon DEF IInv, Waiting
    <3>2. NotEarly(t)'
      BY <1>9, <1>11, <3>1, Zenon DEF InTime
    <3> QED BY <1>2, <1>11, <3>1, <3>2, Zenon DEF InTime
  <2> QED BY <1>10, <2>1, Zenon DEF Waiting
<1>17. BeingSet'
  <2>1. ASSUME NEW t \in TimerT, owner[t] # Off PROVE Stamped(t)' /\ \A c \in CPU : ~At(c, t)'
    <3>1. Stamped(t) /\ \A c \in CPU : ~At(c, t)
      BY <2>1, Zenon DEF IInv, BeingSet
    <3>2. PICK o \in Int, d \in Int, s \in Time :
            o = owner[t] /\ d = Remaining[t] /\ s = scheduled_time[t]
      <4>1. owner[t] \in Int /\ Remaining[t] \in Int /\ scheduled_time[t] \in Time
        BY <1>1 DEF Off
      <4> QED BY <4>1, Zenon
    <3>3. o >= 0 /\ o - MaxLate <= d /\ d <= o
      BY <3>1, <3>2, Zenon DEF Stamped
    <3>4. -Half < d /\ o - d <= MaxLate
      BY <3>3, Bounds
    <3>5. (now - (s - o)) % Wrap = o - d
      <4>1. d = Diff(s, now)
        BY <3>2, Zenon DEF Remaining
      <4> QED BY <1>1, <3>3, <3>4, <4>1, StampAge, Zenon
    <3>6. o - d < MaxLate
      BY <1>6, <2>1, <3>2, <3>5, Zenon
    <3>7. o - MaxLate <= d - 1 /\ d - 1 <= o
      BY <3>3, <3>6, Bounds
    <3>8. Remaining'[t] = d - 1 /\ NotEarly(t)'
      BY <1>8, <1>9, <3>1, <3>2, <3>4, Zenon DEF Stamped
    <3>9. Stamped(t)'
      BY <1>2, <3>1, <3>2, <3>7, <3>8, Zenon DEF Stamped
    <3> QED BY <1>10, <3>1, <3>9, Zenon
  <2> QED BY <1>2, <2>1, Zenon DEF BeingSet
<1>18. PeriodsAreShort'
  BY <1>2, Zenon DEF IInv, PeriodsAreShort, PeriodIsShort
<1>19. Armed'
  <2>1. ASSUME NEW c \in CPU, pc[c].at = "idle", NEW t \in Queue(c)
        PROVE  hw'[c] >= 0 /\ hw'[c] - MaxLate <= Remaining'[t]
    <3>1. PICK h \in Int, d \in Int : h = hw[c] /\ d = Remaining[t]
      <4>1. hw[c] \in Int
        BY <1>1 DEF Off
      <4> QED BY <1>11, <4>1, Zenon
    <3>2. h >= 0 /\ h - MaxLate <= d /\ h # 0
      BY <1>5, <2>1, <3>1, Zenon DEF IInv, Armed, ArmedFor
    <3>3. h > 0 /\ h - 1 >= 0 /\ (h - 1) - MaxLate <= d - 1
      BY <3>2, Bounds
    <3>4. hw'[c] = h - 1
      BY <1>3, <3>1, <3>3, Zenon
    <3>5. Remaining'[t] = d - 1
      BY <1>11, <3>1, Zenon
    <3> QED BY <3>3, <3>4, <3>5, Zenon
  <2> QED BY <1>2, <1>10, <2>1, Zenon DEF Armed, ArmedFor
<1>20. Ticking'
  <2>1. ASSUME NEW c \in CPU, pc[c].at # "idle" PROVE TickingOn(c)'
    <3>1. PICK l \in Int : /\ l = Lag(c) /\ 0 <= l /\ l < MaxLate /\ Lag(c)' = l + 1
                           /\ \A t \in Queue(c) : -MaxLate <= Remaining[t] + l
      BY <1>12, <2>1, Zenon
    <3>2. 0 <= l + 1 /\ l + 1 <= MaxLate
      BY <3>1, Bounds
    <3>3. ASSUME NEW t \in Queue(c) PROVE -MaxLate <= Remaining'[t] + (l + 1)
      <4>1. PICK d \in Int : d = Remaining[t] /\ Remaining'[t] = d - 1
        BY <1>11, Zenon
      <4>2. -MaxLate <= d + l
        BY <3>1, <4>1, Zenon
      <4>3. -MaxLate <= (d - 1) + (l + 1)
        BY <4>2, Bounds
      <4> QED BY <4>1, <4>3, Zenon
    <3> QED BY <1>10, <3>1, <3>2, <3>3, Zenon DEF TickingOn
  <2> QED BY <1>2, <2>1, Zenon DEF Ticking
<1>21. Handling'
  <2>1. ASSUME NEW c \in CPU, NEW t \in TimerT, pc[c].timer = t PROVE HandlingOf(c, t)'
    <3>1. HandlingOf(c, t)
      BY <2>1, Zenon DEF IInv, Handling
    <3>2. pc[c].at # "idle"
      BY <1>1, <2>1, Bounds, Zenon DEF TimerAssumption
    <3>3. ASSUME callback[t], t \notin Queue(c)
          PROVE  /\ early'[t] = 0
                 /\ -MaxLate <= Remaining'[t] + Lag(c)' /\ Remaining'[t] + Lag(c)' <= 0
      <4>1. PICK l \in Int, d \in Int : /\ l = Lag(c) /\ l < MaxLate /\ Lag(c)' = l + 1
                                        /\ d = Remaining[t]
        BY <1>1, <1>12, <3>2, Zenon
      <4>2. early[t] = 0 /\ -MaxLate <= d + l /\ d + l <= 0
        BY <3>1, <3>3, <4>1, Zenon DEF HandlingOf
      <4>3. -Half < d
        BY <4>1, <4>2, Bounds
      <4>4. Remaining'[t] = d - 1
        BY <1>8, <4>1, <4>3, Zenon
      <4>5. -MaxLate <= (d - 1) + (l + 1) /\ (d - 1) + (l + 1) <= 0
        BY <4>2, Bounds
      <4>6. early'[t] = 0
        BY <1>4, <4>2
      <4> QED BY <4>1, <4>4, <4>5, <4>6, Zenon
    <3> QED BY <1>2, <1>10, <3>1, <3>3, Zenon DEF HandlingOf
  <2> QED BY <1>2, <2>1, Zenon DEF Handling
<1> QED BY <1>13, <1>14, <1>15, <1>16, <1>17, <1>18, <1>19, <1>20, <1>21, Zenon DEF IInv
\* timer_init() establishes the invariant: no timer is set, and no hardware timer.
LEMMA Initially ==
  ASSUME Given, timer_init
  PROVE  IInv
<1>1. /\ now = 0 /\ timer_queue = [c \in CPU |-> <<>>] /\ scheduled_time = [t \in TimerT |-> 0]
      /\ periodic_time = [t \in TimerT |-> 0] /\ callback = [t \in TimerT |-> FALSE]
      /\ hw = [c \in CPU |-> Off] /\ owner = [t \in TimerT |-> Off] /\ pc = [c \in CPU |-> Idle]
      /\ early = [t \in TimerT |-> 0]
  BY Zenon DEF timer_init
<1>2. \A c \in CPU : Queue(c) = {} /\ timer_queue[c] = <<>>
  <2>1. Elems(<<>>) = {}
    BY DEF Elems
  <2> QED BY <1>1, <2>1, Zenon DEF Queue
<1>3. \A c \in CPU : /\ pc[c].at = "idle" /\ pc[c].timer = NULL
                     /\ \A t \in TimerT : pc[c].timer # t /\ ~At(c, t)
  <2>1. Idle.at = "idle" /\ Idle.timer = NULL
    BY DEF Idle
  <2>2. NULL \notin TimerT
    BY Bounds, Zenon DEF TimerAssumption
  <2> QED BY <1>1, <1>2, <2>1, <2>2, Zenon DEF At
<1>4. TypeOK
  <2>1. /\ 0 \in 0..(Wrap - 1) /\ Off \in Off..(Wrap - 1)
        /\ <<>> \in Seq(TimerT) /\ 0 \in Periods \cup {0, 1}
    BY Bounds DEF Off
  <2> QED BY <1>1, <2>1, Zenon DEF TypeOK
<1>5. Types
  <2>1. <<>> \in Seq(TimerT)
    OBVIOUS
  <2>2. timer_queue \in [CPU -> Seq(TimerT)]
    BY <1>1, <2>1, Zenon
  <2>3. Idle \in [at : {"idle", "dequeued", "called"}, timer : TimerT \cup {NULL},
                  now : Time, periodic : BOOLEAN]
    <3>1. 0 \in Time
      BY Bounds
    <3> QED BY <3>1 DEF Idle
  <2>4. pc \in [CPU -> [at : {"idle", "dequeued", "called"}, timer : TimerT \cup {NULL},
                        now : Time, periodic : BOOLEAN]]
    BY <1>1, <2>3, Zenon
  <2> QED BY <1>3, <1>4, <2>2, <2>4, Zenon DEF Types
<1>6. InOrder
  <2>1. Len(<<>>) = 0 /\ 1..0 = {}
    OBVIOUS
  <2>2. Ordered(<<>>, Remaining)
    BY <2>1, Zenon DEF Ordered, Once
  <2> QED BY <1>2, <2>2, Zenon DEF InOrder
<1>7. InOnePlace /\ Waiting /\ Ticking /\ Handling
  BY <1>2, <1>3, Zenon DEF InOnePlace, Waiting, Ticking, Handling
<1>8. BeingSet /\ PeriodsAreShort /\ Armed
  BY <1>1, <1>2, Zenon DEF BeingSet, PeriodsAreShort, PeriodIsShort, Armed, ArmedFor
<1> QED BY <1>5, <1>6, <1>7, <1>8, Zenon DEF IInv

\* Every step keeps the invariant.
LEMMA KeptByNext ==
  ASSUME Given, IInv, [Next]_vars
  PROVE  IInv'
<1>1. CASE Next
  <2>1. ASSUME NEW c \in CPU, NEW t \in TimerT, NEW s \in Settings,
               \/ timer_set(c, t, s[1], s[2]) \/ callback_set(c, t, s[1], s[2])
        PROVE  IInv'
    BY <2>1, KeptBySet, KeptByCallbackSet, Zenon
  <2>2. ASSUME NEW c \in CPU, NEW t \in TimerT, timer_set_insert(c, t) \/ timer_cancel(c, t)
        PROVE  IInv'
    BY <2>2, KeptBySetInsert, KeptByCancel, Zenon
  <2>3. ASSUME NEW c \in CPU, timer_tick(c) \/ tick_call(c) \/ tick_return(c)
        PROVE  IInv'
    BY <2>3, KeptByTick, KeptByCall, KeptByReturn, Zenon
  <2>4. ASSUME Clock PROVE IInv'
    BY <2>4, KeptByClock, Zenon
  <2> QED BY <1>1, <2>1, <2>2, <2>3, <2>4, Zenon DEF Next
<1>2. CASE UNCHANGED vars
  <2>1. /\ now' = now /\ timer_queue' = timer_queue /\ scheduled_time' = scheduled_time
        /\ periodic_time' = periodic_time /\ callback' = callback /\ hw' = hw /\ owner' = owner
        /\ pc' = pc /\ early' = early
    BY <1>2 DEF vars
  <2>2. Remaining' = Remaining /\ \A c \in CPU : Queue(c)' = Queue(c) /\ Lag(c)' = Lag(c)
    BY <2>1, Zenon DEF Remaining, Queue, Lag
  <2>3. Types' /\ InOrder'
    BY <2>1, <2>2, Zenon DEF IInv, Types, TypeOK, InOrder
  <2>4. InOnePlace'
    BY <2>1, <2>2, StillInOnePlace, Zenon DEF IInv, At
  <2>5. Waiting' /\ PeriodsAreShort'
    BY <2>1, <2>2, Zenon DEF IInv, Waiting, InTime, NotEarly, PeriodsAreShort, PeriodIsShort
  <2>6. BeingSet'
    <3>1. \A t \in TimerT : Stamped(t)' <=> Stamped(t)
      BY <2>1, <2>2, Zenon DEF Stamped, NotEarly
    <3>2. \A c \in CPU : \A t \in TimerT : At(c, t)' <=> At(c, t)
      BY <2>1, <2>2, Zenon DEF At
    <3> QED BY <2>1, <3>1, <3>2, Zenon DEF IInv, BeingSet
  <2>7. Armed' /\ Ticking' /\ Handling'
    BY <2>1, <2>2, Zenon DEF IInv, Armed, ArmedFor, Ticking, TickingOn, Handling, HandlingOf
  <2> QED BY <2>3, <2>4, <2>5, <2>6, <2>7, Zenon DEF IInv
<1> QED BY <1>1, <1>2, Zenon

-----------------------------------------------------------------------------
\* What the properties ask for.

\* A timer that is queued is an element of a processor's queue.
LEMMA QueuedOn ==
  ASSUME Given, IInv, NEW t \in TimerT, Queued(t)
  PROVE  \E c \in CPU : t \in Queue(c)
BY Zenon DEF Queued, list_in_list, Queue, Elems

\* The timer that timer_tick() has taken off a queue is a timer.
LEMMA DequeuedTimer ==
  ASSUME Given, IInv, NEW c \in CPU, pc[c].at = "dequeued"
  PROVE  pc[c].timer \in TimerT
<1>1. pc[c] \in PcType /\ (pc[c].at = "idle" <=> pc[c].timer = NULL)
  BY Typed, Zenon DEF IInv
<1> QED BY <1>1 DEF PcType

\* A queued timer is not later than twice MaxLate.
LEMMA LateByLittle ==
  ASSUME Given, IInv
  PROVE  NoTimerIsLate
<1>1. ASSUME NEW t \in TimerT, Queued(t)
      PROVE  Diff(now, scheduled_time[t]) <= 2 * MaxLate
  <2>1. PICK c \in CPU : t \in Queue(c)
    BY <1>1, QueuedOn, Zenon
  <2>2. PICK d \in Int, s \in Time :
          d = Diff(s, now) /\ s = scheduled_time[t] /\ -2 * MaxLate <= d /\ now \in Time
    <3>1. now \in Time /\ scheduled_time[t] \in Time
      BY Typed DEF IInv
    <3> QED BY <2>1, <3>1, NotTooLate, Zenon DEF Remaining
  <2>3. -d <= 2 * MaxLate /\ d > -Half
    BY <2>2, Bounds
  <2>4. Diff(now, s) = -d
    BY <2>2, <2>3, Bounds, Opposite, Zenon
  <2> QED BY <2>2, <2>3, <2>4, Zenon
<1> QED BY <1>1, Zenon DEF NoTimerIsLate

\* The distance of two timers of a queue fits in half the range of the counter.
LEMMA Apart ==
  ASSUME Given, NEW d \in Int, NEW e \in Int,
         -2 * MaxLate <= d, d <= e, e + 2 * MaxLate <= Half
  PROVE  d - e \in Int /\ -Half <= d - e /\ d - e < Half /\ ~(d - e > 0)
<1>1. Half \in Nat /\ MaxLate \in Nat /\ 2 * MaxLate < Half
  BY Bounds, Zenon
<1> QED BY <1>1

\* The order of the distances from now is the order of the wrapping comparison: all times in a
\* queue are within half the range of the counter.
LEMMA SortedByTime ==
  ASSUME Given, IInv
  PROVE  QueuesAreSorted
<1>1. ASSUME NEW c \in CPU, NEW i \in 1..Len(timer_queue[c]), NEW j \in 1..Len(timer_queue[c]), i < j
      PROVE  ~TIME_GT(scheduled_time[timer_queue[c][i]], scheduled_time[timer_queue[c][j]])
  <2>1. PICK t \in Queue(c), u \in Queue(c) : t = timer_queue[c][i] /\ u = timer_queue[c][j]
    BY Zenon DEF Queue, Elems
  <2>2. Remaining[t] <= Remaining[u]
    BY <1>1, <2>1, Zenon DEF IInv, InOrder, Ordered
  <2>3. PICK d \in Int, a \in Time : /\ d = Diff(a, now) /\ a = scheduled_time[t]
                                     /\ d = Remaining[t] /\ -2 * MaxLate <= d
    <3>1. t \in TimerT /\ Remaining[t] \in Int /\ -2 * MaxLate <= Remaining[t]
      BY NotTooLate, Zenon
    <3>2. scheduled_time[t] \in Time
      BY <3>1, Typed DEF IInv
    <3> QED BY <3>1, <3>2, Zenon DEF Remaining
  <2>4. PICK e \in Int, b \in Time : /\ e = Diff(b, now) /\ b = scheduled_time[u]
                                     /\ e = Remaining[u] /\ e + 2 * MaxLate <= Half
    <3>1. u \in TimerT /\ Remaining[u] \in Int /\ Remaining[u] + 2 * MaxLate <= Half
      BY NotTooLate, Zenon DEF Short
    <3>2. scheduled_time[u] \in Time
      BY <3>1, Typed DEF IInv
    <3> QED BY <3>1, <3>2, Zenon DEF Remaining
  <2>5. d <= e
    BY <2>2, <2>3, <2>4, Zenon
  <2>6. PICK f \in Int : f = d - e /\ -Half <= f /\ f < Half /\ ~(f > 0)
    <3>1. d - e \in Int /\ -Half <= d - e /\ d - e < Half /\ ~(d - e > 0)
      <4>1. -2 * MaxLate <= d /\ e + 2 * MaxLate <= Half
        BY <2>3, <2>4, Zenon
      <4> QED BY <2>5, <4>1, Apart, Zenon
    <3> QED BY <3>1, Zenon
  <2>7. f = Diff(a, now) - Diff(b, now)
    BY <2>3, <2>4, <2>6, Zenon
  <2>8. now \in Time
    BY Typed, Zenon DEF IInv
  <2>9. Diff(a, b) = f
    BY <2>6, <2>7, <2>8, Bounds, Between, Zenon
  <2> QED BY <2>1, <2>3, <2>4, <2>6, <2>9, Zenon DEF TIME_GT
<1> QED BY <1>1, Zenon DEF QueuesAreSorted

\* No node is linked twice.
LEMMA LinkedOnce ==
  ASSUME Given, IInv
  PROVE  QueuedOnce
<1>1. ASSUME NEW c \in CPU, NEW d \in CPU, NEW i \in DOMAIN timer_queue[c],
             NEW j \in DOMAIN timer_queue[d], timer_queue[c][i] = timer_queue[d][j]
      PROVE  c = d /\ i = j
  <2>1. timer_queue[c] \in Seq(TimerT) /\ timer_queue[d] \in Seq(TimerT)
    BY Typed, Zenon DEF IInv
  <2>2. /\ i \in 1..Len(timer_queue[c]) /\ j \in 1..Len(timer_queue[d])
        /\ timer_queue[c][i] \in TimerT
    BY <2>1
  <2>3. timer_queue[c][i] \in Queue(c) /\ timer_queue[c][i] \in Queue(d)
    BY <1>1, <2>2, Zenon DEF Queue, Elems
  <2>4. c = d
    BY <2>2, <2>3, Zenon DEF IInv, InOnePlace, At
  <2>5. Once(timer_queue[c])
    BY Zenon DEF IInv, InOrder, Ordered
  <2> QED BY <1>1, <2>2, <2>4, <2>5, Zenon DEF Once
<1> QED BY <1>1, Zenon DEF QueuedOnce

-----------------------------------------------------------------------------
\* The theorems.

INSTANCE WellFoundedInduction

\* A set of numbers that is not empty has a least element, as the order of the numbers is well founded.
LEMMA First == LeastNumber
<1> SUFFICES ASSUME NEW n \in Nat, NEW G
             PROVE  \E j \in 1..(n + 1) : (\A k \in 1..(j - 1) : k \notin G) /\ (j <= n => j \in G)
  BY Zenon DEF LeastNumber
<1> DEFINE T == {j \in 1..(n + 1) : j <= n => j \in G}
<1>1. T \subseteq Nat /\ n + 1 \in T
  OBVIOUS
<1>2. PICK x \in T : \A y \in T : ~(<<y, x>> \in OpToRel(<, Nat))
  BY <1>1, WFMin, NatLessThanWellFounded, Zenon
<1>3. \A y \in T : ~(y < x)
  BY <1>1, <1>2, Zenon DEF OpToRel
<1>4. ASSUME NEW k \in 1..(x - 1) PROVE k \notin G
  <2>1. k \in 1..(n + 1) /\ k < x
    OBVIOUS
  <2> QED BY <1>3, <2>1
<1> QED BY <1>4

\* In every state that can be reached, the invariant holds.
THEOREM Invariance ==
  ASSUME Assumed
  PROVE  Spec => []IInv
<1>0. Given
  BY First, Zenon DEF Given
<1>1. timer_init => IInv
  BY <1>0, Initially, Zenon
<1>2. IInv /\ [Next]_vars => IInv'
  BY <1>0, KeptByNext, Zenon
<1> QED BY <1>1, <1>2, PTL DEF Spec

\* No timer waits for longer than twice MaxLate after it was due, the queues are sorted by the
\* wrapping comparison of insert_timer_in_queue() and timer_tick(), and no node is linked twice:
\* for any number of processors and timers, and any width of the counter.
THEOREM TimersFireInTimeAlways ==
  ASSUME Assumed
  PROVE  Spec => []TimersFireInTime
<1>0. Given
  BY First, Zenon DEF Given
<1>1. IInv => TimersFireInTime
  BY <1>0, LateByLittle, SortedByTime, LinkedOnce, Zenon DEF TimersFireInTime
<1> QED BY <1>1, Invariance, PTL

\* timer_tick() takes no timer off its queue before the delay it was set with has gone by, and a
\* timer that timer_cancel() has cleared is in no queue, periodic or not, until it is set again.
THEOREM FiresOnlyWhenDueAlways ==
  ASSUME Assumed
  PROVE  Spec => []FiresOnlyWhenDue
<1>0. Given
  BY First, Zenon DEF Given
<1>1. ASSUME IInv PROVE NeverEarly
  <2>1. ASSUME NEW c \in CPU, pc[c].at = "dequeued" PROVE early[pc[c].timer] = 0
    <3>1. PICK t \in TimerT : t = pc[c].timer
      BY <1>0, <1>1, <2>1, DequeuedTimer, Zenon
    <3>2. HandlingOf(c, t)
      BY <1>1, <3>1, Zenon DEF IInv, Handling
    <3> QED BY <2>1, <3>1, <3>2, Zenon DEF HandlingOf
  <2> QED BY <2>1, Zenon DEF NeverEarly
<1>2. ASSUME IInv PROVE CancelledStaysOut
  BY <1>0, <1>2, QueuedOn, Zenon DEF CancelledStaysOut, IInv, Waiting, InTime
<1>3. IInv => FiresOnlyWhenDue
  BY <1>1, <1>2, Zenon DEF FiresOnlyWhenDue
<1> QED BY <1>3, Invariance, PTL

\* The callback that timer_tick() calls after it has released the lock is one that was set.
THEOREM FiresWhatWasSetAlways ==
  ASSUME Assumed
  PROVE  Spec => []FiresWhatWasSet
<1>0. Given
  BY First, Zenon DEF Given
<1>1. ASSUME IInv PROVE FiresWhatWasSet
  <2>1. ASSUME NEW c \in CPU, pc[c].at = "dequeued" PROVE callback[pc[c].timer]
    <3>1. PICK t \in TimerT : t = pc[c].timer
      BY <1>0, <1>1, <2>1, DequeuedTimer, Zenon
    <3> QED BY <1>1, <2>1, <3>1, Zenon DEF IInv, Handling, HandlingOf
  <2> QED BY <2>1, Zenon DEF FiresWhatWasSet
<1>2. IInv => FiresWhatWasSet
  BY <1>1
<1> QED BY <1>2, Invariance, PTL

\* The assertion at the end of timer_tick() never fails: the timer it leaves at the head of the
\* queue is due later than the tick, even with the longest of the delays.
THEOREM TickNeverPanicsAlways ==
  ASSUME Assumed
  PROVE  Spec => []TickNeverPanics
<1>0. Given
  BY First, Zenon DEF Given
<1>1. ASSUME IInv PROVE TickNeverPanics
  <2>1. pc \in [CPU -> PcType]
    BY <1>0, <1>1, Typed, Zenon DEF IInv
  <2> QED BY <2>1 DEF PcType, TickNeverPanics
<1>2. IInv => TickNeverPanics
  BY <1>1
<1> QED BY <1>2, Invariance, PTL

=============================================================================
