----------------------------- MODULE CBufProofs -----------------------------
(***************************************************************************)
(* The circular buffer of lib/cbuf is a bounded FIFO for every size, any   *)
(* number of readers and reads and writes of any length: what cbuf_peek()  *)
(* shows changes by appending what is written and removing what is read.   *)
(***************************************************************************)
EXTENDS CBuf, SequenceTheorems, TLAPS

-----------------------------------------------------------------------------
\* Pointers.  Sums of a pointer and a length are below twice the size, so taking them modulo
\* the size subtracts it once at most.

Index == 0..(Size - 1)
Wrapped(a) == IF a < Size THEN a ELSE a - Size

\* What modpow2() does to such a sum.
LEMMA ModWraps ==
  ASSUME CBufAssumption, NEW a \in 0..(2 * Size - 1)
  PROVE  a % Size = Wrapped(a)
<1>1. Size \in Nat /\ Size > 0
  BY DEF CBufAssumption
<1>2. CASE a < Size
  BY <1>1, <1>2 DEF Wrapped
<1>3. CASE a >= Size
  <2>1. a - Size \in 0..(Size - 1) /\ a = (a - Size) + Size
    BY <1>1, <1>3
  <2>2. (a - Size) % Size = a - Size
    BY <1>1, <2>1
  <2>3. ((a - Size) + Size) % Size = (a - Size) % Size
    BY <1>1, <2>1
  <2> QED BY <1>1, <1>3, <2>1, <2>2, <2>3 DEF Wrapped
<1> QED BY <1>1, <1>2, <1>3

\* INC_POINTER()
LEMMA Increment ==
  ASSUME CBufAssumption, NEW p \in Index, NEW n \in 0..Size
  PROVE  INC_POINTER(p, n) = Wrapped(p + n) /\ INC_POINTER(p, n) \in Index
<1>1. Size \in Nat /\ Size > 0 /\ p + n \in 0..(2 * Size - 1)
  BY DEF CBufAssumption, Index
<1>2. (p + n) % Size = Wrapped(p + n)
  BY <1>1, ModWraps, Zenon
<1>3. Wrapped(p + n) \in Index
  BY <1>1 DEF Wrapped, Index
<1> QED BY <1>2, <1>3, Zenon DEF INC_POINTER

\* cbuf_space_used()
LEMMA Used ==
  ASSUME CBufAssumption, NEW h \in Index, NEW t \in Index
  PROVE  /\ cbuf_space_used(h, t) = IF h >= t THEN h - t ELSE h - t + Size
         /\ cbuf_space_used(h, t) \in Index
         /\ cbuf_space_avail(h, t) = Size - 1 - cbuf_space_used(h, t)
<1>1. Size \in Nat /\ Size > 0 /\ h \in Int /\ t \in Int
  BY DEF CBufAssumption, Index
<1>2. CASE h >= t
  <2>1. h - t \in 0..(Size - 1)
    BY <1>1, <1>2 DEF Index
  <2>2. (h - t) % Size = h - t
    BY <1>1, <2>1
  <2> QED BY <1>1, <1>2, <2>1, <2>2 DEF cbuf_space_used, cbuf_space_avail, Index
<1>3. CASE h < t
  <2>1. h - t + Size \in 0..(Size - 1) /\ h - t \in Int /\ h - t < 0 /\ h - t >= -Size
    BY <1>1, <1>3 DEF Index
  <2>2. (h - t) % Size = (h - t + Size) % Size
    BY <1>1, <2>1
  <2>3. (h - t + Size) % Size = h - t + Size
    BY <1>1, <2>1
  <2> QED BY <1>1, <1>3, <2>1, <2>2, <2>3 DEF cbuf_space_used, cbuf_space_avail, Index
<1> QED BY <1>1, <1>2, <1>3

\* What is used and what is free are natural numbers below the size.
LEMMA SpaceIsBounded ==
  ASSUME CBufAssumption, NEW h \in Index, NEW t \in Index
  PROVE  /\ cbuf_space_used(h, t) \in Nat /\ cbuf_space_used(h, t) < Size
         /\ cbuf_space_avail(h, t) \in Nat /\ cbuf_space_avail(h, t) < Size
<1>1. Size \in Nat /\ Size > 0
  BY DEF CBufAssumption
<1>2. PICK u \in Index : u = cbuf_space_used(h, t)
  BY Used, Zenon
<1>3. cbuf_space_avail(h, t) = Size - 1 - u
  BY <1>2, Used, Zenon
<1>4. u \in Nat /\ u < Size
  BY <1>1 DEF Index
<1>5. Size - 1 - u \in Nat /\ Size - 1 - u < Size
  BY <1>1, <1>4
<1> QED BY <1>2, <1>3, <1>4, <1>5, Zenon

\* What is in the buffer, the oldest byte first.
Contents(h, t, b) == [i \in 1..cbuf_space_used(h, t) |-> b[INC_POINTER(t, i - 1)]]

\* The two regions of cbuf_peek() are the contents.
LEMMA RegionsAreContents ==
  ASSUME CBufAssumption, NEW h \in Index, NEW t \in Index, NEW b
  PROVE  LET used == cbuf_space_used(h, t)
             first == IF used + t > Size THEN Size - t ELSE used
         IN  [i \in 1..used |-> IF i <= first THEN b[t + i - 1] ELSE b[i - first - 1]] =
               Contents(h, t, b)
<1> DEFINE first(u) == IF u + t > Size THEN Size - t ELSE u
           at(u, i) == IF i <= first(u) THEN b[t + i - 1] ELSE b[i - first(u) - 1]
<1>1. Size \in Nat /\ Size > 0
  BY DEF CBufAssumption
<1>2. PICK u \in Nat : u = cbuf_space_used(h, t) /\ u < Size
  BY SpaceIsBounded, Zenon
<1>3. ASSUME NEW i \in 1..u
      PROVE  at(u, i) = b[INC_POINTER(t, i - 1)]
  <2>1. INC_POINTER(t, i - 1) = Wrapped(t + (i - 1))
    BY <1>1, <1>2, Increment DEF Index
  <2>2. i <= first(u) <=> t + (i - 1) < Size
    BY <1>1, <1>2 DEF Index
  <2>3. i <= first(u) => Wrapped(t + (i - 1)) = t + i - 1
    BY <1>1, <1>2, <2>2, Zenon DEF Index, Wrapped
  <2>4. ~(i <= first(u)) => Wrapped(t + (i - 1)) = i - first(u) - 1
    BY <1>1, <1>2, <2>2 DEF Index, Wrapped
  <2> QED BY <2>1, <2>3, <2>4, Zenon
<1>4. Contents(h, t, b) = [i \in 1..u |-> b[INC_POINTER(t, i - 1)]]
  BY <1>2, Zenon DEF Contents
<1>5. Contents(h, t, b) = [i \in 1..u |-> at(u, i)]
  BY <1>3, <1>4, Zenon
<1> QED BY <1>2, <1>5, Zenon

-----------------------------------------------------------------------------
\* Writing

\* A turn of the loop of cbuf_write() has copied the first w.pos bytes behind the head, and
\* nothing else has changed.
Written(w, bytes) ==
  /\ w.pos \in 0..Len(bytes) /\ w.pos <= cbuf_space_avail(head, tail)
  /\ w.head = INC_POINTER(head, w.pos)
  /\ w.buf \in [Index -> Bytes]
  /\ \A j \in Index : w.buf[INC_POINTER(head, j)] =
       IF j < w.pos THEN bytes[j + 1] ELSE buf[INC_POINTER(head, j)]

\* The loop of cbuf_write() has ended.
WriteEnded(w, bytes) == w.pos = Len(bytes) \/ cbuf_space_avail(w.head, tail) = 0

\* Where a turn that copies w.pos bytes so far stands, without the modulus.
LEMMA WrittenHead ==
  ASSUME CBufAssumption, head \in Index, tail \in Index, NEW pos \in Nat,
         pos <= cbuf_space_avail(head, tail)
  PROVE  /\ INC_POINTER(head, pos) = Wrapped(head + pos) /\ INC_POINTER(head, pos) \in Index
         /\ cbuf_space_avail(INC_POINTER(head, pos), tail) = cbuf_space_avail(head, tail) - pos
         /\ pos \in Index
<1>1. Size \in Nat /\ Size > 0 /\ head \in Nat /\ tail \in Nat /\ head < Size /\ tail < Size
  BY DEF CBufAssumption, Index
<1>2. /\ cbuf_space_used(head, tail) = IF head >= tail THEN head - tail ELSE head - tail + Size
      /\ cbuf_space_avail(head, tail) = Size - 1 - cbuf_space_used(head, tail)
  BY Used, Zenon
<1>3. pos \in 0..Size /\ pos \in Index
  BY <1>1, <1>2 DEF Index
<1>4. INC_POINTER(head, pos) = Wrapped(head + pos) /\ INC_POINTER(head, pos) \in Index
  BY <1>3, Increment, Zenon
<1>5. PICK h \in Index : h = INC_POINTER(head, pos)
  BY <1>4, Zenon
<1>6. /\ cbuf_space_used(h, tail) = IF h >= tail THEN h - tail ELSE h - tail + Size
      /\ cbuf_space_avail(h, tail) = Size - 1 - cbuf_space_used(h, tail)
  BY Used, Zenon
<1>7. h = IF head + pos < Size THEN head + pos ELSE head + pos - Size
  BY <1>1, <1>4, <1>5 DEF Wrapped
<1>8. h \in Nat /\ h < Size
  BY <1>1 DEF Index
<1>9. cbuf_space_avail(h, tail) = cbuf_space_avail(head, tail) - pos
  BY <1>1, <1>2, <1>6, <1>7, <1>8
<1> QED BY <1>3, <1>4, <1>5, <1>9, Zenon

\* The run of a turn: it fits in what is free, and ends at the end of the buffer at the latest; when it
\* is short of the free space it ends there.
LEMMA RunFits ==
  ASSUME CBufAssumption, NEW h \in Index, tail \in Index
  PROVE  /\ RunFrom(h, tail) \in Nat
         /\ RunFrom(h, tail) <= cbuf_space_avail(h, tail) /\ h + RunFrom(h, tail) <= Size
         /\ RunFrom(h, tail) = cbuf_space_avail(h, tail) \/ h + RunFrom(h, tail) = Size
         /\ RunFrom(h, tail) = 0 => cbuf_space_avail(h, tail) = 0
         /\ h = 0 => RunFrom(h, tail) = cbuf_space_avail(h, tail)
<1>1. Size \in Nat /\ Size > 0 /\ h \in Nat /\ tail \in Nat /\ h < Size /\ tail < Size
  BY DEF CBufAssumption, Index
<1>2. /\ cbuf_space_used(h, tail) = IF h >= tail THEN h - tail ELSE h - tail + Size
      /\ cbuf_space_avail(h, tail) = Size - 1 - cbuf_space_used(h, tail)
  BY Used, Zenon
<1>3. CASE h >= tail /\ tail = 0
  <2>1. RunFrom(h, tail) = Size - h - 1
    BY <1>3, Zenon DEF RunFrom
  <2> QED BY <1>1, <1>2, <1>3, <2>1
<1>4. CASE h >= tail /\ tail # 0
  <2>1. RunFrom(h, tail) = Size - h
    BY <1>4, Zenon DEF RunFrom
  <2> QED BY <1>1, <1>2, <1>4, <2>1
<1>5. CASE h < tail
  <2>1. RunFrom(h, tail) = tail - h - 1
    <3>1. ~(h >= tail)
      BY <1>1, <1>5
    <3> QED BY <3>1, Zenon DEF RunFrom
  <2> QED BY <1>1, <1>2, <1>5, <2>1
<1> QED BY <1>1, <1>3, <1>4, <1>5

\* Which bytes a run of n bytes from position p after the head h covers.
LEMMA RunCovers ==
  ASSUME Size \in Nat, NEW h \in Index, NEW p \in Nat, NEW n \in Nat, p + n < Size,
         NEW j \in Index, Wrapped(h + p) + n <= Size
  PROVE  /\ Wrapped(h + j) \in Wrapped(h + p)..(Wrapped(h + p) + n - 1) <=> p <= j /\ j < p + n
         /\ p <= j /\ j < p + n => Wrapped(h + j) - Wrapped(h + p) = j - p
         /\ Wrapped(Wrapped(h + p) + n) = Wrapped(h + (p + n))
<1>1. h \in Nat /\ h < Size /\ j \in Nat /\ j < Size
  BY DEF Index
<1>2. PICK a \in Int : a = Wrapped(h + p)
  BY <1>1 DEF Wrapped
<1>3. PICK b \in Int : b = Wrapped(h + j)
  BY <1>1 DEF Wrapped
<1>4. a = IF h + p < Size THEN h + p ELSE h + p - Size
  BY <1>1, <1>2 DEF Wrapped
<1>5. b = IF h + j < Size THEN h + j ELSE h + j - Size
  BY <1>1, <1>3 DEF Wrapped
<1>6. a + n <= Size
  BY <1>2, Zenon
<1>7. b \in a..(a + n - 1) <=> p <= j /\ j < p + n
  BY <1>1, <1>4, <1>5, <1>6
<1>8. p <= j /\ j < p + n => b - a = j - p
  BY <1>1, <1>4, <1>5, <1>6
<1>9. Wrapped(a + n) = Wrapped(h + (p + n))
  BY <1>1, <1>4, <1>6 DEF Wrapped
<1> QED BY <1>2, <1>3, <1>7, <1>8, <1>9, Zenon

\* A turn of the loop keeps what the loop has done.
LEMMA WriteTurnKeeps ==
  ASSUME CBufAssumption, head \in Index, tail \in Index,
         NEW k \in Nat, NEW bytes \in [1..k -> Bytes],
         NEW w, w = [head |-> w.head, buf |-> w.buf, pos |-> w.pos], Written(w, bytes)
  PROVE  LET x == WriteTurn(w, bytes)
         IN  /\ x = [head |-> x.head, buf |-> x.buf, pos |-> x.pos]
             /\ Written(x, bytes)
             /\ WriteEnded(x, bytes) \/ (x.head = 0 /\ x.pos > w.pos)
             /\ w.head = 0 => WriteEnded(x, bytes)
             /\ WriteEnded(w, bytes) => x = w
<1> DEFINE run == RunFrom(w.head, tail)
           n == Least(run, k - w.pos)
           x == WriteTurn(w, bytes)
           more == [head |-> INC_POINTER(w.head, n),
                    buf |-> [i \in 0..(Size - 1) |-> IF i \in w.head..(w.head + n - 1)
                                                     THEN bytes[w.pos + 1 + i - w.head] ELSE w.buf[i]],
                    pos |-> w.pos + n]
<1>1. Size \in Nat /\ Size > 0 /\ head \in Nat /\ head < Size
  BY DEF CBufAssumption, Index
<1>2. Len(bytes) = k
  OBVIOUS
<1>3. /\ w.pos \in 0..k /\ w.pos <= cbuf_space_avail(head, tail)
      /\ w.head = INC_POINTER(head, w.pos) /\ w.buf \in [Index -> Bytes]
  BY <1>2, Zenon DEF Written
<1>4. /\ w.head = Wrapped(head + w.pos) /\ w.head \in Index
      /\ cbuf_space_avail(w.head, tail) = cbuf_space_avail(head, tail) - w.pos
  BY <1>3, WrittenHead
<1>5. /\ run \in Nat /\ run <= cbuf_space_avail(w.head, tail) /\ w.head + run <= Size
      /\ run = cbuf_space_avail(w.head, tail) \/ w.head + run = Size
      /\ run = 0 => cbuf_space_avail(w.head, tail) = 0
      /\ w.head = 0 => run = cbuf_space_avail(w.head, tail)
  BY <1>4, RunFits, Zenon
<1>a. cbuf_space_avail(head, tail) \in Nat /\ cbuf_space_avail(head, tail) < Size
  BY SpaceIsBounded, Zenon
<1>6. /\ n \in Nat /\ n <= run /\ n <= k - w.pos /\ (n = run \/ n = k - w.pos)
  BY <1>3, <1>5 DEF Least
<1>7. x = IF w.pos = k \/ cbuf_space_avail(w.head, tail) = 0 \/ n = 0 THEN w ELSE more
  BY <1>2, Zenon DEF WriteTurn
<1> HIDE DEF run, n, x
<1>8. CASE w.pos = k \/ cbuf_space_avail(w.head, tail) = 0 \/ n = 0
  <2>1. x = w
    BY <1>7, <1>8, Zenon
  <2>2. n = 0 => w.pos = k \/ cbuf_space_avail(w.head, tail) = 0
    BY <1>3, <1>5, <1>6
  <2>3. WriteEnded(w, bytes)
    BY <1>2, <1>8, <2>2, Zenon DEF WriteEnded
  <2>4. QED BY <2>1, <2>3, Zenon DEF x
<1>9. CASE ~(w.pos = k \/ cbuf_space_avail(w.head, tail) = 0 \/ n = 0)
  <2>1. x = more
    BY <1>7, <1>9, Zenon
  <2> HIDE DEF more
  <2>2. /\ x = [head |-> x.head, buf |-> x.buf, pos |-> x.pos]
        /\ x.head = INC_POINTER(w.head, n) /\ x.pos = w.pos + n
        /\ x.buf = [i \in Index |-> IF i \in w.head..(w.head + n - 1)
                                    THEN bytes[w.pos + 1 + i - w.head] ELSE w.buf[i]]
    BY <2>1, Zenon DEF more, Index
  <2>3. /\ w.pos + n \in 0..k /\ w.pos + n <= cbuf_space_avail(head, tail) /\ w.pos + n < Size
        /\ w.head + n <= Size /\ n \in 0..Size /\ w.pos \in Nat
    <3>1. PICK av \in Nat : av = cbuf_space_avail(head, tail) /\ av < Size
      BY <1>a, Zenon
    <3>2. PICK q \in Nat : q = w.pos /\ q <= k /\ q <= av
      BY <1>3, <3>1
    <3>3. PICK h \in Nat : h = w.head /\ h < Size
      BY <1>1, <1>4 DEF Index
    <3>4. cbuf_space_avail(w.head, tail) = av - q
      BY <1>4, <3>1, <3>2, Zenon
    <3>5. n <= av - q
      <4>1. run <= av - q /\ n <= run
        BY <1>5, <1>6, <3>4, Zenon
      <4> QED BY <1>5, <1>6, <4>1
    <3>6. h + n <= Size
      <4>1. h + run <= Size /\ run \in Nat /\ n <= run
        BY <1>5, <1>6, <3>3, Zenon
      <4> QED BY <1>1, <1>6, <4>1
    <3>7. n <= k - q
      BY <1>6, <3>2, Zenon
    <3>8. q + n \in 0..k /\ q + n <= av /\ q + n < Size /\ n \in 0..Size
      BY <1>1, <1>6, <3>1, <3>2, <3>3, <3>5, <3>6, <3>7
    <3> QED BY <3>1, <3>2, <3>3, <3>6, <3>8, Zenon
  <2>4. INC_POINTER(w.head, n) = Wrapped(w.head + n)
    BY <1>4, <2>3, Increment, Zenon
  <2>5. /\ INC_POINTER(head, w.pos + n) = Wrapped(head + (w.pos + n))
        /\ cbuf_space_avail(INC_POINTER(head, w.pos + n), tail) =
             cbuf_space_avail(head, tail) - (w.pos + n)
    BY <2>3, WrittenHead
  <2>6. 0 \in Index
    BY <1>1 DEF Index
  <2>7. Wrapped(w.head + n) = Wrapped(head + (w.pos + n))
    BY <1>1, <1>4, <1>6, <2>3, <2>6, RunCovers
  <2>8. x.head = INC_POINTER(head, x.pos)
    BY <2>2, <2>4, <2>5, <2>7, Zenon
  <2>9. ASSUME NEW j \in Index
        PROVE  x.buf[INC_POINTER(head, j)] =
                 IF j < x.pos THEN bytes[j + 1] ELSE buf[INC_POINTER(head, j)]
    <3>1. INC_POINTER(head, j) = Wrapped(head + j) /\ INC_POINTER(head, j) \in Index
      <4>1. j \in 0..Size
        BY <1>1 DEF Index
      <4> QED BY <4>1, Increment, Zenon
    <3>2. PICK i \in Index : i = INC_POINTER(head, j)
      BY <3>1, Zenon
    <3>3. /\ i \in w.head..(w.head + n - 1) <=> w.pos <= j /\ j < w.pos + n
          /\ w.pos <= j /\ j < w.pos + n => i - w.head = j - w.pos
      <4>1. /\ Wrapped(head + j) \in w.head..(w.head + n - 1) <=> w.pos <= j /\ j < w.pos + n
            /\ w.pos <= j /\ j < w.pos + n => Wrapped(head + j) - w.head = j - w.pos
        BY <1>1, <1>4, <1>6, <2>3, RunCovers
      <4> QED BY <3>1, <3>2, <4>1, Zenon
    <3>4. w.buf[i] = IF j < w.pos THEN bytes[j + 1] ELSE buf[i]
      BY <3>2, Zenon DEF Written
    <3>5. x.buf[i] = IF i \in w.head..(w.head + n - 1)
                     THEN bytes[w.pos + 1 + i - w.head] ELSE w.buf[i]
      BY <2>2, Zenon
    <3>6. CASE w.pos <= j /\ j < w.pos + n
      <4>1. w.pos + 1 + i - w.head = j + 1
        BY <1>4, <2>3, <3>3, <3>6 DEF Index
      <4>2. x.buf[i] = bytes[j + 1]
        BY <3>3, <3>5, <3>6, <4>1, Zenon
      <4> QED BY <2>2, <3>2, <3>6, <4>2, Zenon
    <3>7. CASE ~(w.pos <= j /\ j < w.pos + n)
      <4>1. x.buf[i] = w.buf[i]
        BY <3>3, <3>5, <3>7, Zenon
      <4>2. j < w.pos <=> j < w.pos + n
        BY <1>6, <2>3, <3>7 DEF Index
      <4> QED BY <2>2, <3>2, <3>4, <4>1, <4>2, Zenon
    <3> QED BY <3>6, <3>7, Zenon
  <2>10. x.buf \in [Index -> Bytes]
    <3>1. ASSUME NEW i \in Index, i \in w.head..(w.head + n - 1)
          PROVE  bytes[w.pos + 1 + i - w.head] \in Bytes
      <4>1. w.pos + 1 + i - w.head \in 1..k
        <5>1. PICK q \in Nat : q = w.pos
          BY <2>3, Zenon
        <5>2. PICK h \in Nat : h = w.head
          BY <1>1, <1>4 DEF Index
        <5>3. i \in Nat /\ h <= i /\ i < h + n
          BY <1>1, <1>6, <3>1, <5>2 DEF Index
        <5>4. q + n <= k
          BY <2>3, <5>1
        <5>5. q + 1 + i - h \in 1..k
          BY <1>6, <5>3, <5>4
        <5> QED BY <5>1, <5>2, <5>5, Zenon
      <4> QED BY <4>1, Zenon
    <3>2. ASSUME NEW i \in Index
          PROVE  w.buf[i] \in Bytes
      BY <1>3, Zenon
    <3> QED BY <2>2, <3>1, <3>2, Zenon
  <2>11. Written(x, bytes)
    BY <1>2, <2>2, <2>3, <2>8, <2>9, <2>10, Zenon DEF Written
  <2>12. cbuf_space_avail(x.head, tail) = cbuf_space_avail(head, tail) - x.pos
    BY <2>2, <2>5, <2>8, Zenon
  <2>13. n = k - w.pos => x.pos = k
    BY <1>3, <2>2
  <2>14. n = cbuf_space_avail(w.head, tail) => cbuf_space_avail(x.head, tail) = 0
    BY <1>3, <1>4, <1>a, <2>2, <2>12
  <2>15. n = run /\ w.head + run = Size => x.head = 0
    <3>1. w.head + n = Size => Wrapped(w.head + n) = 0
      BY <1>1 DEF Wrapped
    <3> QED BY <2>2, <2>4, <3>1, Zenon
  <2>16. WriteEnded(x, bytes) \/ x.head = 0
    BY <1>2, <1>5, <1>6, <2>13, <2>14, <2>15, Zenon DEF WriteEnded
  <2>17. w.head = 0 => WriteEnded(x, bytes)
    BY <1>2, <1>5, <1>6, <2>13, <2>14, Zenon DEF WriteEnded
  <2>18. x.pos > w.pos
    BY <1>6, <1>9, <2>2, <2>3
  <2>19. ~WriteEnded(w, bytes)
    BY <1>2, <1>9, Zenon DEF WriteEnded
  <2> QED BY <2>2, <2>11, <2>16, <2>17, <2>18, <2>19, Zenon DEF x
<1> QED BY <1>8, <1>9, Zenon

\* Two turns are enough: after them the loop of cbuf_write() has ended, and a further turn would
\* change nothing.
LEMMA WriteLoopEnds ==
  ASSUME CBufAssumption, head \in Index, tail \in Index, buf \in [Index -> Bytes],
         NEW k \in Nat, NEW bytes \in [1..k -> Bytes]
  PROVE  LET w == WriteLoop([head |-> head, buf |-> buf, pos |-> 0], bytes)
         IN  /\ w = [head |-> w.head, buf |-> w.buf, pos |-> w.pos]
             /\ Written(w, bytes) /\ WriteEnded(w, bytes)
             /\ WriteTurn(w, bytes) = w
<1>1. PICK w0 : w0 = [head |-> head, buf |-> buf, pos |-> 0]
  BY Zenon
<1>2. w0 = [head |-> w0.head, buf |-> w0.buf, pos |-> w0.pos]
  BY <1>1, Zenon
<1>3. Written(w0, bytes)
  <2>1. w0.pos = 0 /\ w0.head = head /\ w0.buf = buf
    BY <1>1, Zenon
  <2>2. Size \in Nat /\ Size > 0 /\ Len(bytes) = k
    BY DEF CBufAssumption
  <2>3. 0 <= cbuf_space_avail(head, tail)
    BY SpaceIsBounded
  <2>4. INC_POINTER(head, 0) = head
    <3>1. 0 \in 0..Size
      BY <2>2
    <3>2. INC_POINTER(head, 0) = Wrapped(head + 0)
      BY <3>1, Increment, Zenon
    <3> QED BY <2>2, <3>2 DEF Wrapped, Index
  <2>5. \A j \in Index : ~(j < 0)
    BY <2>2 DEF Index
  <2> QED BY <2>1, <2>2, <2>3, <2>4, <2>5 DEF Written
<1>4. PICK w1 : w1 = WriteTurn(w0, bytes)
  BY Zenon
<1>5. /\ w1 = [head |-> w1.head, buf |-> w1.buf, pos |-> w1.pos]
      /\ Written(w1, bytes) /\ (WriteEnded(w1, bytes) \/ w1.head = 0)
  BY <1>2, <1>3, <1>4, WriteTurnKeeps, Zenon
<1>6. PICK w2 : w2 = WriteTurn(w1, bytes)
  BY Zenon
<1>7. /\ w2 = [head |-> w2.head, buf |-> w2.buf, pos |-> w2.pos]
      /\ Written(w2, bytes) /\ (w1.head = 0 => WriteEnded(w2, bytes))
      /\ (WriteEnded(w1, bytes) => w2 = w1)
  BY <1>5, <1>6, WriteTurnKeeps, Zenon
<1>8. WriteEnded(w2, bytes)
  BY <1>5, <1>7, Zenon
<1>9. WriteTurn(w2, bytes) = w2
  BY <1>7, <1>8, WriteTurnKeeps, Zenon
<1>10. w2 = WriteLoop([head |-> head, buf |-> buf, pos |-> 0], bytes)
  BY <1>1, <1>4, <1>6, Zenon DEF WriteLoop
<1> QED BY <1>7, <1>8, <1>9, <1>10, Zenon

\* The contents are a sequence of bytes, no longer than the size less one.
LEMMA ContentsType ==
  ASSUME CBufAssumption, NEW h \in Index, NEW t \in Index, NEW b \in [Index -> Bytes]
  PROVE  /\ Contents(h, t, b) \in Seq(Bytes)
         /\ Len(Contents(h, t, b)) = cbuf_space_used(h, t)
         /\ DOMAIN Contents(h, t, b) = 1..cbuf_space_used(h, t)
<1>1. Size \in Nat /\ Size > 0
  BY DEF CBufAssumption
<1>2. PICK u \in Index : u = cbuf_space_used(h, t)
  BY Used, Zenon
<1>3. ASSUME NEW i \in 1..u
      PROVE  b[INC_POINTER(t, i - 1)] \in Bytes
  <2>1. i - 1 \in 0..Size
    BY <1>1 DEF Index
  <2> QED BY <2>1, Increment, Zenon
<1>4. Contents(h, t, b) = [i \in 1..u |-> b[INC_POINTER(t, i - 1)]]
  BY <1>2, Zenon DEF Contents
<1>5. Contents(h, t, b) \in [1..u -> Bytes]
  BY <1>3, <1>4, Zenon
<1>6. u \in Nat
  BY <1>1 DEF Index
<1> QED BY <1>2, <1>5, <1>6

\* The distance from the tail to the head.
Fill(h, t) == IF h >= t THEN h - t ELSE h - t + Size

\* Where a byte of the contents lies, seen from the head.
LEMMA SeenFromHead ==
  ASSUME Size \in Nat, NEW h \in Index, NEW t \in Index, NEW u, NEW j \in Nat,
         u = Fill(h, t), j < u
  PROVE  Size - u + j \in Index /\ Wrapped(t + j) = Wrapped(h + (Size - u + j))
<1>1. h \in Nat /\ h < Size /\ t \in Nat /\ t < Size
  BY DEF Index
<1>2. u \in Nat /\ u < Size
  BY <1>1 DEF Fill
<1> QED BY <1>1, <1>2 DEF Wrapped, Index, Fill

\* Where a byte that is appended to the contents lies, seen from the head.
LEMMA AppendedAtHead ==
  ASSUME Size \in Nat, NEW h \in Index, NEW t \in Index, NEW u, NEW j \in Nat,
         u = Fill(h, t), u <= j, j < Size
  PROVE  j - u \in Index /\ Wrapped(t + j) = Wrapped(h + (j - u))
<1>1. h \in Nat /\ h < Size /\ t \in Nat /\ t < Size
  BY DEF Index
<1>2. u \in Nat /\ u < Size
  BY <1>1 DEF Fill
<1> QED BY <1>1, <1>2 DEF Wrapped, Index, Fill

\* What is written is appended to the contents.
LEMMA WriteAppends ==
  ASSUME CBufAssumption, head \in Index, tail \in Index, buf \in [Index -> Bytes],
         NEW k \in Nat, NEW bytes \in [1..k -> Bytes], NEW w, Written(w, bytes)
  PROVE  /\ w.head \in Index
         /\ Contents(w.head, tail, w.buf) =
              Contents(head, tail, buf) \o SubSeq(bytes, 1, w.pos)
         /\ cbuf_space_used(w.head, tail) = cbuf_space_used(head, tail) + w.pos
<1>1. Size \in Nat /\ Size > 0 /\ Len(bytes) = k
  BY DEF CBufAssumption
<1>2. PICK p \in Nat : p = w.pos /\ p <= k /\ p <= cbuf_space_avail(head, tail)
  BY <1>1 DEF Written
<1>3. PICK u \in Nat : u = cbuf_space_used(head, tail)
  BY SpaceIsBounded, Zenon
<1>4. /\ u = IF head >= tail THEN head - tail ELSE head - tail + Size
      /\ cbuf_space_avail(head, tail) = Size - 1 - u
  BY <1>3, Used, Zenon
<1>5. /\ w.head \in Index /\ p \in Index
      /\ cbuf_space_avail(w.head, tail) = Size - 1 - u - p
  <2>1. w.head = INC_POINTER(head, p)
    BY <1>2, Zenon DEF Written
  <2> QED BY <1>2, <1>4, <2>1, WrittenHead, Zenon
<1>6. cbuf_space_used(w.head, tail) = u + p
  <2>1. PICK v \in Index : v = cbuf_space_used(w.head, tail)
    BY <1>5, Used, Zenon
  <2>2. cbuf_space_avail(w.head, tail) = Size - 1 - v
    BY <1>5, <2>1, Used, Zenon
  <2>3. v = u + p
    BY <1>1, <1>5, <2>2 DEF Index
  <2> QED BY <2>1, <2>3, Zenon
<1>7. u + p < Size
  BY <1>1, <1>2, <1>4
<1>8. ASSUME NEW i \in 1..(u + p)
      PROVE  w.buf[INC_POINTER(tail, i - 1)] =
               IF i <= u THEN buf[INC_POINTER(tail, i - 1)] ELSE bytes[i - u]
  <2>1. i - 1 \in Nat /\ i - 1 < Size /\ i - 1 \in 0..Size
    BY <1>1, <1>7
  <2>2. INC_POINTER(tail, i - 1) = Wrapped(tail + (i - 1))
    BY <2>1, Increment, Zenon
  <2>3. CASE i <= u
    <3>1. PICK j \in Index : j = Size - u + (i - 1) /\ Wrapped(tail + (i - 1)) = Wrapped(head + j)
      <4>1. PICK l \in Nat : l = i - 1 /\ l < Size /\ l < u
        BY <2>1, <2>3
      <4>2. u = Fill(head, tail)
        BY <1>4, Zenon DEF Fill
      <4>3. Size - u + l \in Index /\ Wrapped(tail + l) = Wrapped(head + (Size - u + l))
        BY <1>1, <4>1, <4>2, SeenFromHead
      <4> QED BY <4>1, <4>3
    <3>2. INC_POINTER(head, j) = Wrapped(head + j)
      BY <1>1, Increment DEF Index
    <3>3. ~(j < p)
      BY <1>1, <1>7, <2>1, <3>1 DEF Index
    <3> QED BY <1>2, <2>2, <2>3, <3>1, <3>2, <3>3, Zenon DEF Written
  <2>4. CASE i > u
    <3>1. PICK j \in Index : j = i - 1 - u /\ Wrapped(tail + (i - 1)) = Wrapped(head + j)
      <4>1. PICK l \in Nat : l = i - 1 /\ l < Size /\ u <= l
        BY <2>1, <2>4
      <4>2. u = Fill(head, tail)
        BY <1>4, Zenon DEF Fill
      <4>3. l - u \in Index /\ Wrapped(tail + l) = Wrapped(head + (l - u))
        BY <1>1, <4>1, <4>2, AppendedAtHead
      <4> QED BY <4>1, <4>3
    <3>2. INC_POINTER(head, j) = Wrapped(head + j)
      BY <1>1, Increment DEF Index
    <3>3. j < p /\ j + 1 = i - u
      BY <1>1, <1>7, <2>1, <3>1 DEF Index
    <3>4. w.buf[INC_POINTER(head, j)] = bytes[j + 1]
      BY <1>2, <3>3, Zenon DEF Written
    <3>5. ~(i <= u)
      BY <2>4
    <3> QED BY <2>2, <3>1, <3>2, <3>3, <3>4, <3>5, Zenon
  <2> QED BY <2>3, <2>4
<1>9. Contents(w.head, tail, w.buf) =
        [i \in 1..(u + p) |-> IF i <= u THEN buf[INC_POINTER(tail, i - 1)] ELSE bytes[i - u]]
  BY <1>6, <1>8, Zenon DEF Contents
<1>10. Contents(head, tail, buf) = [i \in 1..u |-> buf[INC_POINTER(tail, i - 1)]]
  BY <1>3, Zenon DEF Contents
<1>11. SubSeq(bytes, 1, p) = [i \in 1..p |-> bytes[i]]
  BY <1>2
<1>12. Contents(head, tail, buf) \in Seq(Bytes) /\ Len(Contents(head, tail, buf)) = u
  BY <1>3, ContentsType, Zenon
<1>13. SubSeq(bytes, 1, p) \in Seq(Bytes) /\ Len(SubSeq(bytes, 1, p)) = p
  BY <1>1, <1>2
<1>14. Contents(w.head, tail, w.buf) \in Seq(Bytes)
       /\ Len(Contents(w.head, tail, w.buf)) = u + p
  BY <1>5, <1>6, ContentsType, Zenon DEF Written
<1>b. \A i \in 1..(u + p) : (Contents(head, tail, buf) \o SubSeq(bytes, 1, p))[i] =
        IF i <= u THEN Contents(head, tail, buf)[i] ELSE SubSeq(bytes, 1, p)[i - u]
  <2>1. PICK a \in Seq(Bytes) : a = Contents(head, tail, buf) /\ Len(a) = u
    BY <1>12
  <2>2. PICK b \in Seq(Bytes) : b = SubSeq(bytes, 1, p) /\ Len(b) = p
    BY <1>13
  <2>3. \A i \in 1..(Len(a) + Len(b)) : (a \o b)[i] = IF i <= Len(a) THEN a[i] ELSE b[i - Len(a)]
    BY ConcatProperties
  <2> QED BY <2>1, <2>2, <2>3
<1>15. ASSUME NEW i \in 1..(u + p)
       PROVE  Contents(w.head, tail, w.buf)[i] =
                (Contents(head, tail, buf) \o SubSeq(bytes, 1, p))[i]
  <2>1. CASE i <= u
    <3>1. i \in 1..u
      BY <2>1
    <3>2. (Contents(head, tail, buf) \o SubSeq(bytes, 1, p))[i] = Contents(head, tail, buf)[i]
      BY <1>b, <2>1, Zenon
    <3>3. Contents(head, tail, buf)[i] = buf[INC_POINTER(tail, i - 1)]
      BY <1>10, <3>1, Zenon
    <3> QED BY <1>9, <2>1, <3>2, <3>3, Zenon
  <2>2. CASE ~(i <= u)
    <3>1. i - u \in 1..p
      BY <2>2
    <3>2. (Contents(head, tail, buf) \o SubSeq(bytes, 1, p))[i] = SubSeq(bytes, 1, p)[i - u]
      BY <1>b, <2>2, Zenon
    <3>3. SubSeq(bytes, 1, p)[i - u] = bytes[i - u]
      BY <1>11, <3>1, Zenon
    <3> QED BY <1>9, <2>2, <3>2, <3>3, Zenon
  <2> QED BY <2>1, <2>2, Zenon
<1>16. /\ Contents(head, tail, buf) \o SubSeq(bytes, 1, p) \in Seq(Bytes)
       /\ Len(Contents(head, tail, buf) \o SubSeq(bytes, 1, p)) = u + p
  BY <1>12, <1>13
<1>17. Contents(w.head, tail, w.buf) = Contents(head, tail, buf) \o SubSeq(bytes, 1, p)
  <2> DEFINE s == Contents(w.head, tail, w.buf)
             t == Contents(head, tail, buf) \o SubSeq(bytes, 1, p)
  <2>1. s \in Seq(Bytes) /\ t \in Seq(Bytes) /\ Len(s) = Len(t) /\ Len(s) = u + p
    BY <1>14, <1>16, Zenon
  <2>2. \A i \in 1..(u + p) : s[i] = t[i]
    BY <1>15, Zenon
  <2> HIDE DEF s, t
  <2>3. \A i \in 1..Len(s) : s[i] = t[i]
    BY <2>1, <2>2, Zenon
  <2>4. s = t
    BY <2>1, <2>3, SeqEqual, Zenon
  <2> QED BY <2>4, Zenon DEF s, t
<1> QED BY <1>2, <1>3, <1>5, <1>6, <1>17, Zenon

-----------------------------------------------------------------------------
\* Reading

\* The loop of cbuf_read() has copied the first bytes of the contents and moved the tail past them.
ReadSoFar(q, buflen) ==
  /\ q.out \in Seq(Bytes) /\ Len(q.out) <= buflen
  /\ Len(q.out) <= cbuf_space_used(head, tail)
  /\ q.tail = INC_POINTER(tail, Len(q.out))
  /\ \A i \in 1..Len(q.out) : q.out[i] = buf[INC_POINTER(tail, i - 1)]

\* The loop of cbuf_read() has ended.
ReadEnded(q, buflen) == Len(q.out) = buflen \/ q.tail = head

\* Where a tail that has moved by pos bytes stands.
LEMMA ReadTail ==
  ASSUME CBufAssumption, head \in Index, tail \in Index, NEW pos \in Nat,
         pos <= cbuf_space_used(head, tail)
  PROVE  /\ INC_POINTER(tail, pos) = Wrapped(tail + pos) /\ INC_POINTER(tail, pos) \in Index
         /\ cbuf_space_used(head, INC_POINTER(tail, pos)) = cbuf_space_used(head, tail) - pos
         /\ INC_POINTER(tail, pos) = head <=> pos = cbuf_space_used(head, tail)
         /\ pos \in Index
<1>1. Size \in Nat /\ Size > 0 /\ head \in Nat /\ tail \in Nat /\ head < Size /\ tail < Size
  BY DEF CBufAssumption, Index
<1>2. PICK u \in Index : u = cbuf_space_used(head, tail)
  BY Used, Zenon
<1>3. u = IF head >= tail THEN head - tail ELSE head - tail + Size
  BY <1>2, Used, Zenon
<1>4. pos \in 0..Size /\ pos \in Index /\ pos <= u
  BY <1>1, <1>2 DEF Index
<1>5. INC_POINTER(tail, pos) = Wrapped(tail + pos) /\ INC_POINTER(tail, pos) \in Index
  BY <1>4, Increment, Zenon
<1>6. PICK t \in Index : t = INC_POINTER(tail, pos)
  BY <1>5, Zenon
<1>7. t = IF tail + pos < Size THEN tail + pos ELSE tail + pos - Size
  BY <1>1, <1>5, <1>6 DEF Wrapped
<1>8. cbuf_space_used(head, t) = IF head >= t THEN head - t ELSE head - t + Size
  BY Used, Zenon
<1>9. t \in Nat /\ u \in Nat
  BY <1>1 DEF Index
<1>10. cbuf_space_used(head, t) = u - pos
  BY <1>1, <1>3, <1>4, <1>7, <1>8, <1>9
<1>11. t = head <=> pos = u
  BY <1>1, <1>3, <1>4, <1>7, <1>9
<1> QED BY <1>2, <1>4, <1>5, <1>6, <1>10, <1>11, Zenon

\* The longest run of a turn of cbuf_read().
ReadRun(t) == IF head > t THEN head - t ELSE Size - t

\* The run of a turn of cbuf_read() is not empty, stays inside the contents and ends at the end of
\* the buffer at the latest; when it is short of the contents it ends there.
LEMMA ReadRunFits ==
  ASSUME CBufAssumption, head \in Index, NEW t \in Index, t # head
  PROVE  /\ ReadRun(t) \in Nat \ {0}
         /\ ReadRun(t) <= cbuf_space_used(head, t) /\ t + ReadRun(t) <= Size
         /\ ReadRun(t) = cbuf_space_used(head, t) \/ t + ReadRun(t) = Size
         /\ t = 0 => ReadRun(t) = cbuf_space_used(head, t)
<1>1. Size \in Nat /\ Size > 0 /\ head \in Nat /\ t \in Nat /\ head < Size /\ t < Size
  BY DEF CBufAssumption, Index
<1>2. cbuf_space_used(head, t) = IF head >= t THEN head - t ELSE head - t + Size
  BY Used, Zenon
<1> QED BY <1>1, <1>2 DEF ReadRun

\* A turn of the loop keeps what the loop has done.
LEMMA ReadTurnKeeps ==
  ASSUME CBufAssumption, head \in Index, tail \in Index, buf \in [Index -> Bytes],
         NEW buflen \in Nat,
         NEW q, q = [tail |-> q.tail, out |-> q.out], ReadSoFar(q, buflen)
  PROVE  LET x == ReadTurn(q, buflen)
         IN  /\ x = [tail |-> x.tail, out |-> x.out]
             /\ ReadSoFar(x, buflen)
             /\ ReadEnded(x, buflen) \/ x.tail = 0
             /\ q.tail = 0 => ReadEnded(x, buflen)
             /\ ReadEnded(q, buflen) => x = q
<1> DEFINE run == ReadRun(q.tail)
           n == Least(run, buflen - Len(q.out))
           x == ReadTurn(q, buflen)
           copied == [i \in 1..n |-> buf[q.tail + i - 1]]
<1>1. Size \in Nat /\ Size > 0
  BY DEF CBufAssumption
<1>2. PICK p \in Nat : p = Len(q.out)
  BY DEF ReadSoFar
<1>3. PICK u \in Nat : u = cbuf_space_used(head, tail) /\ u < Size
  BY SpaceIsBounded, Zenon
<1>4. /\ q.out \in Seq(Bytes) /\ p <= buflen /\ p <= u /\ q.tail = INC_POINTER(tail, p)
      /\ \A i \in 1..p : q.out[i] = buf[INC_POINTER(tail, i - 1)]
  BY <1>2, <1>3, Zenon DEF ReadSoFar
<1>5. /\ q.tail = Wrapped(tail + p) /\ q.tail \in Index
      /\ cbuf_space_used(head, q.tail) = u - p
      /\ q.tail = head <=> p = u
  BY <1>3, <1>4, ReadTail, Zenon
<1>6. x = IF p = buflen \/ q.tail = head THEN q
          ELSE [tail |-> INC_POINTER(q.tail, n), out |-> q.out \o copied]
  BY <1>2, Zenon DEF ReadTurn, ReadRun
<1> HIDE DEF x, run
<1>7. CASE p = buflen \/ q.tail = head
  <2>1. x = q
    BY <1>6, <1>7, Zenon
  <2>2. ReadEnded(q, buflen)
    BY <1>2, <1>7, Zenon DEF ReadEnded
  <2> QED BY <2>1, <2>2, Zenon DEF x
<1>8. CASE ~(p = buflen \/ q.tail = head)
  <2>1. /\ run \in Nat \ {0} /\ run <= u - p /\ q.tail + run <= Size
        /\ run = u - p \/ q.tail + run = Size
        /\ q.tail = 0 => run = u - p
    BY <1>5, <1>8, ReadRunFits, Zenon DEF run
  <2>2. PICK t \in Nat : t = q.tail /\ t < Size
    BY <1>1, <1>5 DEF Index
  <2>3. PICK m \in Nat : m = n
    <3>1. buflen - p \in Nat
      BY <1>4
    <3> QED BY <1>2, <2>1, <3>1, Zenon DEF Least
  <2>4. m <= run /\ m <= buflen - p /\ (m = run \/ m = buflen - p) /\ m > 0
    <3>1. buflen - p \in Nat /\ buflen - p > 0
      BY <1>4, <1>8
    <3> QED BY <1>2, <2>1, <2>3, <3>1 DEF Least
  <2>5. p + m <= buflen /\ p + m <= u /\ p + m < Size /\ t + m <= Size /\ m \in 0..Size
    <3>1. t + run <= Size
      BY <2>1, <2>2, Zenon
    <3>2. p <= u /\ p <= buflen /\ u < Size /\ run \in Nat /\ run <= u - p
      BY <1>3, <1>4, <2>1, Zenon
    <3>3. p + m <= buflen /\ p + m <= u
      BY <2>4, <3>2
    <3>4. p + m < Size
      BY <1>1, <3>2, <3>3
    <3>5. t + m <= Size /\ m \in 0..Size
      BY <1>1, <2>2, <2>4, <3>1, <3>2
    <3> QED BY <3>3, <3>4, <3>5
  <2> HIDE DEF n
  <2>6. x = [tail |-> INC_POINTER(t, m), out |-> q.out \o [i \in 1..m |-> buf[t + i - 1]]]
    BY <1>6, <1>8, <2>2, <2>3, Zenon
  <2>7. ASSUME NEW i \in 1..m
        PROVE  t + i - 1 \in Index /\ t + i - 1 = INC_POINTER(tail, p + i - 1)
    <3>1. PICK j \in Index : j = p + i - 1 /\ p <= j /\ j < p + m
      <4>1. p + i - 1 \in Nat /\ p <= p + i - 1 /\ p + i - 1 < p + m
        OBVIOUS
      <4>2. p + i - 1 < Size
        <5>1. p + m < Size
          BY <2>5, Zenon
        <5> QED BY <1>1, <4>1, <5>1
      <4>3. p + i - 1 \in Index
        BY <1>1, <4>1, <4>2 DEF Index
      <4> QED BY <4>1, <4>3
    <3>2. Wrapped(tail + j) - t = j - p
      <4>1. Wrapped(tail + p) = t
        BY <1>5, <2>2, Zenon
      <4> QED BY <1>1, <2>5, <3>1, <4>1, RunCovers
    <3>3. INC_POINTER(tail, j) = Wrapped(tail + j) /\ INC_POINTER(tail, j) \in Index
      BY <1>1, Increment DEF Index
    <3>4. PICK a \in Nat : a = INC_POINTER(tail, j) /\ a - t = j - p
      BY <1>1, <3>2, <3>3 DEF Index
    <3>5. a = t + i - 1
      BY <2>2, <3>1, <3>4
    <3> QED BY <3>1, <3>3, <3>4, <3>5, Zenon
  <2>8. PICK c : c = [i \in 1..m |-> buf[t + i - 1]]
    BY Zenon
  <2>9. c \in Seq(Bytes) /\ Len(c) = m /\ \A i \in 1..m : c[i] = buf[INC_POINTER(tail, p + i - 1)]
    <3>1. c \in [1..m -> Bytes]
      BY <2>7, <2>8, Zenon
    <3>2. \A i \in 1..m : c[i] = buf[INC_POINTER(tail, p + i - 1)]
      BY <2>7, <2>8, Zenon
    <3> QED BY <3>1, <3>2
  <2>10. /\ x = [tail |-> x.tail, out |-> x.out]
         /\ x.tail = INC_POINTER(t, m) /\ x.out = q.out \o c
    BY <2>6, <2>8, Zenon
  <2>11. /\ x.out \in Seq(Bytes) /\ Len(x.out) = p + m
         /\ \A i \in 1..(p + m) : x.out[i] = IF i <= p THEN q.out[i] ELSE c[i - p]
    <3>1. PICK o \in Seq(Bytes) : o = q.out /\ Len(o) = p
      BY <1>2, <1>4, Zenon
    <3>2. c \in Seq(Bytes) /\ Len(c) = m
      BY <2>9, Zenon
    <3>3. /\ o \o c \in Seq(Bytes) /\ Len(o \o c) = Len(o) + Len(c)
          /\ \A i \in 1..(Len(o) + Len(c)) : (o \o c)[i] = IF i <= Len(o) THEN o[i] ELSE c[i - Len(o)]
      BY <3>2, ConcatProperties, Zenon
    <3>4. x.out = o \o c
      BY <2>10, <3>1, Zenon
    <3> QED BY <3>1, <3>2, <3>3, <3>4, Zenon
  <2>12. ASSUME NEW i \in 1..(p + m)
         PROVE  x.out[i] = buf[INC_POINTER(tail, i - 1)]
    <3>1. CASE i <= p
      BY <1>4, <2>11, <3>1
    <3>2. CASE ~(i <= p)
      <4>1. i - p \in 1..m /\ p + (i - p) - 1 = i - 1
        BY <3>2
      <4>2. c[i - p] = buf[INC_POINTER(tail, p + (i - p) - 1)]
        BY <2>9, <4>1, Zenon
      <4> QED BY <2>11, <3>2, <4>1, <4>2, Zenon
    <3> QED BY <3>1, <3>2, Zenon
  <2>13. x.tail = INC_POINTER(tail, p + m) /\ x.tail = Wrapped(t + m)
    <3>1. INC_POINTER(t, m) = Wrapped(t + m)
      BY <1>5, <2>2, <2>5, Increment, Zenon
    <3>2. INC_POINTER(tail, p + m) = Wrapped(tail + (p + m))
      BY <1>3, <2>5, ReadTail
    <3>3. Wrapped(t + m) = Wrapped(tail + (p + m))
      <4>1. Wrapped(tail + p) = t /\ t + m <= Size
        BY <1>5, <2>2, <2>5, Zenon
      <4>2. 0 \in Index
        BY <1>1 DEF Index
      <4> QED BY <1>1, <2>5, <4>1, <4>2, RunCovers
    <3> QED BY <2>10, <3>1, <3>2, <3>3, Zenon
  <2>14. ReadSoFar(x, buflen)
    BY <1>3, <2>5, <2>11, <2>12, <2>13, Zenon DEF ReadSoFar
  <2>15. m = buflen - p => ReadEnded(x, buflen)
    BY <2>11 DEF ReadEnded
  <2>16. m = u - p => ReadEnded(x, buflen)
    <3>1. m = u - p => INC_POINTER(tail, p + m) = head
      BY <1>3, <2>5, ReadTail
    <3> QED BY <2>13, <3>1, Zenon DEF ReadEnded
  <2>17. t + m = Size => x.tail = 0
    BY <1>1, <2>13 DEF Wrapped
  <2>18. ReadEnded(x, buflen) \/ x.tail = 0
    BY <2>1, <2>2, <2>4, <2>15, <2>16, <2>17, Zenon
  <2>19. q.tail = 0 => ReadEnded(x, buflen)
    BY <2>1, <2>4, <2>15, <2>16, Zenon
  <2>20. ~ReadEnded(q, buflen)
    BY <1>2, <1>8, Zenon DEF ReadEnded
  <2> QED BY <2>10, <2>14, <2>18, <2>19, <2>20, Zenon DEF x
<1> QED BY <1>7, <1>8, Zenon

\* Two turns are enough, as the comment in cbuf_read() says ("at most this will make two passes"):
\* after them the loop has ended, and a further turn would change nothing.
LEMMA ReadLoopEnds ==
  ASSUME CBufAssumption, head \in Index, tail \in Index, buf \in [Index -> Bytes],
         NEW buflen \in Nat
  PROVE  LET q == ReadLoop([tail |-> tail, out |-> <<>>], buflen)
         IN  /\ ReadSoFar(q, buflen) /\ ReadEnded(q, buflen)
             /\ ReadTurn(q, buflen) = q
<1>1. PICK q0 : q0 = [tail |-> tail, out |-> <<>>]
  BY Zenon
<1>2. q0 = [tail |-> q0.tail, out |-> q0.out]
  BY <1>1, Zenon
<1>3. ReadSoFar(q0, buflen)
  <2>1. q0.tail = tail /\ q0.out = <<>>
    BY <1>1, Zenon
  <2>2. Size \in Nat /\ Size > 0
    BY DEF CBufAssumption
  <2>3. 0 <= cbuf_space_used(head, tail)
    BY SpaceIsBounded
  <2>4. INC_POINTER(tail, 0) = tail
    <3>1. 0 \in 0..Size
      BY <2>2
    <3>2. INC_POINTER(tail, 0) = Wrapped(tail + 0)
      BY <3>1, Increment, Zenon
    <3> QED BY <2>2, <3>2 DEF Wrapped, Index
  <2>5. <<>> \in Seq(Bytes) /\ Len(<<>>) = 0
    OBVIOUS
  <2> QED BY <2>1, <2>3, <2>4, <2>5 DEF ReadSoFar
<1>4. PICK q1 : q1 = ReadTurn(q0, buflen)
  BY Zenon
<1>5. /\ q1 = [tail |-> q1.tail, out |-> q1.out]
      /\ ReadSoFar(q1, buflen) /\ (ReadEnded(q1, buflen) \/ q1.tail = 0)
  BY <1>2, <1>3, <1>4, ReadTurnKeeps, Zenon
<1>6. PICK q2 : q2 = ReadTurn(q1, buflen)
  BY Zenon
<1>7. /\ q2 = [tail |-> q2.tail, out |-> q2.out]
      /\ ReadSoFar(q2, buflen) /\ (q1.tail = 0 => ReadEnded(q2, buflen))
      /\ (ReadEnded(q1, buflen) => q2 = q1)
  BY <1>5, <1>6, ReadTurnKeeps, Zenon
<1>8. ReadEnded(q2, buflen)
  BY <1>5, <1>7, Zenon
<1>9. ReadTurn(q2, buflen) = q2
  BY <1>7, <1>8, ReadTurnKeeps, Zenon
<1>10. q2 = ReadLoop([tail |-> tail, out |-> <<>>], buflen)
  BY <1>1, <1>4, <1>6, Zenon DEF ReadLoop
<1> QED BY <1>7, <1>8, <1>9, <1>10, Zenon

\* What is read is the first of the contents, and the rest stays.
LEMMA ReadRemoves ==
  ASSUME CBufAssumption, head \in Index, tail \in Index, buf \in [Index -> Bytes],
         NEW buflen \in Nat, NEW q, ReadSoFar(q, buflen)
  PROVE  LET c == Contents(head, tail, buf)
             n == Len(q.out)
         IN  /\ q.tail \in Index /\ n \in Nat /\ n <= Len(c)
             /\ q.out = SubSeq(c, 1, n)
             /\ Contents(head, q.tail, buf) = SubSeq(c, n + 1, Len(c))
             /\ q.tail = head <=> n = Len(c)
<1>1. Size \in Nat /\ Size > 0
  BY DEF CBufAssumption
<1>2. PICK p \in Nat : p = Len(q.out)
  BY DEF ReadSoFar
<1>3. PICK u \in Nat : u = cbuf_space_used(head, tail) /\ u < Size
  BY SpaceIsBounded, Zenon
<1>4. /\ q.out \in Seq(Bytes) /\ p <= u /\ q.tail = INC_POINTER(tail, p)
      /\ \A i \in 1..p : q.out[i] = buf[INC_POINTER(tail, i - 1)]
  BY <1>2, <1>3, Zenon DEF ReadSoFar
<1>5. PICK t \in Index : /\ t = q.tail /\ t = Wrapped(tail + p)
                         /\ cbuf_space_used(head, t) = u - p
                         /\ t = head <=> p = u
  BY <1>3, <1>4, ReadTail, Zenon
<1>6. PICK c \in Seq(Bytes) : c = Contents(head, tail, buf)
  BY ContentsType, Zenon
<1>7. Len(c) = u /\ \A i \in 1..u : c[i] = buf[INC_POINTER(tail, i - 1)]
  <2>1. Len(c) = u
    BY <1>3, <1>6, ContentsType, Zenon
  <2>2. c = [i \in 1..u |-> buf[INC_POINTER(tail, i - 1)]]
    BY <1>3, <1>6, Zenon DEF Contents
  <2> QED BY <2>1, <2>2, Zenon
<1>8. PICK d \in Seq(Bytes) : d = Contents(head, t, buf)
  BY ContentsType, Zenon
<1>9. Len(d) = u - p /\ \A i \in 1..(u - p) : d[i] = buf[INC_POINTER(t, i - 1)]
  <2>1. Len(d) = u - p
    BY <1>5, <1>8, ContentsType, Zenon
  <2>2. d = [i \in 1..(u - p) |-> buf[INC_POINTER(t, i - 1)]]
    BY <1>5, <1>8, Zenon DEF Contents
  <2> QED BY <2>1, <2>2, Zenon
<1>10. ASSUME NEW i \in 1..(u - p)
       PROVE  INC_POINTER(t, i - 1) = INC_POINTER(tail, p + i - 1)
  <2>1. i - 1 \in 0..Size /\ p + i - 1 \in 0..Size
    BY <1>1, <1>3, <1>4
  <2>2. INC_POINTER(t, i - 1) = Wrapped(t + (i - 1))
    BY <2>1, Increment, Zenon
  <2>3. INC_POINTER(tail, p + i - 1) = Wrapped(tail + (p + i - 1))
    BY <2>1, Increment, Zenon
  <2>4. Wrapped(t + (i - 1)) = Wrapped(tail + (p + i - 1))
    <3>1. t = IF tail + p < Size THEN tail + p ELSE tail + p - Size
      BY <1>1, <1>5 DEF Wrapped, Index
    <3>2. tail \in Nat /\ tail < Size
      BY <1>1 DEF Index
    <3>3. p + i - 1 < Size
      <4>1. u < Size /\ p <= u
        BY <1>3, <1>4
      <4> QED BY <1>1, <4>1
    <3> QED BY <1>1, <3>1, <3>2, <3>3 DEF Wrapped
  <2> QED BY <2>2, <2>3, <2>4, Zenon
<1>11. ASSUME NEW i \in 1..(u - p)
       PROVE  d[i] = c[p + i]
  <2>1. p + i \in 1..u /\ (p + i) - 1 = p + i - 1
    BY <1>4
  <2>2. c[p + i] = buf[INC_POINTER(tail, (p + i) - 1)]
    BY <1>7, <2>1, Zenon
  <2> QED BY <1>9, <1>10, <2>1, <2>2, Zenon
<1>12. q.out = SubSeq(c, 1, p)
  <2>1. PICK o \in Seq(Bytes) : o = q.out /\ Len(o) = p
    BY <1>2, <1>4, Zenon
  <2>2. PICK s : s = SubSeq(c, 1, p)
    BY Zenon
  <2>3. \A i \in 1..p : c[i] \in Bytes
    BY <1>4, <1>7
  <2>4. s \in Seq(Bytes) /\ Len(s) = p /\ \A i \in 1..p : s[i] = c[i]
    BY <1>4, <1>7, <2>2, <2>3
  <2>5. \A i \in 1..p : o[i] = s[i]
    <3>1. ASSUME NEW i \in 1..p
          PROVE  o[i] = s[i]
      <4>1. i \in 1..u
        BY <1>4
      <4>2. o[i] = buf[INC_POINTER(tail, i - 1)]
        BY <1>4, <2>1, Zenon
      <4>3. c[i] = buf[INC_POINTER(tail, i - 1)]
        BY <1>7, <4>1, Zenon
      <4> QED BY <2>4, <4>2, <4>3, Zenon
    <3> QED BY <3>1, Zenon
  <2>6. o = s
    BY <2>1, <2>4, <2>5, SeqEqual, Zenon
  <2> QED BY <2>1, <2>2, <2>6, Zenon
<1>13. d = SubSeq(c, p + 1, u)
  <2>1. PICK s : s = SubSeq(c, p + 1, u)
    BY Zenon
  <2>2. \A i \in (p + 1)..u : c[i] \in Bytes
    BY <1>7
  <2>3. s \in Seq(Bytes) /\ Len(s) = u - p /\ \A i \in 1..(u - p) : s[i] = c[p + i]
    BY <1>4, <1>7, <2>1, <2>2
  <2>4. Len(d) = u - p /\ \A i \in 1..(u - p) : d[i] = s[i]
    BY <1>9, <1>11, <2>3, Zenon
  <2>5. d = s
    BY <2>3, <2>4, SeqEqual, Zenon
  <2> QED BY <2>1, <2>5, Zenon
<1> QED BY <1>2, <1>4, <1>5, <1>6, <1>7, <1>8, <1>12, <1>13, Zenon

-----------------------------------------------------------------------------
(***************************************************************************)
(* The invariant.  The event is signaled exactly while there is data and   *)
(* nobody waits for a signaled event; a reader asked for something.        *)
(***************************************************************************)
IInv ==
  /\ TypeOK /\ EventFollowsData
  /\ \A r \in Readers : pc[r] # "idle" => want[r] > 0

\* The buffer is empty exactly when the head has met the tail.
LEMMA EmptyMeansMet ==
  ASSUME CBufAssumption, NEW h \in Index, NEW t \in Index
  PROVE  cbuf_space_used(h, t) = 0 <=> h = t
<1>1. Size \in Nat /\ Size > 0 /\ h \in Nat /\ t \in Nat /\ h < Size /\ t < Size
  BY DEF CBufAssumption, Index
<1>2. cbuf_space_used(h, t) = IF h >= t THEN h - t ELSE h - t + Size
  BY Used, Zenon
<1> QED BY <1>1, <1>2

\* What a write leaves: the loop has taken as many bytes as there was room for, and the buffer is not
\* empty.
LEMMA WriteResult ==
  ASSUME CBufAssumption, head \in Index, tail \in Index, buf \in [Index -> Bytes],
         NEW k \in Nat \ {0}, NEW bytes \in [1..k -> Bytes],
         NEW w, Written(w, bytes), WriteEnded(w, bytes)
  PROVE  /\ w.head \in Index /\ w.buf \in [Index -> Bytes] /\ w.head # tail
         /\ LET room == (Size - 1) - Len(Contents(head, tail, buf))
                n == IF Len(bytes) < room THEN Len(bytes) ELSE room
            IN  Contents(w.head, tail, w.buf) = Contents(head, tail, buf) \o SubSeq(bytes, 1, n)
<1>1. Size \in Nat /\ Size > 1 /\ Len(bytes) = k
  BY DEF CBufAssumption
<1>2. PICK p \in Nat : p = w.pos /\ p <= k /\ p <= cbuf_space_avail(head, tail)
  BY <1>1 DEF Written
<1>3. PICK u \in Nat : u = cbuf_space_used(head, tail) /\ u < Size
  BY SpaceIsBounded, Zenon
<1>4. cbuf_space_avail(head, tail) = Size - 1 - u
  BY <1>3, Used, Zenon
<1>5. w.head = INC_POINTER(head, p) /\ w.buf \in [Index -> Bytes]
  BY <1>2, Zenon DEF Written
<1>6. w.head \in Index /\ cbuf_space_avail(w.head, tail) = Size - 1 - u - p
  BY <1>2, <1>4, <1>5, WrittenHead, Zenon
<1>7. p = k \/ p = Size - 1 - u
  <2>1. p = k \/ Size - 1 - u - p = 0
    BY <1>1, <1>2, <1>6, Zenon DEF WriteEnded
  <2> QED BY <1>1, <1>2, <1>3, <2>1
<1>8. /\ Contents(w.head, tail, w.buf) = Contents(head, tail, buf) \o SubSeq(bytes, 1, p)
      /\ cbuf_space_used(w.head, tail) = u + p
  BY <1>2, <1>3, WriteAppends, Zenon
<1>9. u + p > 0
  BY <1>1, <1>2, <1>3, <1>7
<1>10. w.head # tail
  BY <1>6, <1>8, <1>9, EmptyMeansMet
<1>11. Len(Contents(head, tail, buf)) = u
  BY <1>3, ContentsType, Zenon
<1>12. p = IF k < (Size - 1) - u THEN k ELSE (Size - 1) - u
  BY <1>1, <1>2, <1>3, <1>4, <1>7
<1> QED BY <1>1, <1>5, <1>6, <1>8, <1>10, <1>11, <1>12, Zenon

\* The single byte of cbuf_write_char() is a write of one byte, made in one turn.
LEMMA WriteCharWrites ==
  ASSUME CBufAssumption, head \in Index, tail \in Index, buf \in [Index -> Bytes],
         NEW c \in Bytes, cbuf_space_avail(head, tail) > 0
  PROVE  LET w == [head |-> INC_POINTER(head, 1), buf |-> [buf EXCEPT ![head] = c], pos |-> 1]
             bytes == [i \in 1..1 |-> c]
         IN  Written(w, bytes) /\ WriteEnded(w, bytes)
<1>1. Size \in Nat /\ Size > 0 /\ head \in Nat /\ head < Size
  BY DEF CBufAssumption, Index
<1>2. PICK bytes : bytes = [i \in 1..1 |-> c]
  BY Zenon
<1>3. bytes \in [1..1 -> Bytes] /\ Len(bytes) = 1 /\ bytes[1] = c
  BY <1>2
<1>4. PICK w : w = [head |-> INC_POINTER(head, 1), buf |-> [buf EXCEPT ![head] = c], pos |-> 1]
  BY Zenon
<1>5. w.pos = 1 /\ w.head = INC_POINTER(head, 1) /\ w.buf = [buf EXCEPT ![head] = c]
  BY <1>4, Zenon
<1>6. 1 <= cbuf_space_avail(head, tail)
  BY SpaceIsBounded
<1>7. ASSUME NEW j \in Index
      PROVE  w.buf[INC_POINTER(head, j)] =
               IF j < 1 THEN bytes[j + 1] ELSE buf[INC_POINTER(head, j)]
  <2>1. j \in 0..Size /\ j \in Nat /\ j < Size
    BY <1>1 DEF Index
  <2>2. INC_POINTER(head, j) = Wrapped(head + j) /\ INC_POINTER(head, j) \in Index
    BY <2>1, Increment, Zenon
  <2>3. CASE j = 0
    <3>1. Wrapped(head + j) = head
      BY <1>1, <2>3 DEF Wrapped
    <3>2. j < 1 /\ j + 1 = 1
      BY <2>3
    <3> QED BY <1>3, <1>5, <2>2, <3>1, <3>2, Zenon
  <2>4. CASE j # 0
    <3>1. Wrapped(head + j) # head
      BY <1>1, <2>1, <2>4 DEF Wrapped
    <3>2. ~(j < 1)
      BY <2>1, <2>4
    <3> QED BY <1>5, <2>2, <3>1, <3>2, Zenon
  <2> QED BY <2>3, <2>4, Zenon
<1>8. w.buf \in [Index -> Bytes]
  BY <1>5, Zenon
<1>9. Written(w, bytes)
  BY <1>3, <1>5, <1>6, <1>7, <1>8 DEF Written
<1>10. WriteEnded(w, bytes)
  BY <1>3, <1>5, Zenon DEF WriteEnded
<1> QED BY <1>2, <1>4, <1>9, <1>10, Zenon

\* What a read that finds data leaves: it was given the first bytes, at least one of them.
LEMMA ReadResult ==
  ASSUME CBufAssumption, head \in Index, tail \in Index, buf \in [Index -> Bytes],
         tail # head, NEW buflen \in Nat \ {0}, NEW q, ReadSoFar(q, buflen), ReadEnded(q, buflen)
  PROVE  LET c == Contents(head, tail, buf)
         IN  /\ q.tail \in Index /\ Len(q.out) \in 1..Len(c) /\ Len(q.out) <= buflen
             /\ q.out = SubSeq(c, 1, Len(q.out))
             /\ Contents(head, q.tail, buf) = SubSeq(c, Len(q.out) + 1, Len(c))
<1>1. PICK c \in Seq(Bytes) : c = Contents(head, tail, buf)
  BY ContentsType, Zenon
<1>2. PICK u \in Nat : u = Len(c)
  BY <1>1
<1>3. u # 0
  BY <1>1, <1>2, ContentsType, EmptyMeansMet
<1>4. PICK n \in Nat : n = Len(q.out) /\ n <= buflen /\ n <= u
  BY <1>1, <1>2, ReadRemoves, Zenon DEF ReadSoFar
<1>5. /\ q.tail \in Index /\ q.out = SubSeq(c, 1, n)
      /\ Contents(head, q.tail, buf) = SubSeq(c, n + 1, u)
      /\ q.tail = head <=> n = u
  BY <1>1, <1>2, <1>4, ReadRemoves, Zenon
<1>6. n = buflen \/ n = u
  BY <1>4, <1>5, Zenon DEF ReadEnded
<1>7. n \in 1..u
  BY <1>3, <1>4, <1>6
<1> QED BY <1>1, <1>2, <1>4, <1>5, <1>7, Zenon

-----------------------------------------------------------------------------
\* The steps

\* What a write of bytes does to the contents, and a read of n bytes.
Appends(bytes) ==
  LET room == (Size - 1) - Len(Contents(head, tail, buf))
      n == IF Len(bytes) < room THEN Len(bytes) ELSE room
  IN /\ Contents(head', tail', buf') = Contents(head, tail, buf) \o SubSeq(bytes, 1, n)
     /\ moved' = bytes
Removes(n) ==
  LET c == Contents(head, tail, buf)
  IN moved' = SubSeq(c, 1, n) /\ Contents(head', tail', buf') = SubSeq(c, n + 1, Len(c))

\* event_signal() while there is data: the event says so, and nobody waits for it any more.
LEMMA SignalKeeps ==
  ASSUME IInv, event_signal, want' = want, moved' \in Seq(Bytes),
         head' \in Index, tail' \in Index, buf' \in [Index -> Bytes], head' # tail'
  PROVE  IInv'
<1>1. /\ event' = TRUE
      /\ pc' = [r \in Readers |-> IF pc[r] = "waiting" THEN "woken" ELSE pc[r]]
  BY Zenon DEF event_signal
<1>2. /\ pc \in [Readers -> {"idle", "waiting", "woken"}]
      /\ want \in [Readers -> 0..MaxRead]
  BY Zenon DEF IInv, TypeOK
<1>3. pc' \in [Readers -> {"idle", "waiting", "woken"}]
  BY <1>1, <1>2, Zenon
<1>4. TypeOK'
  BY <1>1, <1>2, <1>3, Zenon DEF TypeOK, Index
<1>5. \A r \in Readers : pc'[r] # "waiting"
  BY <1>1, <1>2, Zenon
<1>6. EventFollowsData'
  BY <1>1, <1>5, Zenon DEF EventFollowsData
<1>7. \A r \in Readers : pc'[r] # "idle" => want'[r] > 0
  BY <1>1, <1>2, Zenon DEF IInv
<1> QED BY <1>4, <1>6, <1>7, Zenon DEF IInv

\* cbuf_write()
LEMMA WriteStep ==
  ASSUME CBufAssumption, IInv, NEW k \in 1..MaxWrite, NEW bytes \in [1..k -> Bytes],
         cbuf_write(bytes)
  PROVE  IInv' /\ Appends(bytes)
<1>1. head \in Index /\ tail \in Index /\ buf \in [Index -> Bytes] /\ k \in Nat \ {0}
  BY DEF IInv, TypeOK, Index, CBufAssumption
<1>2. PICK w : w = WriteLoop([head |-> head, buf |-> buf, pos |-> 0], bytes)
  BY Zenon
<1>3. Written(w, bytes) /\ WriteEnded(w, bytes)
  BY <1>1, <1>2, WriteLoopEnds, Zenon
<1>4. /\ head' = w.head /\ buf' = w.buf /\ tail' = tail /\ want' = want /\ moved' = bytes
      /\ IF w.head # tail THEN event_signal ELSE UNCHANGED <<event, pc>>
  BY <1>2, Zenon DEF cbuf_write
<1>5. /\ w.head \in Index /\ w.buf \in [Index -> Bytes] /\ w.head # tail
      /\ LET room == (Size - 1) - Len(Contents(head, tail, buf))
             n == IF Len(bytes) < room THEN Len(bytes) ELSE room
         IN  Contents(w.head, tail, w.buf) = Contents(head, tail, buf) \o SubSeq(bytes, 1, n)
  BY <1>1, <1>3, WriteResult, Zenon
<1>6. bytes \in Seq(Bytes)
  BY <1>1
<1>7. IInv'
  BY <1>1, <1>4, <1>5, <1>6, SignalKeeps, Zenon
<1>8. Appends(bytes)
  BY <1>4, <1>5, Zenon DEF Appends
<1> QED BY <1>7, <1>8, Zenon

\* cbuf_write_char()
LEMMA WriteCharStep ==
  ASSUME CBufAssumption, IInv, NEW c \in Bytes, cbuf_write_char(c)
  PROVE  IInv' /\ Appends([i \in 1..1 |-> c])
<1>1. head \in Index /\ tail \in Index /\ buf \in [Index -> Bytes]
  BY Zenon DEF IInv, TypeOK, Index
<1>2. PICK w : w = [head |-> INC_POINTER(head, 1), buf |-> [buf EXCEPT ![head] = c], pos |-> 1]
  BY Zenon
<1>3. PICK bytes : bytes = [i \in 1..1 |-> c]
  BY Zenon
<1>4. /\ cbuf_space_avail(head, tail) > 0
      /\ head' = w.head /\ buf' = w.buf /\ tail' = tail /\ want' = want /\ moved' = <<c>>
      /\ IF w.head # tail THEN event_signal ELSE UNCHANGED <<event, pc>>
  BY <1>2, Zenon DEF cbuf_write_char
<1>5. Written(w, bytes) /\ WriteEnded(w, bytes)
  BY <1>1, <1>2, <1>3, <1>4, WriteCharWrites, Zenon
<1>6. bytes \in [1..1 -> Bytes] /\ 1 \in Nat \ {0}
  BY <1>3
<1>7. /\ w.head \in Index /\ w.buf \in [Index -> Bytes] /\ w.head # tail
      /\ LET room == (Size - 1) - Len(Contents(head, tail, buf))
             n == IF Len(bytes) < room THEN Len(bytes) ELSE room
         IN  Contents(w.head, tail, w.buf) = Contents(head, tail, buf) \o SubSeq(bytes, 1, n)
  BY <1>1, <1>5, <1>6, WriteResult, Zenon
<1>8. <<c>> \in Seq(Bytes) /\ <<c>> = bytes
  BY <1>3
<1>9. IInv'
  BY <1>1, <1>4, <1>7, <1>8, SignalKeeps, Zenon
<1>10. Appends(bytes)
  BY <1>4, <1>7, <1>8, Zenon DEF Appends
<1> QED BY <1>3, <1>9, <1>10, Zenon

\* A read that starts to wait, or need not.
LEMMA ReadStep ==
  ASSUME CBufAssumption, IInv, NEW r \in Readers, NEW n \in 1..MaxRead, cbuf_read(r, n)
  PROVE  IInv' /\ UNCHANGED <<ring, moved>>
<1>1. /\ want' = [want EXCEPT ![r] = n]
      /\ pc' = [pc EXCEPT ![r] = IF event THEN "woken" ELSE "waiting"]
      /\ UNCHANGED <<ring, event, moved>>
  BY Zenon DEF cbuf_read
<1>2. head' = head /\ tail' = tail /\ buf' = buf /\ event' = event /\ moved' = moved
  BY <1>1, Zenon DEF ring
<1>3. n > 0 /\ n \in 0..MaxRead
  BY DEF CBufAssumption
<1>4. /\ pc \in [Readers -> {"idle", "waiting", "woken"}] /\ want \in [Readers -> 0..MaxRead]
  BY Zenon DEF IInv, TypeOK
<1>5. TypeOK'
  BY <1>1, <1>2, <1>3, Zenon DEF IInv, TypeOK
<1>6. EventFollowsData'
  <2>1. ASSUME NEW s \in Readers, pc'[s] = "waiting"
        PROVE  ~event
    <3>1. CASE s = r
      BY <1>1, <1>4, <2>1, <3>1, Zenon
    <3>2. CASE s # r
      BY <1>1, <1>4, <2>1, <3>2, Zenon DEF IInv, EventFollowsData
    <3> QED BY <3>1, <3>2, Zenon
  <2> QED BY <1>2, <2>1, Zenon DEF IInv, EventFollowsData
<1>7. \A s \in Readers : pc'[s] # "idle" => want'[s] > 0
  BY <1>1, <1>3, <1>4, Zenon DEF IInv
<1> QED BY <1>1, <1>5, <1>6, <1>7, Zenon DEF IInv

\* What taking q out of the buffer does to the event, which is cleared when nothing is left.
LEMMA TakenKeeps ==
  ASSUME CBufAssumption, IInv, tail # head, NEW q, q.tail \in Index, q.out \in Seq(Bytes),
         tail' = q.tail, moved' = q.out, event' = (IF Emptied(q) THEN FALSE ELSE event),
         head' = head, buf' = buf,
         pc' \in [Readers -> {"idle", "waiting", "woken"}], want' \in [Readers -> 0..MaxRead],
         \A r \in Readers : pc'[r] = "waiting" => pc[r] = "waiting",
         \A r \in Readers : pc'[r] # "idle" => want'[r] > 0
  PROVE  IInv'
<1>1. /\ head \in Index /\ buf \in [Index -> Bytes] /\ event = (head # tail)
      /\ \A r \in Readers : pc[r] # "waiting"
  BY Zenon DEF IInv, TypeOK, Index, EventFollowsData
<1>2. event' = (head # q.tail)
  BY <1>1, Zenon DEF Emptied
<1>3. TypeOK'
  BY <1>1, <1>2, Zenon DEF TypeOK, Index
<1>4. EventFollowsData'
  BY <1>1, <1>2, Zenon DEF EventFollowsData
<1> QED BY <1>3, <1>4, Zenon DEF IInv

\* A woken reader, with the lock: it takes data, or waits again when another reader was faster.
LEMMA ReadDataStep ==
  ASSUME CBufAssumption, IInv, NEW r \in Readers, ReadData(r)
  PROVE  /\ IInv'
         /\ UNCHANGED <<ring, moved>> \/ \E n \in 1..Len(Contents(head, tail, buf)) : Removes(n)
<1>1. /\ head \in Index /\ tail \in Index /\ buf \in [Index -> Bytes]
      /\ pc \in [Readers -> {"idle", "waiting", "woken"}] /\ want \in [Readers -> 0..MaxRead]
      /\ MaxRead \in Nat
  BY Zenon DEF IInv, TypeOK, Index, CBufAssumption
<1>2. PICK q : q = ReadLoop([tail |-> tail, out |-> <<>>], want[r])
  BY Zenon
<1>3. pc[r] = "woken" /\ head' = head /\ buf' = buf
  BY Zenon DEF ReadData
<1>4. want[r] \in Nat \ {0} /\ want[r] <= MaxRead
  BY <1>1, <1>3 DEF IInv
<1>5. CASE tail # head
  <2>1. /\ tail' = q.tail /\ moved' = q.out
        /\ event' = IF Emptied(q) THEN FALSE ELSE event
        /\ pc' = [pc EXCEPT ![r] = "idle"] /\ want' = [want EXCEPT ![r] = 0]
    BY <1>2, <1>5, Zenon DEF ReadData
  <2>2. ReadSoFar(q, want[r]) /\ ReadEnded(q, want[r])
    BY <1>1, <1>2, <1>4, ReadLoopEnds, Zenon
  <2>3. LET c == Contents(head, tail, buf)
        IN  /\ q.tail \in Index /\ Len(q.out) \in 1..Len(c) /\ Len(q.out) <= want[r]
            /\ q.out = SubSeq(c, 1, Len(q.out))
            /\ Contents(head, q.tail, buf) = SubSeq(c, Len(q.out) + 1, Len(c))
    BY <1>1, <1>4, <1>5, <2>2, ReadResult, Zenon
  <2>4. Removes(Len(q.out))
    BY <1>3, <2>1, <2>3, Zenon DEF Removes
  <2>5. q.out \in Seq(Bytes)
    BY <2>2, Zenon DEF ReadSoFar
  <2>6. /\ pc' \in [Readers -> {"idle", "waiting", "woken"}] /\ want' \in [Readers -> 0..MaxRead]
    BY <1>1, <2>1
  <2>7. \A s \in Readers : pc'[s] = "waiting" => pc[s] = "waiting"
    BY <1>1, <2>1, Zenon
  <2>8. \A s \in Readers : pc'[s] # "idle" => want'[s] > 0
    BY <1>1, <2>1, Zenon DEF IInv
  <2>9. IInv'
    BY <1>3, <1>5, <2>1, <2>3, <2>5, <2>6, <2>7, <2>8, TakenKeeps, Zenon
  <2> QED BY <2>3, <2>4, <2>9, Zenon
<1>6. CASE tail = head
  <2>1. /\ pc' = [pc EXCEPT ![r] = IF event THEN "woken" ELSE "waiting"]
        /\ tail' = tail /\ event' = event /\ moved' = moved /\ want' = want
    BY <1>6, Zenon DEF ReadData
  <2>2. ~event
    BY <1>6, Zenon DEF IInv, EventFollowsData
  <2>3. TypeOK'
    BY <1>3, <2>1, Zenon DEF IInv, TypeOK
  <2>4. EventFollowsData'
    BY <1>3, <2>1, <2>2, Zenon DEF IInv, EventFollowsData
  <2>5. \A s \in Readers : pc'[s] # "idle" => want'[s] > 0
    BY <1>1, <1>3, <2>1, Zenon DEF IInv
  <2> QED BY <1>3, <2>1, <2>3, <2>4, <2>5, Zenon DEF IInv, ring
<1> QED BY <1>5, <1>6, Zenon

\* A read that does not wait.
LEMMA PollStep ==
  ASSUME CBufAssumption, IInv, NEW r \in Readers, NEW m \in 1..MaxRead, Poll(r, m)
  PROVE  IInv' /\ \E n \in 1..Len(Contents(head, tail, buf)) : Removes(n)
<1>1. /\ head \in Index /\ tail \in Index /\ buf \in [Index -> Bytes]
      /\ pc \in [Readers -> {"idle", "waiting", "woken"}] /\ want \in [Readers -> 0..MaxRead]
      /\ MaxRead \in Nat /\ m \in Nat \ {0} /\ m <= MaxRead
  BY DEF IInv, TypeOK, Index, CBufAssumption
<1>2. PICK q : q = ReadLoop([tail |-> tail, out |-> <<>>], m)
  BY Zenon
<1>3. /\ tail # head /\ tail' = q.tail /\ moved' = q.out
      /\ event' = IF Emptied(q) THEN FALSE ELSE event
      /\ head' = head /\ buf' = buf /\ pc' = pc /\ want' = want
  BY <1>2, Zenon DEF Poll
<1>4. ReadSoFar(q, m) /\ ReadEnded(q, m)
  BY <1>1, <1>2, ReadLoopEnds, Zenon
<1>5. LET c == Contents(head, tail, buf)
      IN  /\ q.tail \in Index /\ Len(q.out) \in 1..Len(c) /\ Len(q.out) <= m
          /\ q.out = SubSeq(c, 1, Len(q.out))
          /\ Contents(head, q.tail, buf) = SubSeq(c, Len(q.out) + 1, Len(c))
  BY <1>1, <1>3, <1>4, ReadResult, Zenon
<1>6. Removes(Len(q.out))
  BY <1>3, <1>5, Zenon DEF Removes
<1>7. q.out \in Seq(Bytes)
  BY <1>4, Zenon DEF ReadSoFar
<1>8. \A s \in Readers : pc'[s] # "idle" => want'[s] > 0
  BY <1>3, Zenon DEF IInv
<1>9. IInv'
  BY <1>1, <1>3, <1>5, <1>7, <1>8, TakenKeeps, Zenon
<1> QED BY <1>5, <1>6, <1>9, Zenon

-----------------------------------------------------------------------------
\* The theorems

\* The buffer is empty at the start.
LEMMA InitHolds ==
  ASSUME CBufAssumption, Init
  PROVE  IInv /\ Contents(head, tail, buf) = <<>>
<1>1. Size \in Nat /\ Size > 0 /\ MaxRead \in Nat
  BY DEF CBufAssumption
<1>2. /\ head = 0 /\ tail = 0 /\ event = FALSE /\ moved = <<>>
      /\ pc = [r \in Readers |-> "idle"] /\ want = [r \in Readers |-> 0]
  BY Zenon DEF Init
<1>3. buf \in [Index -> Bytes]
  <2>1. (CHOOSE b \in Bytes : TRUE) \in Bytes
    BY Zenon DEF CBufAssumption
  <2>2. buf \in [Index -> {CHOOSE b \in Bytes : TRUE}]
    BY Zenon DEF Init, Index
  <2> QED BY <2>1, <2>2, Zenon
<1>4. 0 \in Index
  BY <1>1 DEF Index
<1>5. TypeOK
  <2>1. moved \in Seq(Bytes)
    BY <1>2
  <2>2. pc \in [Readers -> {"idle", "waiting", "woken"}]
    BY <1>2, Zenon
  <2>3. want \in [Readers -> 0..MaxRead]
    BY <1>1, <1>2
  <2>4. head \in 0..(Size - 1) /\ tail \in 0..(Size - 1) /\ buf \in [0..(Size - 1) -> Bytes]
    BY <1>2, <1>3, <1>4, Zenon DEF Index
  <2>5. event \in BOOLEAN
    BY <1>2, Zenon
  <2> QED BY <2>1, <2>2, <2>3, <2>4, <2>5, Zenon DEF TypeOK
<1>6. IInv
  BY <1>2, <1>5, Zenon DEF IInv, EventFollowsData
<1>7. cbuf_space_used(0, 0) = 0
  BY <1>4, EmptyMeansMet, Zenon
<1>8. Contents(head, tail, buf) \in Seq(Bytes) /\ Len(Contents(head, tail, buf)) = 0
  BY <1>2, <1>3, <1>4, <1>7, ContentsType, Zenon
<1>9. Contents(head, tail, buf) = <<>>
  BY <1>8
<1> QED BY <1>6, <1>9, Zenon

\* Every step of the buffer keeps the invariant, and appends to the contents, removes from them or
\* leaves them alone.
LEMMA NextKeeps ==
  ASSUME CBufAssumption, IInv, [Next]_vars
  PROVE  /\ IInv'
         /\ \/ UNCHANGED <<ring, moved>>
            \/ \E k \in 1..MaxWrite : \E bytes \in [1..k -> Bytes] : Appends(bytes)
            \/ \E n \in 1..Len(Contents(head, tail, buf)) : Removes(n)
<1>1. CASE UNCHANGED vars
  <2>1. /\ head' = head /\ tail' = tail /\ buf' = buf /\ event' = event /\ pc' = pc
        /\ want' = want /\ moved' = moved
    BY <1>1, Zenon DEF vars, ring
  <2> QED BY <2>1, Zenon DEF IInv, TypeOK, EventFollowsData, ring
<1>2. ASSUME NEW k \in 1..MaxWrite, NEW bytes \in [1..k -> Bytes], cbuf_write(bytes)
      PROVE  IInv' /\ Appends(bytes)
  BY <1>2, WriteStep, Zenon
<1>3. ASSUME NEW c \in Bytes, cbuf_write_char(c)
      PROVE  IInv' /\ \E k \in 1..MaxWrite : \E bytes \in [1..k -> Bytes] : Appends(bytes)
  <2>1. IInv' /\ Appends([i \in 1..1 |-> c])
    BY <1>3, WriteCharStep, Zenon
  <2>2. 1 \in 1..MaxWrite
    BY DEF CBufAssumption
  <2>3. [i \in 1..1 |-> c] \in [1..1 -> Bytes]
    BY Zenon
  <2> QED BY <2>1, <2>2, <2>3, Zenon
<1>4. ASSUME NEW r \in Readers, ReadData(r)
      PROVE  /\ IInv'
             /\ UNCHANGED <<ring, moved>> \/ \E n \in 1..Len(Contents(head, tail, buf)) : Removes(n)
  BY <1>4, ReadDataStep, Zenon
<1>5. ASSUME NEW r \in Readers, NEW n \in 1..MaxRead, cbuf_read(r, n)
      PROVE  IInv' /\ UNCHANGED <<ring, moved>>
  BY <1>5, ReadStep, Zenon
<1>6. ASSUME NEW r \in Readers, NEW m \in 1..MaxRead, Poll(r, m)
      PROVE  IInv' /\ \E n \in 1..Len(Contents(head, tail, buf)) : Removes(n)
  BY <1>6, PollStep, Zenon
<1>7. CASE Next
  <2>1. \/ \E k \in 1..MaxWrite : \E bytes \in [1..k -> Bytes] : cbuf_write(bytes)
        \/ \E c \in Bytes : cbuf_write_char(c)
        \/ \E r \in Readers : ReadData(r)
        \/ \E r \in Readers : \E n \in 1..MaxRead : cbuf_read(r, n)
        \/ \E r \in Readers : \E n \in 1..MaxRead : Poll(r, n)
    BY <1>7, Zenon DEF Next
  <2> QED BY <1>2, <1>3, <1>4, <1>5, <1>6, <2>1, Zenon
<1> QED BY <1>1, <1>7, Zenon

\* The invariant holds in every state of the buffer.
THEOREM Invariance ==
  ASSUME CBufAssumption
  PROVE  Spec => []IInv
<1>1. Init => IInv
  BY InitHolds, Zenon
<1>2. IInv /\ [Next]_vars => IInv'
  BY NextKeeps, Zenon
<1> QED BY <1>1, <1>2, PTL DEF Spec

\* The event is signaled exactly while there is data, and no reader sleeps while there is some.
THEOREM NobodySleepsOnData ==
  ASSUME CBufAssumption
  PROVE  Spec => []EventFollowsData
<1>1. IInv => EventFollowsData
  BY Zenon DEF IInv
<1> QED BY <1>1, Invariance, PTL

\* The circular buffer is a bounded FIFO: what is written is appended, as much of it as fits, what is
\* read is taken from the front, and wrapping around the end loses, repeats and reorders nothing.
THEOREM Refinement ==
  ASSUME CBufAssumption
  PROVE  Spec => ImplementsFifo
<1>1. Init => Fifo!Init
  <2> SUFFICES ASSUME Init PROVE Fifo!Init
    BY Zenon
  <2>1. head \in Index /\ tail \in Index
    BY InitHolds, Zenon DEF IInv, TypeOK, Index
  <2>2. cbuf_peek = Contents(head, tail, buf)
    BY <2>1, RegionsAreContents, Zenon DEF cbuf_peek
  <2>3. cbuf_peek = <<>> /\ moved = <<>>
    BY <2>2, InitHolds, Zenon DEF Init
  <2> QED BY <2>3, Zenon DEF Fifo!Init
<1>2. IInv /\ [Next]_vars => [Fifo!Next]_<<cbuf_peek, moved>>
  <2> SUFFICES ASSUME IInv, [Next]_vars PROVE [Fifo!Next]_<<cbuf_peek, moved>>
    BY Zenon
  <2>1. head \in Index /\ tail \in Index /\ head' \in Index /\ tail' \in Index
    BY NextKeeps, Zenon DEF IInv, TypeOK, Index
  <2>2. cbuf_peek = Contents(head, tail, buf)
    BY <2>1, RegionsAreContents, Zenon DEF cbuf_peek
  <2>3. cbuf_peek' = Contents(head', tail', buf')
    BY <2>1, RegionsAreContents, Zenon DEF cbuf_peek
  <2>4. CASE UNCHANGED <<ring, moved>>
    <3>1. head' = head /\ tail' = tail /\ buf' = buf /\ moved' = moved
      BY <2>4, Zenon DEF ring
    <3>2. cbuf_peek' = cbuf_peek
      BY <2>2, <2>3, <3>1, Zenon
    <3> QED BY <3>1, <3>2, Zenon
  <2>5. ASSUME NEW k \in 1..MaxWrite, NEW bytes \in [1..k -> Bytes], Appends(bytes)
        PROVE  Fifo!Put(bytes)
    BY <2>2, <2>3, <2>5, Zenon DEF Appends, Fifo!Put
  <2>6. ASSUME NEW n \in 1..Len(Contents(head, tail, buf)), Removes(n)
        PROVE  n \in 1..Len(cbuf_peek) /\ Fifo!Get(n)
    BY <2>2, <2>3, <2>6, Zenon DEF Removes, Fifo!Get
  <2>7. \/ UNCHANGED <<ring, moved>>
        \/ \E k \in 1..MaxWrite : \E bytes \in [1..k -> Bytes] : Appends(bytes)
        \/ \E n \in 1..Len(Contents(head, tail, buf)) : Removes(n)
    BY NextKeeps, Zenon
  <2> QED BY <2>4, <2>5, <2>6, <2>7, Zenon DEF Fifo!Next
<1> QED BY <1>1, <1>2, Invariance, PTL DEF Spec, ImplementsFifo, Fifo!Spec

\* The circular buffer is a bounded FIFO that readers can wait for: it implements one, and its event
\* says whether there is data.
THEOREM BlockingFifo ==
  ASSUME CBufAssumption
  PROVE  Spec => IsABlockingFifo
<1>1. (ImplementsFifo /\ []EventFollowsData) => IsABlockingFifo
  BY Zenon DEF IsABlockingFifo
<1> QED BY <1>1, Refinement, NobodySleepsOnData, PTL
=============================================================================
