-------------------------------- MODULE CBuf --------------------------------
(***************************************************************************)
(* lib/cbuf/cbuf.c: a circular buffer between interrupt handlers or        *)
(* threads that write and threads that read.  A reader may wait, outside   *)
(* the buffer's lock, for an event that is signaled while there is data;   *)
(* each read and each write is one step, made with the lock held.          *)
(*                                                                         *)
(* Copies are made in runs that end at the end of the buffer: a run of     *)
(* cbuf_write() or cbuf_read() is one turn of its loop.                    *)
(***************************************************************************)
EXTENDS Integers, Sequences, FiniteSets

CONSTANTS Readers, Bytes,
          Size,              \* valpow2(len_pow2)
          MaxWrite, MaxRead  \* the longest write and the longest read

\* What the constants must be.
CBufAssumption ==
  /\ Bytes # {} /\ Size \in Nat /\ \E k \in 0..Size : Size = 2^k
  /\ MaxWrite \in 1..(Size - 1) /\ MaxRead \in Nat \ {0}

VARIABLES head, tail, buf, event,
          pc, want,          \* each reader, and the buflen it called with
          moved              \* the bytes the last write was called with or the last read returned

ring == <<head, tail, buf>>
vars == <<ring, event, pc, want, moved>>

INC_POINTER(ptr, inc) == (ptr + inc) % Size
cbuf_space_used(h, t) == (h - t) % Size
cbuf_space_avail(h, t) == Size - cbuf_space_used(h, t) - 1
Least(a, b) == IF a < b THEN a ELSE b

TypeOK ==
  /\ head \in 0..(Size - 1) /\ tail \in 0..(Size - 1)
  /\ buf \in [0..(Size - 1) -> Bytes] /\ event \in BOOLEAN
  /\ pc \in [Readers -> {"idle", "waiting", "woken"}]
  /\ want \in [Readers -> 0..MaxRead] /\ moved \in Seq(Bytes)

Init ==
  /\ head = 0 /\ tail = 0 /\ event = FALSE
  /\ buf \in [0..(Size - 1) -> {CHOOSE b \in Bytes : TRUE}]
  /\ pc = [r \in Readers |-> "idle"] /\ want = [r \in Readers |-> 0]
  /\ moved = <<>>

(***************************************************************************)
(* Writing.  A state of the loop is [head, buf, pos].                      *)
(***************************************************************************)
RunFrom(h, t) == CASE h >= t /\ t = 0 -> Size - h - 1
                   [] h >= t /\ t # 0 -> Size - h
                   [] OTHER -> t - h - 1

\* Fault: the second turn copies from the start of the bytes again.
CopiesFromStart(w, bytes) ==
  LET n == Least(RunFrom(w.head, tail), Len(bytes) - w.pos)
  IN IF w.pos = Len(bytes) \/ cbuf_space_avail(w.head, tail) = 0 \/ n = 0 THEN w
     ELSE [head |-> INC_POINTER(w.head, n),
           buf |-> [i \in 0..(Size - 1) |-> IF i \in w.head..(w.head + n - 1)
                                            THEN bytes[1 + i - w.head] ELSE w.buf[i]],
           pos |-> w.pos + n]

\* one turn of the loop
WriteTurn(w, bytes) ==
  LET n == Least(RunFrom(w.head, tail), Len(bytes) - w.pos)
  IN IF w.pos = Len(bytes) \/ cbuf_space_avail(w.head, tail) = 0 \/ n = 0 THEN w
     ELSE [head |-> INC_POINTER(w.head, n),
           buf |-> [i \in 0..(Size - 1) |-> IF i \in w.head..(w.head + n - 1)
                                            THEN bytes[w.pos + 1 + i - w.head] ELSE w.buf[i]],
           pos |-> w.pos + n]

\* The second turn starts at the beginning of the buffer, if there is one, and then the
\* loop has ended (CBufProofs!WriteLoopEnds).
WriteLoop(w, bytes) == WriteTurn(WriteTurn(w, bytes), bytes)

\* A signal wakes all the readers that wait; the event stays signaled.
event_signal == /\ event' = TRUE
                /\ pc' = [r \in Readers |-> IF pc[r] = "waiting" THEN "woken" ELSE pc[r]]

cbuf_write(bytes) ==
  LET w == WriteLoop([head |-> head, buf |-> buf, pos |-> 0], bytes)
  IN /\ head' = w.head /\ buf' = w.buf
     /\ IF w.head # tail THEN event_signal ELSE UNCHANGED <<event, pc>>
     /\ moved' = bytes /\ UNCHANGED <<tail, want>>

cbuf_write_char(c) ==
  /\ cbuf_space_avail(head, tail) > 0
  /\ buf' = [buf EXCEPT ![head] = c]
  /\ head' = INC_POINTER(head, 1)
  /\ IF head' # tail THEN event_signal ELSE UNCHANGED <<event, pc>>
  /\ moved' = <<c>> /\ UNCHANGED <<tail, want>>

(***************************************************************************)
(* Reading.  A state of the loop is [tail, out].                           *)
(***************************************************************************)
\* one turn of the loop
ReadTurn(q, buflen) ==
  LET n == Least(IF head > q.tail THEN head - q.tail ELSE Size - q.tail, buflen - Len(q.out))
  IN IF Len(q.out) = buflen \/ q.tail = head THEN q
     ELSE [tail |-> INC_POINTER(q.tail, n),
           out |-> q.out \o [i \in 1..n |-> buf[q.tail + i - 1]]]

\* "at most this will make two passes to deal with wraparound" (CBufProofs!ReadLoopEnds)
ReadLoop(q, buflen) == ReadTurn(ReadTurn(q, buflen), buflen)

Emptied(q) == q.tail = head

\* a read that blocks: event_wait(), outside the lock  (cbuf_read_char() is a read of one byte)
cbuf_read(r, buflen) ==
  /\ pc[r] = "idle"
  /\ want' = [want EXCEPT ![r] = buflen]
  /\ pc' = [pc EXCEPT ![r] = IF event THEN "woken" ELSE "waiting"]
  /\ UNCHANGED <<ring, event, moved>>

\* with the lock; when another reader was faster, it waits again
ReadData(r) ==
  LET q == ReadLoop([tail |-> tail, out |-> <<>>], want[r])
  IN /\ pc[r] = "woken"
     /\ IF tail # head
        THEN /\ tail' = q.tail /\ moved' = q.out
             /\ event' = IF Emptied(q) THEN FALSE ELSE event
             /\ pc' = [pc EXCEPT ![r] = "idle"]
             /\ want' = [want EXCEPT ![r] = 0]
        ELSE /\ pc' = [pc EXCEPT ![r] = IF event THEN "woken" ELSE "waiting"]
             /\ UNCHANGED <<tail, event, moved, want>>
     /\ UNCHANGED <<head, buf>>

\* a read that does not block
Poll(r, buflen) ==
  LET q == ReadLoop([tail |-> tail, out |-> <<>>], buflen)
  IN /\ pc[r] = "idle" /\ tail # head
     /\ tail' = q.tail /\ moved' = q.out
     /\ event' = IF Emptied(q) THEN FALSE ELSE event
     /\ UNCHANGED <<head, buf, pc, want>>

Next ==
  \/ \E k \in 1..MaxWrite : \E bytes \in [1..k -> Bytes] : cbuf_write(bytes)
  \/ \E c \in Bytes : cbuf_write_char(c)
  \/ \E r \in Readers :
       ReadData(r) \/ \E n \in 1..MaxRead : cbuf_read(r, n) \/ Poll(r, n)

Spec == Init /\ [][Next]_vars

(***************************************************************************)
(* Properties                                                              *)
(***************************************************************************)
\* cbuf_peek(): the two regions it returns, one after the other
cbuf_peek ==
  LET used == cbuf_space_used(head, tail)
      first == IF used + tail > Size THEN Size - tail ELSE used
  IN [i \in 1..used |-> IF i <= first THEN buf[tail + i - 1] ELSE buf[i - first - 1]]

Fifo == INSTANCE BoundedFifo WITH queue <- cbuf_peek, Capacity <- Size - 1

\* What cbuf_peek() shows is a bounded FIFO: reads and writes that wrap around the end lose, repeat
\* and reorder nothing, and a reader is given the bytes that were first.
ImplementsFifo == Fifo!Spec

\* The event says whether there is data, so that no reader sleeps while there is some.
EventFollowsData ==
  /\ event = (head # tail)
  /\ (\E r \in Readers : pc[r] = "waiting") => ~event

\* The circular buffer is a bounded FIFO for its readers and writers, and its event says whether
\* there is data.
IsABlockingFifo == ImplementsFifo /\ []EventFollowsData
=============================================================================
