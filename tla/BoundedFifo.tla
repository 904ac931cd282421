---------------------------- MODULE BoundedFifo ----------------------------
(***************************************************************************)
(* What lib/cbuf promises: bytes come out in the order they went in, each  *)
(* once, and no more than Capacity of them are ever inside.                *)
(***************************************************************************)
EXTENDS Naturals, Sequences

CONSTANTS Bytes, Capacity, MaxWrite

VARIABLES queue,
          moved    \* what the last write was called with, or the last read was given

\* a write takes as many of its bytes as fit
Put(bytes) ==
  LET room == Capacity - Len(queue)
      n == IF Len(bytes) < room THEN Len(bytes) ELSE room
  IN queue' = queue \o SubSeq(bytes, 1, n) /\ moved' = bytes

Get(n) ==
  /\ moved' = SubSeq(queue, 1, n)
  /\ queue' = SubSeq(queue, n + 1, Len(queue))

Init == queue = <<>> /\ moved = <<>>

Next == \/ \E k \in 1..MaxWrite : \E bytes \in [1..k -> Bytes] : Put(bytes)
        \/ \E n \in 1..Len(queue) : Get(n)

Spec == Init /\ [][Next]_<<queue, moved>>
=============================================================================
