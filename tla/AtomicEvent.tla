---------------------------- MODULE AtomicEvent ----------------------------
(***************************************************************************)
(* What kernel/event.c promises, with every call a single step: a signal   *)
(* of an auto-unsignal event lets exactly one thread through; a signal of  *)
(* any other event lets everybody through until it is unsignaled.          *)
(***************************************************************************)
EXTENDS Naturals

CONSTANT Thread

VARIABLES signaled, auto,   \* the state of the event and its kind
          waiting           \* the threads the event keeps waiting

vars == <<signaled, auto, waiting>>

Init == signaled \in BOOLEAN /\ auto \in BOOLEAN /\ waiting = {}

Pass(t) ==
  /\ t \notin waiting /\ signaled
  /\ signaled' = ~auto
  /\ UNCHANGED <<auto, waiting>>

Wait(t) ==
  /\ t \notin waiting /\ ~signaled
  /\ waiting' = waiting \cup {t}
  /\ UNCHANGED <<signaled, auto>>

Expire(t) ==
  /\ t \in waiting
  /\ waiting' = waiting \ {t}
  /\ UNCHANGED <<signaled, auto>>

SignalOne(t) ==
  /\ auto /\ ~signaled /\ t \in waiting
  /\ waiting' = waiting \ {t}
  /\ UNCHANGED <<signaled, auto>>

Signal ==
  /\ auto => waiting = {}
  /\ signaled' = TRUE
  /\ waiting' = {}
  /\ UNCHANGED auto

Unsignal == signaled' = FALSE /\ UNCHANGED <<auto, waiting>>

Destroy == signaled' = FALSE /\ auto' = FALSE /\ waiting' = {}

Next ==
  \/ Signal
  \/ Unsignal
  \/ Destroy
  \/ \E t \in Thread : Pass(t) \/ Wait(t) \/ Expire(t) \/ SignalOne(t)

Spec == Init /\ [][Next]_vars
=============================================================================
