------------------------- MODULE CountingSemaphore -------------------------
(***************************************************************************)
(* What a counting semaphore promises: a permit is given to a waiting      *)
(* thread only when there is one, and every post makes one permit.         *)
(***************************************************************************)
EXTENDS Naturals

CONSTANT Thread

VARIABLES permits,  \* permits nobody has been given
          waiting   \* threads that asked for a permit and have no answer yet

vars == <<permits, waiting>>

Init == permits \in Nat /\ waiting = {}

Wait(t) ==     \* a thread asks, and is made to wait
  /\ t \notin waiting
  /\ waiting' = waiting \cup {t}
  /\ UNCHANGED permits

Take(t) ==     \* a thread asks, and is given a permit at once
  /\ t \notin waiting /\ permits > 0
  /\ permits' = permits - 1
  /\ UNCHANGED waiting

Expire(t) ==   \* a thread gives up waiting
  /\ t \in waiting
  /\ waiting' = waiting \ {t}
  /\ UNCHANGED permits

Post ==        \* a new permit
  /\ permits' = permits + 1
  /\ UNCHANGED waiting

PostTo(t) ==   \* a new permit, given to a waiting thread at once
  /\ t \in waiting
  /\ waiting' = waiting \ {t}
  /\ UNCHANGED permits

Destroy ==     \* the semaphore goes away; nobody waits for it any more
  /\ permits' = 0
  /\ waiting' = {}

Next ==
  \/ Post
  \/ Destroy
  \/ \E t \in Thread : Wait(t) \/ Take(t) \/ Expire(t) \/ PostTo(t)

Spec == Init /\ [][Next]_vars
=============================================================================
