------------------------------ MODULE GPArena ------------------------------
(***************************************************************************)
(* lib/fbl/include/fbl/gparena.h: an arena of objects of one size, whose   *)
(* free objects are in a lock-free list.  Threads call Alloc() and Free()  *)
(* in any order; every load and every compare_exchange of theirs is a step *)
(* of its own.  Memory is sequentially consistent.                         *)
(*                                                                         *)
(* An object is its offset in the arena.  A thread that pops may read the  *)
(* next field of an object that another thread has taken meanwhile: the    *)
(* new owner may have written anything there.                              *)
(***************************************************************************)
EXTENDS Integers, Sequences, SequencesExt, FiniteSets

CONSTANTS Threads,
          ObjectSize, PageSize, GrowPages,   \* Grow() commits GrowPages (4) pages
          MemSize,            \* end_ - start_
          MaxGen,             \* bound: changes of the list's head
          MaxFail             \* bound: commits that fail

\* What the constants must be.
GPArenaAssumption ==
  /\ ObjectSize \in Nat \ {0} /\ PageSize \in Nat /\ ObjectSize <= PageSize
  /\ GrowPages \in Nat \ {0} /\ MaxGen \in Nat /\ MaxFail \in Nat
  /\ MemSize \in Nat /\ MemSize % PageSize = 0

NULL == -1
NoHead == [head |-> NULL, gen |-> 0]
Objects == {n \in 0..(MemSize - ObjectSize) : n % ObjectSize = 0}

VARIABLES head_node_,         \* the list: the first free object and the generation
          next,               \* FreeNode::next
          top_, committed_, count_,
          pc,
          head_node, link,    \* Pop() and Push(): the snapshot of head_node_, and the next that was read
          top,                \* Alloc(): the snapshot of top_
          node,               \* Free(): the object that is being freed
          held,               \* the objects each thread has allocated
          free,               \* the free objects in the order of the list
          fails

list == <<head_node_, next, free>>
locals == <<pc, head_node, link, top, node>>
vars == <<list, top_, committed_, count_, locals, held, fails>>

TypeOK ==
  /\ head_node_.head \in Objects \cup {NULL} /\ head_node_.gen \in 0..MaxGen
  /\ next \in [Objects -> Objects \cup {NULL}]
  /\ top_ \in 0..MemSize /\ committed_ \in 0..MemSize /\ count_ \in Nat
  /\ pc \in [Threads -> {"idle", "pop next", "pop", "counted", "load top", "top", "grow", "take",
                         "push next", "push", "uncount"}]
  /\ held \in [Threads -> SUBSET Objects]

Init ==
  /\ head_node_ = NoHead /\ next = [n \in Objects |-> NULL] /\ free = <<>>
  /\ top_ = 0 /\ committed_ = 0 /\ count_ = 0
  /\ pc = [t \in Threads |-> "idle"]
  /\ head_node = [t \in Threads |-> NoHead]
  /\ link = [t \in Threads |-> NULL] /\ top = [t \in Threads |-> 0]
  /\ node = [t \in Threads |-> NULL]
  /\ held = [t \in Threads |-> {}] /\ fails = 0

Goto(t, l) == pc' = [pc EXCEPT ![t] = l]
Loaded(t) == head_node' = [head_node EXCEPT ![t] = head_node_]
Forget(t) == head_node' = [head_node EXCEPT ![t] = NoHead] /\ link' = [link EXCEPT ![t] = NULL]

\* Fault: the generation stays as it is.
SameGen(g) == g

NextGen(g) == g + 1

(***************************************************************************)
(* Alloc(): Pop() a free object; when there is none, take one at top_.     *)
(***************************************************************************)
\* What the loop does with a head that was just loaded.
PopLoop(t) ==
  IF head_node_.head = NULL THEN Forget(t) /\ Goto(t, "load top")
  ELSE Loaded(t) /\ Goto(t, "pop next") /\ link' = [link EXCEPT ![t] = NULL]

Alloc(t) ==
  /\ pc[t] = "idle"
  /\ PopLoop(t)
  /\ UNCHANGED <<list, top_, committed_, count_, top, node, held, fails>>

PopNext(t) ==
  /\ pc[t] = "pop next"
  /\ \E n \in IF head_node[t].head \in ToSet(free) THEN {next[head_node[t].head]}
              ELSE Objects \cup {NULL} :
        link' = [link EXCEPT ![t] = n]
  /\ Goto(t, "pop")
  /\ UNCHANGED <<list, top_, committed_, count_, head_node, top, node, held, fails>>

Pop(t) ==
  /\ pc[t] = "pop" /\ head_node_.gen < MaxGen
  /\ IF head_node_ = head_node[t]
     THEN /\ head_node_' = [head |-> link[t], gen |-> NextGen(head_node_.gen)]
          /\ free' = Remove(free, head_node[t].head)
          /\ held' = [held EXCEPT ![t] = @ \cup {head_node[t].head}]
          /\ Goto(t, "counted") /\ Forget(t)
     ELSE PopLoop(t) /\ UNCHANGED <<head_node_, free, held>>
  /\ UNCHANGED <<next, top_, committed_, count_, top, node, fails>>

LoadTop(t) ==
  /\ pc[t] = "load top"
  /\ top' = [top EXCEPT ![t] = top_] /\ Goto(t, "top")
  /\ UNCHANGED <<list, top_, committed_, count_, head_node, link, node, held, fails>>

\* The object at top is there already, or memory must be committed first.
CheckTop(t) ==
  /\ pc[t] = "top"
  /\ Goto(t, IF top[t] + ObjectSize > committed_ THEN "grow" ELSE "take")
  /\ UNCHANGED <<list, top_, committed_, count_, head_node, link, top, node, held, fails>>

\* Fault: the commit is not clipped to the end of the mapping.
Unclipped(nc) == nc

Clip(nc) == IF nc > MemSize THEN MemSize ELSE nc

\* Grow(), which holds mapping_lock_.  Alloc() returns nullptr when it fails.
Grow(t) ==
  LET nc == Clip(committed_ + GrowPages * PageSize)
      needed == top[t] + ObjectSize > committed_
  IN /\ pc[t] = "grow"
     /\ \/ /\ ~needed \/ nc # committed_
           /\ committed_' = IF needed THEN nc ELSE committed_
           /\ Goto(t, "take") /\ UNCHANGED <<top, fails>>
        \/ /\ needed
           /\ IF nc = committed_ THEN UNCHANGED fails ELSE fails < MaxFail /\ fails' = fails + 1
           /\ Goto(t, "idle") /\ top' = [top EXCEPT ![t] = 0] /\ UNCHANGED committed_
     /\ UNCHANGED <<list, top_, count_, head_node, link, node, held>>

\* Fault: top_ is advanced whatever it has become meanwhile.
AnyTop(t) == TRUE

TopUnchanged(t) == top_ = top[t]

TakeTop(t) ==
  /\ pc[t] = "take"
  /\ IF TopUnchanged(t)
     THEN /\ top_' = top[t] + ObjectSize
          /\ held' = [held EXCEPT ![t] = @ \cup {top[t]}]
          /\ Goto(t, "counted") /\ top' = [top EXCEPT ![t] = 0]
     ELSE top' = [top EXCEPT ![t] = top_] /\ Goto(t, "top") /\ UNCHANGED <<top_, held>>
  /\ UNCHANGED <<list, committed_, count_, head_node, link, node, fails>>

CountAlloc(t) ==
  /\ pc[t] = "counted"
  /\ count_' = count_ + 1 /\ Goto(t, "idle")
  /\ UNCHANGED <<list, top_, committed_, head_node, link, top, node, held, fails>>

(***************************************************************************)
(* Free(): Push() the object.                                              *)
(***************************************************************************)
Free(t, n) ==
  /\ pc[t] = "idle" /\ n \in held[t]
  /\ held' = [held EXCEPT ![t] = @ \ {n}] /\ node' = [node EXCEPT ![t] = n]
  /\ Loaded(t) /\ Goto(t, "push next")
  /\ UNCHANGED <<list, top_, committed_, count_, link, top, fails>>

PushNext(t) ==
  /\ pc[t] = "push next"
  /\ next' = [next EXCEPT ![node[t]] = head_node[t].head]
  /\ Goto(t, "push")
  /\ UNCHANGED <<head_node_, free, top_, committed_, count_, head_node, link, top, node, held, fails>>

Push(t) ==
  /\ pc[t] = "push" /\ head_node_.gen < MaxGen
  /\ IF head_node_ = head_node[t]
     THEN /\ head_node_' = [head |-> node[t], gen |-> NextGen(head_node_.gen)]
          /\ free' = <<node[t]>> \o free
          /\ node' = [node EXCEPT ![t] = NULL]
          /\ Goto(t, "uncount") /\ Forget(t)
     ELSE /\ Loaded(t) /\ Goto(t, "push next")
          /\ UNCHANGED <<head_node_, free, node, link>>
  /\ UNCHANGED <<next, top_, committed_, count_, top, held, fails>>

CountFree(t) ==
  /\ pc[t] = "uncount"
  /\ count_' = count_ - 1 /\ Goto(t, "idle")
  /\ UNCHANGED <<list, top_, committed_, head_node, link, top, node, held, fails>>

Next ==
  \E t \in Threads :
     \/ Alloc(t) \/ PopNext(t) \/ Pop(t) \/ LoadTop(t) \/ CheckTop(t) \/ Grow(t) \/ TakeTop(t) \/ CountAlloc(t)
     \/ \E n \in Objects : Free(t, n)
     \/ PushNext(t) \/ Push(t) \/ CountFree(t)

Spec == Init /\ [][Next]_vars

(***************************************************************************)
(* Properties                                                              *)
(***************************************************************************)
Freeing(t) == IF node[t] = NULL THEN {} ELSE {node[t]}

\* An object is with one thread, or in the list once, or beyond top_: no two threads are given the
\* same one, whatever a thread that was stalled in Pop() or Push() has read.
OneOwner ==
  /\ \A t, u \in Threads : t # u => (held[t] \cup Freeing(t)) \cap (held[u] \cup Freeing(u)) = {}
  /\ \A t \in Threads : (held[t] \cup Freeing(t)) \cap ToSet(free) = {} /\ held[t] \cap Freeing(t) = {}
  /\ \A i, j \in DOMAIN free : free[i] = free[j] => i = j
  /\ ToSet(free) \cup UNION {held[t] \cup Freeing(t) : t \in Threads} = {n \in Objects : n < top_}

\* The list that begins at head_node_ has the free objects, in order, and ends.
ListIsWhole ==
  /\ head_node_.head = IF free = <<>> THEN NULL ELSE free[1]
  /\ \A i \in DOMAIN free : next[free[i]] = IF i = Len(free) THEN NULL ELSE free[i + 1]

\* Every object that was ever handed out lies in committed memory, and that within the mapping.
AllocatedIsCommitted == top_ <= committed_ /\ committed_ <= MemSize

\* The count differs from the objects that are out by the calls that have not counted theirs yet; it
\* never falls below 0.
CountFollows ==
  /\ count_ >= 0
  /\ count_ = Cardinality(UNION {held[t] \cup Freeing(t) : t \in Threads})
              - Cardinality({t \in Threads : pc[t] = "counted"})
              + Cardinality({t \in Threads : pc[t] = "uncount"})
=============================================================================
