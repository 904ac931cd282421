------------------------------- MODULE Bcache -------------------------------
(***************************************************************************)
(* lib/bcache/bcache.c: a write-back cache of the blocks of a device.  A   *)
(* block is on the free list until it is first used, and then on the LRU   *)
(* list, the least recently used first.  Its callers (lib/fs/ext2)         *)
(* serialise their calls.  A caller that changes a block does so through   *)
(* the pointer bcache_get_block() gave it, and marks the block dirty.      *)
(***************************************************************************)
EXTENDS Integers, Sequences, FiniteSets, SequencesExt

CONSTANTS Blocks,          \* struct bcache_block
          Blocknums,       \* the blocks of the device
          Values,          \* what a block may hold
          Zero,            \* a block of zeroes
          MaxRef, MaxFaults   \* bounds: pointers held to a block; errors of the device

\* What the constants must be.
BcacheAssumption ==
  /\ Zero \in Values /\ MaxRef \in Nat /\ MaxFaults \in Nat
  /\ IsFiniteSet(Blocks)

VARIABLES disk,            \* the device
          free_list, lru_list,
          blocknum, ref_count, is_dirty, ptr,   \* the fields of each block; ptr is its contents
          held,            \* pointers the callers hold to each block of the device
          current,         \* what each block of the device was last given
          broken,          \* an assertion failed, or a list was corrupted
          faults

fields == <<blocknum, ref_count, is_dirty, ptr>>
lists == <<free_list, lru_list>>
vars == <<disk, lists, fields, held, current, broken, faults>>

TypeOK ==
  /\ disk \in [Blocknums -> Values] /\ current \in [Blocknums -> Values]
  /\ ToSet(free_list) \cup ToSet(lru_list) = Blocks
  /\ blocknum \in [Blocks -> Blocknums] /\ ptr \in [Blocks -> Values]
  /\ ref_count \in [Blocks -> 0..MaxRef] /\ is_dirty \in [Blocks -> BOOLEAN]
  /\ held \in [Blocknums -> 0..MaxRef]
  /\ broken \in {"no", "panic", "on both lists"}

\* bcache_create(): blocknum and the contents are whatever malloc() returned.
Init ==
  /\ disk \in [Blocknums -> {CHOOSE v \in Values : v # Zero}]
  /\ free_list = SetToSeq(Blocks) /\ lru_list = <<>>
  /\ blocknum \in [Blocks -> {CHOOSE n \in Blocknums : TRUE}]
  /\ ptr \in [Blocks -> {Zero}]
  /\ ref_count = [b \in Blocks |-> 0] /\ is_dirty = [b \in Blocks |-> FALSE]
  /\ held = [n \in Blocknums |-> 0] /\ current = disk
  /\ broken = "no" /\ faults = 0

Device(b) == blocknum[b]
Cached(n) == \E b \in ToSet(lru_list) : Device(b) = n
Fault == faults < MaxFaults /\ faults' = faults + 1

\* find_block(): the first match; it is moved to the tail.
find_block(n) == lru_list[CHOOSE i \in DOMAIN lru_list :
                            /\ Device(lru_list[i]) = n
                            /\ \A j \in 1..(i - 1) : Device(lru_list[j]) # n]
ToTail(b) == Append(Remove(lru_list, b), b)

(***************************************************************************)
(* alloc_block(): a free block, or else the least recently used one that   *)
(* nobody holds, written back first.                                       *)
(***************************************************************************)
\* Fault: a block may be reused while a caller holds a pointer to it.
AnyBlock(b) == ref_count[b] >= 0

Unused(b) == ref_count[b] = 0

Candidates == {i \in DOMAIN lru_list : Unused(lru_list[i])}
Victim == lru_list[CHOOSE i \in Candidates : \A j \in Candidates : i <= j]

\* Fault: a block is reused without being written back.
NeverFlush(b) == FALSE

NeedsFlush(b) == is_dirty[b]

\* alloc_block() takes block b from the free list or from the LRU list, and the device after it.
AllocFree(b) == /\ free_list # <<>> /\ b = Head(free_list)
                /\ free_list' = Tail(free_list) /\ lru_list' = Append(lru_list, b)
                /\ UNCHANGED disk
AllocLru(b) == /\ free_list = <<>> /\ Candidates # {} /\ b = Victim
               /\ disk' = IF NeedsFlush(b) THEN [disk EXCEPT ![Device(b)] = ptr[b]] ELSE disk
               /\ lru_list' = ToTail(b) /\ UNCHANGED free_list
AllocBlock(b) == AllocFree(b) \/ AllocLru(b)

(***************************************************************************)
(* find_or_fill_block(), for bcache_read_block() (refs = 0) and            *)
(* bcache_get_block() (refs = 1).                                          *)
(***************************************************************************)
Hit(n, refs) ==
  LET b == find_block(n)
  IN /\ Cached(n) /\ ref_count[b] + refs <= MaxRef
     /\ lru_list' = ToTail(b)
     /\ ref_count' = [ref_count EXCEPT ![b] = @ + refs]
     /\ held' = [held EXCEPT ![n] = @ + refs]
     /\ UNCHANGED <<disk, free_list, blocknum, is_dirty, ptr, current, broken, faults>>

Fill(n, refs) ==
  /\ ~Cached(n)
  /\ \E b \in Blocks :
       /\ AllocBlock(b)
       /\ blocknum' = [blocknum EXCEPT ![b] = n]
       /\ ptr' = [ptr EXCEPT ![b] = disk'[n]]
       /\ is_dirty' = [is_dirty EXCEPT ![b] = IF NeedsFlush(b) THEN FALSE ELSE @]
       /\ ref_count' = [ref_count EXCEPT ![b] = @ + refs]
  /\ held' = [held EXCEPT ![n] = @ + refs]
  /\ UNCHANGED <<current, broken, faults>>

\* DEBUG_ASSERT(block): every block is held, or the one to be reused cannot be written back.
FillPanics(n) ==
  /\ ~Cached(n) /\ free_list = <<>>
  /\ IF Candidates = {} THEN UNCHANGED faults ELSE is_dirty[Victim] /\ Fault
  /\ broken' = "panic"
  /\ UNCHANGED <<disk, lists, fields, held, current>>

\* The block goes to the free list; it is still on the LRU list.
ReadFails(n) ==
  /\ ~Cached(n) /\ Fault
  /\ \E b \in Blocks :
       /\ \/ AllocFree(b) /\ UNCHANGED is_dirty
          \/ /\ AllocLru(b)
             /\ is_dirty' = [is_dirty EXCEPT ![b] = FALSE]
       /\ blocknum' = [blocknum EXCEPT ![b] = n]
  /\ broken' = "on both lists"
  /\ UNCHANGED <<ref_count, ptr, held, current>>

bcache_put_block(n) ==
  LET b == find_block(n)
  IN /\ held[n] > 0
     /\ IF Cached(n) /\ ref_count[b] > 0
        THEN /\ lru_list' = ToTail(b)
             /\ ref_count' = [ref_count EXCEPT ![b] = @ - 1]
             /\ UNCHANGED broken
        ELSE broken' = "panic" /\ UNCHANGED <<lru_list, ref_count>>
     /\ held' = [held EXCEPT ![n] = @ - 1]
     /\ UNCHANGED <<disk, free_list, blocknum, is_dirty, ptr, current, faults>>

\* A caller that holds the block writes v through the pointer, then marks the block.
bcache_mark_block_dirty(n, v) ==
  LET b == find_block(n)
  IN /\ held[n] > 0 /\ Cached(n)
     /\ ptr' = [ptr EXCEPT ![b] = v] /\ current' = [current EXCEPT ![n] = v]
     /\ is_dirty' = [is_dirty EXCEPT ![b] = TRUE]
     /\ lru_list' = ToTail(b)
     /\ UNCHANGED <<disk, free_list, blocknum, ref_count, held, broken, faults>>

bcache_zero_block(n) ==
  /\ \E b \in Blocks :
       /\ IF Cached(n) THEN b = find_block(n) /\ lru_list' = ToTail(b) /\ UNCHANGED <<disk, free_list>>
          ELSE AllocBlock(b)
       /\ blocknum' = [blocknum EXCEPT ![b] = n]
       /\ ptr' = [ptr EXCEPT ![b] = Zero]
       /\ is_dirty' = [is_dirty EXCEPT ![b] = TRUE]
  /\ current' = [current EXCEPT ![n] = Zero]
  /\ UNCHANGED <<ref_count, held, broken, faults>>

Dirty == {i \in DOMAIN lru_list : is_dirty[lru_list[i]]}

\* bcache_flush(): in the order of the list, up to the i-th dirty block that cannot be written.
FlushUpTo(I) ==
  LET written == {lru_list[i] : i \in I}
  IN /\ disk' = [n \in Blocknums |-> IF \E b \in written : Device(b) = n
                                     THEN ptr[CHOOSE b \in written : Device(b) = n] ELSE disk[n]]
     /\ is_dirty' = [b \in Blocks |-> is_dirty[b] /\ b \notin written]
     /\ UNCHANGED <<lists, blocknum, ref_count, ptr, held, current, broken>>

bcache_flush == Dirty # {} /\ FlushUpTo(Dirty) /\ UNCHANGED faults

FlushFails == \E i \in Dirty : Fault /\ FlushUpTo({j \in Dirty : j < i})

\* bcache_destroy() with blocks still dirty only warns; a cache is then created anew.
bcache_destroy ==
  /\ broken = "no" => \A b \in Blocks : ref_count[b] = 0
  /\ lru_list # <<>>
  /\ free_list' = SetToSeq(Blocks) /\ lru_list' = <<>>
  /\ ref_count' = [b \in Blocks |-> 0] /\ is_dirty' = [b \in Blocks |-> FALSE]
  /\ held' = [n \in Blocknums |-> 0] /\ current' = disk /\ broken' = "no"
  /\ UNCHANGED <<disk, blocknum, ptr, faults>>

Next ==
  \/ broken = "no" /\ \E n \in Blocknums :
       \/ \E refs \in {0, 1} : Hit(n, refs) \/ Fill(n, refs)
       \/ FillPanics(n) \/ ReadFails(n)
       \/ bcache_put_block(n) \/ bcache_zero_block(n)
       \/ \E v \in Values : bcache_mark_block_dirty(n, v)
  \/ broken = "no" /\ (bcache_flush \/ FlushFails)
  \/ bcache_destroy

Spec == Init /\ [][Next]_vars

(***************************************************************************)
(* Properties                                                              *)
(***************************************************************************)
\* A block that is read, from the cache or from the device, is what it was last given: no change is
\* lost when its block is reused, or when a flush stops at an error; and a block the cache thinks is
\* clean is the same on the device.
LatestIsRead ==
  broken = "no" => \A n \in Blocknums :
     /\ (IF Cached(n) THEN ptr[find_block(n)] ELSE disk[n]) = current[n]
     /\ Cached(n) /\ ~is_dirty[find_block(n)] => disk[n] = current[n]

\* A block a caller holds a pointer to is not reused for another: its count is the callers' pointers,
\* and no block of the device is cached twice.
HeldBlocksStay ==
  broken = "no" => \A b \in ToSet(lru_list) :
     /\ ref_count[b] = held[Device(b)]
     /\ \A c \in ToSet(lru_list) : Device(b) = Device(c) => b = c

\* A block of which a read failed is free, and on no other list.
OnOneList == broken # "on both lists"

\* An error of the device is returned to the caller: it does not stop the machine.
NoPanic == broken # "panic"
=============================================================================
