------------------------------- MODULE Norfs -------------------------------
(***************************************************************************)
(* lib/norfs/norfs.c: an object store in NOR flash, kept as a log.  A put  *)
(* or a remove appends an object (a remove: a header with the deleted      *)
(* flag); the version in its header says which object of a key is the      *)
(* latest.  When the last free block is taken, the block after it is       *)
(* collected: its live objects are copied to the block just opened, and it *)
(* is erased.  The inode list, which object of a key is the latest, is     *)
(* only in memory, and norfs_mount_fs() rebuilds it by scanning the flash. *)
(*                                                                         *)
(* One step writes the flash at most once, and the power may fail between  *)
(* any two steps.  The contents of an object are abstracted to whether     *)
(* they are the ones last stored for its key ("fresh"); lengths are in     *)
(* units, two sizes only.  An object that was cut short fails its CRC, and *)
(* the scans stop at it.                                                   *)
(***************************************************************************)
EXTENDS Integers, Sequences, FiniteSets, SequencesExt

CONSTANTS Keys,
          NumBlocks,     \* NORFS_NUM_BLOCKS (select_garbage_block() has the literal 8)
          BlockSize,     \* FLASH_PAGE_SIZE, in units
          HeaderSize,    \* NORFS_BLOCK_HEADER_SIZE
          ObjSize,       \* NORFS_FLASH_SIZE() of an object
          MarkerSize,    \* NORFS_OBJ_OFFSET: an object header alone
          VersionRange,  \* 2^16: versions are uint16_t
          MaxCalls,      \* bound: puts, removals and mounts
          MaxFaults,     \* bound: object writes that fail
          Crashes,       \* may the power fail?
          NULL

\* What the constants must be.
NorfsAssumption ==
  /\ NumBlocks \in Nat /\ NumBlocks > 1 /\ MaxCalls \in Nat /\ MaxFaults \in Nat /\ Crashes \in BOOLEAN
  /\ HeaderSize > 0 /\ MarkerSize > 0 /\ ObjSize > MarkerSize
  /\ ObjSize <= BlockSize \div 2 - MarkerSize     \* NORFS_MAX_OBJ_LEN
  \* "the difference between the smallest and largest versions are no more than half the range"
  /\ VersionRange % 2 = 0
  /\ VersionRange > 2 * NumBlocks * ((BlockSize - HeaderSize) \div MarkerSize)

Block == 0..(NumBlocks - 1)
NORFS_AVAILABLE_SPACE == (NumBlocks * (BlockSize - HeaderSize)) \div 2

VARIABLES flash,        \* the header and the objects of each block
          inode,        \* the inode of each key: location, reference_count; or NULL
          write_pointer, block_free, num_free_blocks, total_remaining_space,
          pc, op,       \* where the running call is, and its local variables
          gc,           \* collect_block(): the block, and the object garbage_read_ptr is at
          stored,       \* what was last stored for each key: "nothing" or "value"
          exposed,      \* keys that met one of the defects the README lists
          broken,       \* how the store was ruined, or "no": only a wipe goes on from there
          calls, faults \* calls made so far, and object writes that failed

disk == <<flash, stored>>
space == <<block_free, num_free_blocks>>
vars == <<disk, inode, write_pointer, space, total_remaining_space, pc, op, gc,
          exposed, broken, calls, faults>>

NoOp == [ret |-> "none", key |-> NULL, del |-> FALSE, version |-> 0, pre |-> FALSE,
         moved |-> FALSE, first |-> 0]
NoGc == [block |-> 0, i |-> 0]
Torn(n) == [key |-> NULL, version |-> 0, del |-> FALSE, fresh |-> FALSE, size |-> n]

FlashSize(del) == IF del THEN MarkerSize ELSE ObjSize
Used(b) == FoldLeft(LAMBDA n, o : n + o.size, HeaderSize, flash[b].log)
curr_block_free_space(b) == BlockSize - Used(b)
\* block_num(write_pointer): a pointer at the end of a block is in the next one
block_num(b) == IF Used(b) = BlockSize THEN b + 1 ELSE b
At(loc) == flash[loc[1]].log[loc[2]]

\* Fault: versions are compared without regard to their rolling over.
GreaterUnwrapped(a, b) == a > b

VERSION_GREATER_THAN(a, b) ==
  LET d == (a - b) % VersionRange IN d > 0 /\ d < VersionRange \div 2

NoInodes == [k \in Keys |-> NULL]

TypeOK ==
  /\ \A b \in Block : /\ flash[b].hdr \in {"bad", "free", "open", "ready"}
                      /\ \A i \in DOMAIN flash[b].log :
                            /\ flash[b].log[i].key \in Keys \cup {NULL}
                            /\ flash[b].log[i].version \in 0..(VersionRange - 1)
                      /\ Used(b) <= BlockSize
  /\ broken = "no" => \A k \in Keys : inode[k] # NULL =>
        /\ inode[k].loc[1] \in Block /\ inode[k].loc[2] \in DOMAIN flash[inode[k].loc[1]].log
        /\ inode[k].refs \in Nat
  /\ write_pointer \in Block /\ block_free \subseteq Block
  /\ num_free_blocks \in 0..NumBlocks /\ total_remaining_space \in 0..NORFS_AVAILABLE_SPACE
  /\ pc \in {"down", "mount", "init", "space", "gc", "erase", "header", "finish", "idle"}
  /\ exposed \subseteq Keys /\ broken \in {"no", "overrun", "freed inode", "object lost"}
  /\ stored \in [Keys -> {"nothing", "value"}]

\* A new flash, or one that holds an object which was stored VersionRange - 1 times.
Init ==
  /\ \/ /\ flash = [b \in Block |-> [hdr |-> "bad", log |-> <<>>]]
        /\ stored = [k \in Keys |-> "nothing"]
     \/ \E k \in Keys :
        /\ flash = [b \in Block |->
              IF b # 0 THEN [hdr |-> "free", log |-> <<>>]
              ELSE [hdr |-> "ready",
                    log |-> <<[key |-> k, version |-> VersionRange - 2, del |-> FALSE,
                               fresh |-> TRUE, size |-> ObjSize]>>]]
        /\ stored = [i \in Keys |-> IF i = k THEN "value" ELSE "nothing"]
  /\ inode = NoInodes
  /\ write_pointer = 0 /\ block_free = {} /\ num_free_blocks = 0
  /\ total_remaining_space = NORFS_AVAILABLE_SPACE
  /\ pc = "down" /\ op = NoOp /\ gc = NoGc
  /\ exposed = {} /\ broken = "no" /\ calls = 0 /\ faults = 0

(***************************************************************************)
(* norfs_mount_fs(): blocks whose header is not complete are erased, the   *)
(* objects of the others are read in order, and the latest of each key is  *)
(* listed.  A block is then opened, from a random place on.                *)
(***************************************************************************)
read_block_verification(b) ==
  CASE flash[b].hdr \in {"bad", "open"} -> "ERR_BAD_STATE"
    [] flash[b].hdr = "free" -> "ERR_NOT_CONFIGURED"
    [] OTHER -> "NO_ERROR"

Readable(log) ==
  LET torn == {i \in DOMAIN log : log[i].key = NULL}
  IN IF torn = {} THEN log ELSE SubSeq(log, 1, (CHOOSE i \in torn : \A j \in torn : i <= j) - 1)

Scan ==
  FlattenSeq([b \in 1..NumBlocks |->
     IF read_block_verification(b - 1) # "NO_ERROR" THEN <<>>
     ELSE [i \in DOMAIN Readable(flash[b - 1].log) |-> <<b - 1, i>>]])

mount_next_obj(list, loc) ==
  LET o == At(loc)
      n == list[o.key]
  IN [list EXCEPT ![o.key] =
        IF n = NULL THEN [loc |-> loc, refs |-> 1]
        ELSE [loc |-> IF VERSION_GREATER_THAN(o.version, At(n.loc).version) THEN loc ELSE n.loc,
              refs |-> n.refs + 1]]

Live(list) == {k \in Keys : list[k] # NULL}
SizeOf(list) ==
  LET add(n, k) == n + IF list[k] = NULL THEN 0 ELSE At(list[k].loc).size
  IN FoldLeft(add, 0, SetToSeq(Keys))

norfs_mount_fs(start) ==
  LET list == FoldLeft(mount_next_obj, NoInodes, Scan)
      free == {b \in Block : read_block_verification(b) # "NO_ERROR"}
  IN /\ pc \in {"down", "mount"} /\ calls < MaxCalls /\ calls' = calls + 1
     /\ flash' = [b \in Block |-> IF b \in free THEN [hdr |-> "free", log |-> <<>>] ELSE flash[b]]
     /\ inode' = list
     /\ block_free' = free /\ num_free_blocks' = Cardinality(free)
     /\ total_remaining_space' = NORFS_AVAILABLE_SPACE - SizeOf(list)
     /\ write_pointer' = start
     /\ pc' = "init" /\ op' = [NoOp EXCEPT !.ret = "mount", !.first = start]
     /\ UNCHANGED <<stored, gc, exposed, broken, faults>>

(***************************************************************************)
(* norfs_put_obj_iovec(), and norfs_remove_obj() that calls it: the        *)
(* version is read before find_space_for_object(), which may collect a     *)
(* block.                                                                  *)
(***************************************************************************)
norfs_put_obj(k, del) ==
  LET pre == inode[k] # NULL
  IN /\ pc = "idle" /\ broken = "no" /\ calls < MaxCalls /\ calls' = calls + 1
     /\ del => pre /\ ~At(inode[k].loc).del
     /\ ~del => ObjSize <= total_remaining_space
     /\ pc' = "space"
     /\ op' = [ret |-> "put", key |-> k, del |-> del, pre |-> pre, moved |-> FALSE,
               version |-> IF pre THEN (At(inode[k].loc).version + 1) % VersionRange ELSE 0,
               first |-> block_num(write_pointer)]
     /\ UNCHANGED <<disk, inode, write_pointer, space, total_remaining_space, gc, exposed,
                    broken, faults>>

\* every object of k in the flash is out of date from now on
Outdated(f, k) ==
  [b \in Block |-> [f[b] EXCEPT !.log =
     [i \in DOMAIN @ |-> [@[i] EXCEPT !.fresh = @ /\ f[b].log[i].key # k]]]]

Append1(f, b, o) == [f EXCEPT ![b].log = Append(@, o)]
Next1(b) == <<b, Len(flash[b].log) + 1>>

\* Fault: the object replaced is not given back to the space that remains.
KeepPriorSize(k, n) == total_remaining_space - n

SpaceAfterPut(k, n) ==
  total_remaining_space - n + IF op.pre THEN At(inode[k].loc).size ELSE 0

\* write_obj_iovec() and what norfs_put_obj_iovec() does after it, the write a success
PutObject ==
  LET k == op.key
      n == FlashSize(op.del)
      o == [key |-> k, version |-> op.version, del |-> op.del, fresh |-> TRUE, size |-> n]
      b == write_pointer
      full == Used(b) + n = BlockSize
  IN /\ pc = "space" /\ Used(b) < BlockSize /\ n <= curr_block_free_space(b)
     /\ op.pre => inode[k] # NULL
     /\ flash' = Append1(Outdated(flash, k), b, o)
     /\ inode' = [inode EXCEPT ![k] =
                    [loc |-> Next1(b), refs |-> IF op.pre THEN @.refs + 1 ELSE 1]]
     /\ total_remaining_space' = SpaceAfterPut(k, n)
     /\ stored' = [stored EXCEPT ![k] = IF op.del THEN "nothing" ELSE "value"]
     /\ exposed' = exposed \cup IF op.moved THEN {k} ELSE {}
     /\ pc' = IF full THEN "init" ELSE "idle"
     /\ op' = IF full THEN [NoOp EXCEPT !.ret = "after", !.first = b + 1] ELSE NoOp
     /\ UNCHANGED <<write_pointer, space, gc, broken, calls, faults>>

\* The same, the write a failure: the object is cut short, and another block is opened.
PutFails ==
  LET n == FlashSize(op.del)
      b == write_pointer
  IN /\ pc = "space" /\ Used(b) < BlockSize /\ n <= curr_block_free_space(b)
     /\ op.pre => inode[op.key] # NULL
     /\ faults < MaxFaults /\ faults' = faults + 1
     /\ flash' = Append1(flash, b, Torn(n))
     /\ pc' = "init"
     /\ op' = [NoOp EXCEPT !.ret = "after", !.first = IF Used(b) + n = BlockSize THEN b + 1 ELSE b]
     /\ UNCHANGED <<stored, inode, write_pointer, space, total_remaining_space, gc, exposed, broken, calls>>

\* The collection freed the inode that the put goes on using.
PutToFreedInode ==
  /\ pc = "space" /\ FlashSize(op.del) <= curr_block_free_space(write_pointer)
  /\ op.pre /\ inode[op.key] = NULL
  /\ broken' = "freed inode" /\ pc' = "idle" /\ op' = NoOp
  /\ UNCHANGED <<disk, inode, write_pointer, space, total_remaining_space, gc, exposed, calls, faults>>

\* The copies filled the block: the pointer is at the start of the next one, whose header it passes.
PutOverHeader ==
  /\ pc = "space" /\ Used(write_pointer) = BlockSize
  /\ broken' = "overrun" /\ pc' = "idle" /\ op' = NoOp
  /\ UNCHANGED <<disk, inode, write_pointer, space, total_remaining_space, gc, exposed, calls, faults>>

(***************************************************************************)
(* initialize_next_block(), called for space (find_space_for_object()),    *)
(* after a write that failed or filled its block, and by the mount.        *)
(***************************************************************************)
NoSpace ==
  /\ pc = "space" /\ Used(write_pointer) < BlockSize
  /\ FlashSize(op.del) > curr_block_free_space(write_pointer)

find_free_block(from) ==
  LET n == CHOOSE j \in 1..NumBlocks : /\ ((from + j) % NumBlocks) \in block_free
                                       /\ \A i \in 1..(j - 1) : ((from + i) % NumBlocks) \notin block_free
  IN (from + n) % NumBlocks

\* Fault: blocks are collected only once none is left to copy to.
CollectTooLate == num_free_blocks' < 0

NeedsCollection == num_free_blocks' < 1

InitializeNextBlock ==
  LET b == find_free_block(IF pc = "space" THEN write_pointer ELSE op.first)
  IN /\ NoSpace \/ pc = "init"
     /\ IF block_free = {}   \* the put or the mount fails; after a write the error is ignored
        THEN /\ pc' = IF op.ret = "mount" THEN "down" ELSE "idle"
             /\ op' = NoOp
             /\ UNCHANGED <<flash, write_pointer, space, gc>>
        ELSE /\ block_free' = block_free \ {b} /\ num_free_blocks' = num_free_blocks - 1
             /\ flash' = [flash EXCEPT ![b].hdr = "open"]
             /\ write_pointer' = b
             /\ pc' = IF NeedsCollection THEN "gc" ELSE "finish"
             /\ gc' = [block |-> (b + 1) % NumBlocks, i |-> 1]
             /\ UNCHANGED op
     /\ UNCHANGED <<stored, inode, total_remaining_space, exposed, broken, calls, faults>>

(***************************************************************************)
(* collect_block(): collect_garbage_object() for each object of the block, *)
(* until one cannot be read or copied, or has no inode; then erase_block().*)
(***************************************************************************)
Garbage == flash[gc.block].log[gc.i]
AtGarbage == <<gc.block, gc.i>>
\* is_deleted(*garbage_read_pointer), at the object after it; flash not written reads as 0xFF
NextIsDeleted ==
  gc.i = Len(flash[gc.block].log) \/ flash[gc.block].log[gc.i + 1].del

LatestVersion(k) == inode[k] # NULL /\ inode[k].loc = AtGarbage

LastDeletion(k) == LatestVersion(k) /\ Garbage.del /\ inode[k].refs = 1

InBlock(b) == {k \in Live(inode) : inode[k].loc[1] = b}
Readable1 == gc.i <= Len(flash[gc.block].log) /\ Garbage.key # NULL

CopyOf(o) == [o EXCEPT !.version = (@ + 1) % VersionRange]

CopyObject ==
  LET k == Garbage.key
  IN /\ pc = "gc" /\ Readable1 /\ LatestVersion(k) /\ ~LastDeletion(k)
     /\ flash' = Append1(flash, write_pointer, CopyOf(Garbage))
     /\ inode' = [inode EXCEPT ![k].loc = Next1(write_pointer)]
     /\ op' = [op EXCEPT !.moved = @ \/ k = op.key]
     /\ gc' = [gc EXCEPT !.i = @ + 1]
     /\ UNCHANGED <<stored, write_pointer, space, total_remaining_space, pc, exposed, broken, calls, faults>>

\* The copy fails: the collection ends, and the block is erased all the same.
CopyFails ==
  LET k == Garbage.key
  IN /\ pc = "gc" /\ Readable1 /\ LatestVersion(k) /\ ~LastDeletion(k)
     /\ faults < MaxFaults /\ faults' = faults + 1
     /\ flash' = Append1(flash, write_pointer, Torn(Garbage.size))
     /\ pc' = "erase"
     /\ UNCHANGED <<stored, inode, write_pointer, space, total_remaining_space, op, gc, exposed,
                    broken, calls>>

\* nothing to copy: the last trace of a deleted object, an old version, or no inode
SkipObject ==
  LET k == Garbage.key
  IN /\ pc = "gc" /\ Readable1 /\ (LatestVersion(k) => LastDeletion(k))
     /\ inode' = [inode EXCEPT ![k] = CASE @ = NULL -> @
                                        [] LatestVersion(k) -> NULL
                                        [] OTHER -> [@ EXCEPT !.refs = @ - 1]]
     /\ total_remaining_space' =
          total_remaining_space + IF LastDeletion(k) THEN MarkerSize ELSE 0
     /\ IF inode[k] = NULL /\ ~NextIsDeleted
        THEN pc' = "erase" /\ gc' = gc
        ELSE pc' = pc /\ gc' = [gc EXCEPT !.i = @ + 1]
     /\ UNCHANGED <<disk, write_pointer, space, op, exposed, broken, calls, faults>>

\* The end of the block, an object cut short, or an error; the block is erased.
EraseBlock ==
  LET lost == InBlock(gc.block) # {}
  IN /\ pc = "erase" \/ (pc = "gc" /\ ~Readable1)
     /\ flash' = [flash EXCEPT ![gc.block] = [hdr |-> "bad", log |-> <<>>]]
     /\ pc' = IF lost THEN "idle" ELSE "header"
     /\ broken' = IF lost THEN "object lost" ELSE broken
     /\ UNCHANGED <<stored, inode, write_pointer, space, total_remaining_space, op, gc, exposed,
                    calls, faults>>

EraseBlockHeader ==
  /\ pc = "header"
  /\ flash' = [flash EXCEPT ![gc.block].hdr = "free"]
  /\ block_free' = block_free \cup {gc.block} /\ num_free_blocks' = num_free_blocks + 1
  /\ pc' = "finish"
  /\ UNCHANGED <<stored, inode, write_pointer, total_remaining_space, op, gc, exposed, broken, calls, faults>>

\* NORFS_BLOCK_GC_FINISHED_HEADER; find_space_for_object() gives up at the block it began with.
FinishBlock ==
  LET again == op.ret = "put" /\ block_num(write_pointer) # op.first
  IN /\ pc = "finish"
     /\ flash' = [flash EXCEPT ![write_pointer].hdr = "ready"]
     /\ pc' = IF again THEN "space" ELSE "idle"
     /\ op' = IF again THEN op ELSE NoOp
     /\ UNCHANGED <<stored, inode, write_pointer, space, total_remaining_space, gc, exposed, broken, calls, faults>>

(***************************************************************************)
(* The power fails, norfs_unmount_fs(), norfs_wipe_fs().                   *)
(***************************************************************************)
Forget ==
  /\ inode' = NoInodes /\ write_pointer' = 0
  /\ block_free' = {} /\ num_free_blocks' = 0
  /\ total_remaining_space' = NORFS_AVAILABLE_SPACE
  /\ op' = NoOp /\ gc' = NoGc

\* The copies in a block that is not finished are erased by the next mount, the originals are gone.
LostByCrash == IF pc \in {"header", "finish"} THEN InBlock(write_pointer) ELSE {}

Crash ==
  /\ Crashes /\ broken = "no"
  /\ pc' = "down"
  /\ exposed' = exposed \cup LostByCrash
  /\ Forget
  /\ UNCHANGED <<disk, broken, calls, faults>>

norfs_unmount_fs ==
  /\ pc = "idle" /\ broken = "no"
  /\ pc' = "down"
  /\ Forget
  /\ UNCHANGED <<disk, exposed, broken, calls, faults>>

norfs_wipe_fs ==
  /\ pc = "idle"
  /\ pc' = "mount"
  /\ Forget
  /\ flash' = [b \in Block |-> [hdr |-> "bad", log |-> <<>>]]
  /\ stored' = [k \in Keys |-> "nothing"]
  /\ exposed' = {} /\ broken' = "no" /\ UNCHANGED <<calls, faults>>

Next ==
  \/ \E start \in Block : norfs_mount_fs(start)
  \/ \E k \in Keys, del \in BOOLEAN : norfs_put_obj(k, del)
  \/ PutObject \/ PutFails \/ PutToFreedInode \/ PutOverHeader
  \/ InitializeNextBlock
  \/ CopyObject \/ CopyFails \/ SkipObject \/ EraseBlock \/ EraseBlockHeader \/ FinishBlock
  \/ Crash \/ norfs_unmount_fs \/ norfs_wipe_fs

Spec == Init /\ [][Next]_vars

(***************************************************************************)
(* Properties                                                              *)
(***************************************************************************)
Idle == pc = "idle" /\ broken = "no"

\* norfs_read_obj_iovec(): what a reader of k gets
Read(k) ==
  CASE inode[k] = NULL -> "nothing"
    [] inode[k] # NULL /\ At(inode[k].loc).del -> "nothing"
    [] inode[k] # NULL /\ At(inode[k].loc).fresh -> "value"
    [] OTHER -> "old value"

\* Whatever collections, power failures and mounts there were, the store reads for a key what was
\* last stored for it, and nothing when that was a removal; unless the key met a defect.
LastWriteIsRead == Idle => \A k \in Keys \ exposed : Read(k) = stored[k]

\* The inodes and the counters of a mounted store agree with the flash.
ObjectsOf(k) ==
  {l \in Block \X (1..BlockSize) : /\ flash[l[1]].hdr \in {"open", "ready"}
                                   /\ l[2] \in DOMAIN Readable(flash[l[1]].log)
                                   /\ At(l).key = k}
CountersAgree ==
  Idle /\ exposed = {} =>
     /\ \A k \in Keys : IF inode[k] = NULL THEN ObjectsOf(k) = {}
                        ELSE inode[k].refs = Cardinality(ObjectsOf(k))
     /\ total_remaining_space = NORFS_AVAILABLE_SPACE - SizeOf(inode)
     /\ block_free = {b \in Block : flash[b].hdr = "free"}
     /\ num_free_blocks = Cardinality(block_free)

\* A block can always be opened: no mount fails, and no put that there is space for.
ABlockIsFree == pc = "init" \/ NoSpace => block_free # {}

(***************************************************************************)
(* What the interface promises, and the code does not keep.                *)
(***************************************************************************)
\* norfs.h: "File system can be unmounted.  All data is stored."
AllDataIsStored == Idle => \A k \in Keys : Read(k) = stored[k]

\* A put that there is space for is not refused: the block it began with was emptied meanwhile.
PutFindsSpace ==
  pc = "finish" /\ op.ret = "put" => block_num(write_pointer) # op.first

\* A block is erased only when its live objects were copied.
NoObjectLost == broken # "object lost"

\* No object is written over the header of a block.
NoOverrun == broken # "overrun"

\* A put does not go on with an inode the collection freed.
NoFreedInode == broken # "freed inode"
=============================================================================
