----------------------------- MODULE MCStorage ------------------------------
(***************************************************************************)
(* What is kept on flash and disks, for TLC: the object store norfs and    *)
(* the file system spifs with power failures and errors of the device, the *)
(* block cache with errors of the device, and the log in memory that       *)
(* survives a reset. "who" says which a behaviour is about; the variables  *)
(* that the others do not share with it stay 0.                            *)
(***************************************************************************)
EXTENDS Integers, Sequences, FiniteSets, TLC

CONSTANTS k1, k2, f1, f2, dir1, b1, b2, n1, n2, n3, zero, one, NULL   \* model values

VARIABLES who,  \* the component that runs
          flash, inode, write_pointer, block_free, num_free_blocks, total_remaining_space, pc,
          op, gc, stored, exposed, broken, calls, faults, toc, data, files, generation,
          toc_position, dir, acked, ideal, seen, disk, free_list, lru_list, blocknum, ref_count,
          is_dirty, ptr, held, current, hdr, logs, klog, call, unread, resets, torn, cut

N == INSTANCE Norfs WITH
  Keys <- {k1, k2}, NumBlocks <- 3, BlockSize <- 6, HeaderSize <- 2, ObjSize <- 2,
  MarkerSize <- 1, VersionRange <- 65536, MaxCalls <- 7, MaxFaults <- 1, Crashes <- TRUE
S == INSTANCE Spifs WITH
  Names <- {f1, f2}, Lengths <- {0, 3}, PageCount <- 5, PageSize <- 2, CapacityRange <- 8,
  NumEntries <- 4, Dirs <- {dir1}, MaxCalls <- 4, MaxFaults <- 1, Crashes <- TRUE
B == INSTANCE Bcache WITH
  Blocks <- {b1, b2}, Blocknums <- {n1, n2, n3}, Values <- {zero, one}, Zero <- zero,
  MaxRef <- 2, MaxFaults <- 2
K == INSTANCE Klog WITH
  NumLogs <- 2, Size <- 4, Texts <- {<<1, 7>>, <<7>>}, ByteRange <- 8, SumRange <- 32,
  SignedChar <- FALSE, MaxRead <- 2, ReadOthers <- FALSE, MaxCalls <- 3, MaxResets <- 2

ASSUME N!NorfsAssumption /\ S!SpifsAssumption /\ B!BcacheAssumption

\* What each component leaves alone.
NotNorfs ==
  <<who, toc, data, files, generation, toc_position, dir, acked, ideal, seen, disk, free_list,
  lru_list, blocknum, ref_count, is_dirty, ptr, held, current, hdr, logs, klog, call, unread,
  resets, torn, cut>>
NotSpifs ==
  <<who, flash, inode, write_pointer, block_free, num_free_blocks, total_remaining_space, gc,
  stored, broken, disk, free_list, lru_list, blocknum, ref_count, is_dirty, ptr, held, current,
  hdr, logs, klog, call, unread, resets, torn, cut>>
NotBcache ==
  <<who, flash, inode, write_pointer, block_free, num_free_blocks, total_remaining_space, pc,
  op, gc, stored, exposed, calls, toc, data, files, generation, toc_position, dir, acked, ideal,
  seen, hdr, logs, klog, call, unread, resets, torn, cut>>
NotKlog ==
  <<who, flash, inode, write_pointer, block_free, num_free_blocks, total_remaining_space, pc,
  op, gc, stored, exposed, broken, faults, toc, data, files, generation, toc_position, dir,
  acked, ideal, seen, disk, free_list, lru_list, blocknum, ref_count, is_dirty, ptr, held,
  current>>

Init ==
  \/ /\ who = "norfs" /\ N!Init
     /\ toc = 0 /\ data = 0 /\ files = 0 /\ generation = 0 /\ toc_position = 0 /\ dir = 0
     /\ acked = 0 /\ ideal = 0 /\ seen = 0 /\ disk = 0 /\ free_list = 0 /\ lru_list = 0
     /\ blocknum = 0 /\ ref_count = 0 /\ is_dirty = 0 /\ ptr = 0 /\ held = 0 /\ current = 0
     /\ hdr = 0 /\ logs = 0 /\ klog = 0 /\ call = 0 /\ unread = 0 /\ resets = 0 /\ torn = 0
     /\ cut = 0
  \/ /\ who = "spifs" /\ S!Init
     /\ flash = 0 /\ inode = 0 /\ write_pointer = 0 /\ block_free = 0 /\ num_free_blocks = 0
     /\ total_remaining_space = 0 /\ gc = 0 /\ stored = 0 /\ broken = 0 /\ disk = 0
     /\ free_list = 0 /\ lru_list = 0 /\ blocknum = 0 /\ ref_count = 0 /\ is_dirty = 0
     /\ ptr = 0 /\ held = 0 /\ current = 0 /\ hdr = 0 /\ logs = 0 /\ klog = 0 /\ call = 0
     /\ unread = 0 /\ resets = 0 /\ torn = 0 /\ cut = 0
  \/ /\ who = "bcache" /\ B!Init
     /\ flash = 0 /\ inode = 0 /\ write_pointer = 0 /\ block_free = 0 /\ num_free_blocks = 0
     /\ total_remaining_space = 0 /\ pc = 0 /\ op = 0 /\ gc = 0 /\ stored = 0 /\ exposed = 0
     /\ calls = 0 /\ toc = 0 /\ data = 0 /\ files = 0 /\ generation = 0 /\ toc_position = 0
     /\ dir = 0 /\ acked = 0 /\ ideal = 0 /\ seen = 0 /\ hdr = 0 /\ logs = 0 /\ klog = 0
     /\ call = 0 /\ unread = 0 /\ resets = 0 /\ torn = 0 /\ cut = 0
  \/ /\ who = "klog" /\ K!Init
     /\ flash = 0 /\ inode = 0 /\ write_pointer = 0 /\ block_free = 0 /\ num_free_blocks = 0
     /\ total_remaining_space = 0 /\ pc = 0 /\ op = 0 /\ gc = 0 /\ stored = 0 /\ exposed = 0
     /\ broken = 0 /\ faults = 0 /\ toc = 0 /\ data = 0 /\ files = 0 /\ generation = 0
     /\ toc_position = 0 /\ dir = 0 /\ acked = 0 /\ ideal = 0 /\ seen = 0 /\ disk = 0
     /\ free_list = 0 /\ lru_list = 0 /\ blocknum = 0 /\ ref_count = 0 /\ is_dirty = 0
     /\ ptr = 0 /\ held = 0 /\ current = 0

Next ==
  \/ who = "norfs" /\ N!Next /\ UNCHANGED NotNorfs
  \/ who = "spifs" /\ S!Next /\ UNCHANGED NotSpifs
  \/ who = "bcache" /\ B!Next /\ UNCHANGED NotBcache
  \/ who = "klog" /\ K!Next /\ UNCHANGED NotKlog

vars ==
  <<who, flash, inode, write_pointer, block_free, num_free_blocks, total_remaining_space, pc,
  op, gc, stored, exposed, broken, calls, faults, toc, data, files, generation, toc_position,
  dir, acked, ideal, seen, disk, free_list, lru_list, blocknum, ref_count, is_dirty, ptr, held,
  current, hdr, logs, klog, call, unread, resets, torn, cut>>

Spec == Init /\ [][Next]_vars
-----------------------------------------------------------------------------
\* The keys of norfs are interchangeable.
Symmetry == Permutations({k1, k2})

\* What is read is what was written last: an object of norfs (also after a crash and a new
\* mount, as long as nothing failed that the code is known not to survive), the bytes of a
\* file of spifs, a block of the cache, and the text in the log (also after resets between any
\* two stores, except for a log that klog_create() was cut short in between its head and its tail).
LastWriteIsRead ==
  /\ who = "norfs" => N!LastWriteIsRead
  /\ who = "spifs" => S!FilesKeepTheirBytes
  /\ who = "bcache" => B!LatestIsRead
  /\ who = "klog" => K!LogKeepsTheLast

\* A power failure or a reset between two steps loses nothing that was acknowledged: one of the
\* two tables of contents of spifs is whole and says what was committed last, and the log is
\* recovered unless it was being written.
SurvivesACrash ==
  /\ who = "spifs" => S!TableIsDurable
  /\ who = "klog" => K!ResetLosesNothing

\* Space is accounted for once: the counters of norfs are what a count of the flash gives and a
\* block is free for the next collection, the files of spifs do not overlap and open directories
\* point at files, and a block of the cache stays while somebody holds it.
SpaceAddsUp ==
  /\ who = "norfs" => N!CountersAgree /\ N!ABlockIsFree
  /\ who = "spifs" => S!FilesDoNotOverlap /\ S!DirsPointAtFiles
  /\ who = "bcache" => B!HeldBlocksStay
=============================================================================
