------------------------------- MODULE Spifs -------------------------------
(***************************************************************************)
(* lib/fs/spifs/spifs.c: a flat file system in flash.  A file is one run   *)
(* of pages, fixed when it is created.  The table of contents (ToC) is     *)
(* kept twice, in front of the files and behind them; each change is       *)
(* written to the older one, with the next generation and a checksum, and  *)
(* spifs_mount() takes the newest whose checksum is right.                 *)
(*                                                                         *)
(* A page is erased and then written.  The power may fail between the two  *)
(* (the page is then left erased, a ToC without its checksum), and either  *)
(* may report an error.  A file is filled with its number, which stands    *)
(* for whatever a caller writes to it.  All calls hold spifs->lock.  A ToC *)
(* has one page: page 0, and page PageCount - 1.                           *)
(***************************************************************************)
EXTENDS Integers, Sequences, FiniteSets, FiniteSetsExt, TLC

CONSTANTS Names, Lengths, \* file names, and the lengths passed to create and truncate
          PageCount, PageSize,
          CapacityRange,  \* 2^32 / PageSize: a capacity is a uint32_t
          NumEntries,     \* num_entries: files in a ToC, the two ToCs included
          Dirs,           \* dircookies
          MaxCalls, MaxFaults,   \* bounds: calls that change the disk, and errors of the device
          Crashes         \* may the power fail?

\* What the constants must be.
SpifsAssumption ==
  /\ PageCount \in Nat /\ PageCount > 2 /\ PageSize \in Nat \ {0} /\ NumEntries > 2
  /\ MaxCalls \in Nat /\ MaxFaults \in Nat /\ Crashes \in BOOLEAN
  /\ Lengths \subseteq Nat /\ CapacityRange \in Nat /\ CapacityRange > PageCount

VARIABLES toc, data,       \* the disk: both ToCs, and the bytes of each page
          files, generation, toc_position,   \* spifs_t; files is "none" when not mounted
          dir,             \* dcookies: next_file of each open directory
          pc, op,          \* where the running call is, and its local variables
          acked,           \* the files as the last call that succeeded left them
          ideal,           \* the bytes each file was given
          exposed,         \* files a call that failed, or was cut short, was changing
          seen,            \* what each open directory listed so far
          calls, faults

memory == <<files, generation, toc_position>>
ghosts == <<acked, ideal, exposed>>
dirs == <<dir, seen>>
vars == <<toc, data, memory, dirs, pc, op, ghosts, calls, faults>>

FRONT_TOC == 1
BACK_TOC == -1
CORRUPT_TOC == 0
Unmounted == {[name |-> "not mounted"]}
NoOp == [call |-> "none", id |-> 0]
Erased == 0
Closed == -1
AtEnd == 0
Page == 1..(PageCount - 2)
Ids == 1..MaxCalls

\* Fault: the ToC just written is written again, not the older one.
SameToc == toc_position

OtherToc == IF toc_position = FRONT_TOC THEN BACK_TOC ELSE FRONT_TOC

mounted == files # Unmounted
Idle == pc = "idle" /\ mounted
End(f) == f.page + f.pages
Extent(f) == f.page..(End(f) - 1)
File(S, id) == CHOOSE f \in S : f.id = id
Has(S, id) == \E f \in S : f.id = id
Byte(f, i) == data[f.page + ((i - 1) \div PageSize)][1 + ((i - 1) % PageSize)]

TypeOK ==
  /\ \A t \in {FRONT_TOC, BACK_TOC} : toc[t].generation \in Nat
  /\ data \in [Page -> [1..PageSize -> Ids \cup {Erased}]]
  /\ mounted => \A f \in files : f.name \in Names /\ f.id \in Ids /\ f.length <= f.pages * PageSize
  /\ toc_position \in {FRONT_TOC, BACK_TOC}
  /\ dir \in [Dirs -> Ids \cup {Closed, AtEnd}]
  /\ pc \in {"down", "idle", "commit", "committing", "write", "writing"}
  /\ exposed \subseteq Ids

\* A formatted disk.
Init ==
  /\ toc = (FRONT_TOC :> [generation |-> 3, files |-> {}]) @@
           (BACK_TOC :> [generation |-> 2, files |-> {}])
  /\ data = [p \in Page |-> [i \in 1..PageSize |-> Erased]]
  /\ files = Unmounted /\ generation = 0 /\ toc_position = FRONT_TOC
  /\ dir = [d \in Dirs |-> Closed] /\ seen = [d \in Dirs |-> <<>>]
  /\ pc = "down" /\ op = NoOp
  /\ acked = {} /\ exposed = {}
  /\ ideal = [i \in Ids |-> [b \in 1..((PageCount - 2) * PageSize) |-> Erased]]
  /\ calls = 0 /\ faults = 0

Newest ==
  IF toc[FRONT_TOC].generation > toc[BACK_TOC].generation THEN FRONT_TOC ELSE BACK_TOC

NotMounted == files' = Unmounted /\ generation' = 0 /\ toc_position' = FRONT_TOC

consistency_check(S) == \A f, g \in S : f # g => Extent(f) \cap Extent(g) = {}

\* The files a mount finds: an entry whose capacity is 0 is an empty one.
Found == {f \in toc[Newest].files : f.pages # 0}

Mountable == toc[Newest].generation # CORRUPT_TOC /\ consistency_check(Found)

spifs_mount ==
  /\ pc = "down"
  /\ IF Mountable
     THEN /\ files' = Found /\ generation' = toc[Newest].generation /\ toc_position' = Newest
          /\ pc' = "idle"
     ELSE UNCHANGED <<memory, pc>>
  /\ UNCHANGED <<toc, data, dirs, op, ghosts, calls, faults>>

\* (a caller closes its directories first)
spifs_unmount ==
  /\ Idle /\ \A d \in Dirs : dir[d] = Closed
  /\ NotMounted
  /\ pc' = "down"
  /\ UNCHANGED <<toc, data, dirs, op, ghosts, calls, faults>>

(***************************************************************************)
(* spifs_commit_toc(): the older ToC is erased, then written; with what    *)
(* is left of the call that wanted it.  A write succeeds even if this does *)
(* not.                                                                    *)
(***************************************************************************)
CommitErase ==
  /\ pc = "commit"
  /\ toc' = [toc EXCEPT ![OtherToc].generation = CORRUPT_TOC]
  /\ pc' = "committing"
  /\ UNCHANGED <<data, memory, dirs, op, ghosts, calls, faults>>

CommitWrite ==
  LET formatted == op.call = "format" /\ OtherToc = FRONT_TOC
  IN /\ pc = "committing"
     /\ toc' = [toc EXCEPT ![OtherToc] = [generation |-> generation + 1, files |-> files]]
     /\ IF formatted THEN NotMounted
        ELSE generation' = generation + 1 /\ toc_position' = OtherToc /\ UNCHANGED files
     /\ acked' = files
     /\ exposed' = IF formatted THEN {} ELSE exposed
     /\ pc' = IF formatted THEN "down" ELSE IF op.call = "format" THEN "commit" ELSE "idle"
     /\ op' = IF pc' = "commit" THEN op ELSE NoOp
     /\ UNCHANGED <<data, dirs, ideal, calls, faults>>

\* A create is taken back; a removal, a truncation or a longer length stay in memory only.
CommitFails ==
  /\ pc \in {"commit", "committing"}
  /\ faults < MaxFaults /\ faults' = faults + 1
  /\ toc' = [toc EXCEPT ![OtherToc].generation = CORRUPT_TOC]
  /\ IF op.call = "format" THEN NotMounted
     ELSE /\ files' = IF op.call = "create" THEN {f \in files : f.id # op.id} ELSE files
          /\ UNCHANGED <<generation, toc_position>>
  /\ exposed' = IF op.call \in {"create", "format"} THEN exposed ELSE exposed \cup {op.id}
  /\ pc' = IF op.call = "format" THEN "down" ELSE "idle"
  /\ op' = NoOp
  /\ UNCHANGED <<data, dirs, acked, ideal, calls>>

(***************************************************************************)
(* spifs_create(): the first gap that is large enough.                     *)
(***************************************************************************)
\* Fault: the gap may be a page too small.
ShortGap(p, n) == \A q \in p..(p + n - 2) : q \in Page /\ \A f \in files : q \notin Extent(f)

OpenRun(p, n) == \A q \in p..(p + n - 1) : q \in Page /\ \A f \in files : q \notin Extent(f)

\* a gap begins behind a file or behind the front ToC
find_open_run(n) ==
  {p \in {1} \cup {End(f) : f \in files} : OpenRun(p, n)}

spifs_create(name, length) ==
  LET n == IF length = 0 THEN 1 ELSE ((length + PageSize - 1) \div PageSize) % CapacityRange
      id == calls + 1
      p == Min(find_open_run(n))
  IN /\ Idle /\ calls < MaxCalls
     /\ \A f \in files : f.name # name
     /\ Cardinality(files) + 2 < NumEntries
     /\ find_open_run(n) # {}
     /\ data' = [q \in Page |-> IF q \in p..(p + n - 1) THEN [i \in 1..PageSize |-> Erased]
                                ELSE data[q]]
     /\ files' = files \cup {[id |-> id, name |-> name, page |-> p, pages |-> n, length |-> length]}
     /\ pc' = "commit" /\ op' = [call |-> "create", id |-> id]
     /\ calls' = calls + 1
     /\ UNCHANGED <<toc, generation, toc_position, dirs, ghosts, faults>>

\* the file behind page p, in the order of the list
After(S, p) == LET later == {f \in S : f.page > p}
               IN IF later = {} THEN AtEnd
                  ELSE (CHOOSE f \in later : \A g \in later : f.page <= g.page).id

\* Fault: the directories are not moved on.
LeaveDirs(f) == dir

MoveDirs(f) == [d \in Dirs |-> IF dir[d] = f.id THEN After(files, f.page) ELSE dir[d]]

spifs_remove(f) ==
  /\ Idle /\ calls < MaxCalls
  /\ dir' = MoveDirs(f)
  /\ files' = files \ {f}
  /\ pc' = "commit" /\ op' = [call |-> "remove", id |-> f.id]
  /\ calls' = calls + 1
  /\ UNCHANGED <<toc, data, generation, toc_position, seen, ghosts, faults>>

spifs_truncate(f, length) ==
  /\ Idle /\ calls < MaxCalls
  /\ length <= f.length
  /\ files' = (files \ {f}) \cup {[f EXCEPT !.length = length]}
  /\ pc' = "commit" /\ op' = [call |-> "truncate", id |-> f.id]
  /\ calls' = calls + 1
  /\ UNCHANGED <<toc, data, generation, toc_position, dirs, ghosts, faults>>

(***************************************************************************)
(* spifs_write(): page by page, the first and the last read, changed and   *)
(* written back; then the ToC, when the file has grown.                    *)
(***************************************************************************)
spifs_write(f, off, len) ==
  /\ Idle /\ calls < MaxCalls
  /\ off + len <= f.pages * PageSize
  /\ files' = (files \ {f}) \cup {[f EXCEPT !.length = IF off + len > @ THEN off + len ELSE @]}
  /\ pc' = "write"
  /\ op' = [call |-> "write", id |-> f.id, off |-> off, len |-> len,
            page |-> f.page + (off \div PageSize), at |-> off % PageSize, left |-> len,
            dirty |-> off + len > f.length, buf |-> <<>>]
  /\ calls' = calls + 1
  /\ UNCHANGED <<toc, data, generation, toc_position, dirs, ghosts, faults>>

InPage == IF op.left < PageSize - op.at THEN op.left ELSE PageSize - op.at

\* Fault: the page is not read before it is changed.
ChangedBlank == [i \in 1..PageSize |-> IF i \in (op.at + 1)..(op.at + InPage) THEN op.id ELSE Erased]

ChangedPage ==
  [i \in 1..PageSize |-> IF i \in (op.at + 1)..(op.at + InPage) THEN op.id ELSE data[op.page][i]]

WriteErase ==
  /\ pc = "write" /\ op.left > 0
  /\ op' = [op EXCEPT !.buf = ChangedPage]
  /\ data' = [data EXCEPT ![op.page] = [i \in 1..PageSize |-> Erased]]
  /\ pc' = "writing"
  /\ UNCHANGED <<toc, memory, dirs, ghosts, calls, faults>>

WritePage ==
  /\ pc = "writing"
  /\ data' = [data EXCEPT ![op.page] = op.buf]
  /\ op' = [op EXCEPT !.left = @ - InPage, !.page = @ + 1, !.at = 0, !.buf = <<>>]
  /\ pc' = "write"
  /\ UNCHANGED <<toc, memory, dirs, ghosts, calls, faults>>

\* The page is lost; the length has grown in memory all the same.
WriteFails ==
  /\ pc = "writing"
  /\ faults < MaxFaults /\ faults' = faults + 1
  /\ exposed' = exposed \cup {op.id}
  /\ pc' = "idle" /\ op' = NoOp
  /\ UNCHANGED <<toc, data, memory, dirs, acked, ideal, calls>>

WriteDone ==
  /\ pc = "write" /\ op.left = 0
  /\ ideal' = [ideal EXCEPT ![op.id] =
       [i \in DOMAIN @ |-> IF i \in (op.off + 1)..(op.off + op.len) THEN op.id ELSE @[i]]]
  /\ pc' = IF op.dirty THEN "commit" ELSE "idle"
  /\ op' = IF op.dirty THEN [call |-> "write", id |-> op.id] ELSE NoOp
  /\ UNCHANGED <<toc, data, memory, dirs, acked, exposed, calls, faults>>

(***************************************************************************)
(* Directories: next_file is a pointer into the list.                      *)
(***************************************************************************)
spifs_opendir(d) ==
  /\ Idle /\ dir[d] = Closed
  /\ dir' = [dir EXCEPT ![d] = After(files, 0)]
  /\ seen' = [seen EXCEPT ![d] = <<>>]
  /\ UNCHANGED <<toc, data, memory, pc, op, ghosts, calls, faults>>

spifs_readdir(d) ==
  /\ Idle /\ dir[d] \notin {Closed, AtEnd}
  /\ seen' = [seen EXCEPT ![d] = Append(@, dir[d])]
  /\ dir' = [dir EXCEPT ![d] = After(files, File(files, @).page)]
  /\ UNCHANGED <<toc, data, memory, pc, op, ghosts, calls, faults>>

spifs_closedir(d) ==
  /\ Idle /\ dir[d] # Closed
  /\ dir' = [dir EXCEPT ![d] = Closed]
  /\ seen' = [seen EXCEPT ![d] = <<>>]
  /\ UNCHANGED <<toc, data, memory, pc, op, ghosts, calls, faults>>

\* The back ToC, then the front ToC; what was on the disk is given up.
spifs_format ==
  /\ pc = "down" /\ calls < MaxCalls /\ calls' = calls + 1
  /\ files' = {} /\ generation' = 1 /\ toc_position' = FRONT_TOC
  /\ pc' = "commit" /\ op' = [call |-> "format", id |-> 0]
  /\ exposed' = Ids
  /\ UNCHANGED <<toc, data, dirs, acked, ideal, faults>>

Crash ==
  /\ Crashes /\ pc # "down"
  /\ NotMounted
  /\ dir' = [d \in Dirs |-> Closed] /\ seen' = [d \in Dirs |-> <<>>]
  /\ exposed' = exposed \cup IF op.call = "write" THEN {op.id} ELSE {}
  /\ pc' = "down" /\ op' = NoOp
  /\ UNCHANGED <<toc, data, acked, ideal, calls, faults>>

Next ==
  \/ spifs_mount \/ spifs_unmount \/ spifs_format \/ Crash
  \/ CommitErase \/ CommitWrite \/ CommitFails
  \/ \E n \in Names, l \in Lengths : spifs_create(n, l)
  \/ Idle /\ \E f \in files :
       \/ spifs_remove(f)
       \/ \E l \in Lengths : spifs_truncate(f, l)
       \/ \E off \in 0..(f.pages * PageSize - 1) :
             \E len \in 1..(f.pages * PageSize - off) : spifs_write(f, off, len)
  \/ WriteErase \/ WritePage \/ WriteFails \/ WriteDone
  \/ \E d \in Dirs : spifs_opendir(d) \/ spifs_readdir(d) \/ spifs_closedir(d)

Spec == Init /\ [][Next]_vars

(***************************************************************************)
(* Properties                                                              *)
(***************************************************************************)
Kept(S) == {f \in S : f.id \notin exposed}

\* What the calls that succeeded did to the table of contents is what the next mount finds, and a
\* mount always finds a table; while a call writes the ToC, the mount may find the new one.
TableIsDurable ==
  exposed # Ids => Mountable /\ Kept(Found) = Kept(acked)

\* In memory and in the table a mount would use, no two files share a page, and none a ToC.
FilesDoNotOverlap ==
  \A S \in (IF mounted THEN {files} ELSE {}) \cup {Found} :
     exposed # Ids => /\ consistency_check(S)
                      /\ \A f \in S : Extent(f) \subseteq Page

\* A file that a mount finds has the bytes that were written to it: no other file's, and none lost.
FilesKeepTheirBytes ==
  op.call # "write" => \A f \in Kept(Found) :
     \A i \in 1..(f.pages * PageSize) : Byte(f, i) = ideal[f.id][i]

\* An open directory points at a file of the list, or at its end, and lists no file twice.
DirsPointAtFiles ==
  \A d \in Dirs : dir[d] # Closed =>
     /\ dir[d] # AtEnd => Has(files, dir[d])
     /\ \A i, j \in DOMAIN seen[d] : seen[d][i] = seen[d][j] => i = j
=============================================================================
