------------------------------ MODULE MCMemory ------------------------------
(***************************************************************************)
(* Who has which memory, for TLC: the structures and stacks of threads     *)
(* that exit, are joined and are detached; the page allocator and the      *)
(* regions of two address spaces under two threads; and the page tables    *)
(* that hold the mappings on each architecture, with two processors and    *)
(* two user address spaces. "who" says which a behaviour is about; the     *)
(* threads stay as the kernel starts in the behaviours of the others, and  *)
(* the variables that they do not share stay 0.                            *)
(***************************************************************************)
EXTENDS ThreadLife, TLC

CONSTANTS t1, t2, u1, u2, c1, c2, kernel, NULL   \* model values

VARIABLES who,  \* the component that runs
          pmm, aspace_list, region_list, mmu, kpages, call, arch, mem, others, root, regions,
          active, tlb

\* Two arenas added out of priority order, the second not aligned to two pages; a kernel
\* address space that ends where addresses wrap.
Arenas == << [base |-> 3, size |-> 3, priority |-> 2, kmap |-> TRUE],
             [base |-> 8, size |-> 1, priority |-> 1, kmap |-> TRUE] >>
Spaces == [kernel |-> [base |-> 5, size |-> 3], user |-> [base |-> 1, size |-> 1]]

V == INSTANCE Vmm WITH
  Added <- Arenas, Aspaces <- Spaces, Threads <- {t1, t2}, Kernel <- "kernel", VRange <- 8,
  KernelPages <- {3}, Device <- 20, Sizes <- {1, 2}, Aligns <- {2}, Spots <- {6}, KSizes <- {2}
M == INSTANCE Mmu WITH
  Levels <- 3, Fanout <- 2, Tables <- 1 .. 4, BlockMax <- 1, KernelTop <- 10,
  KernelL2 <- 1 :> 11, KernelName <- kernel, Users <- {u1, u2}, Cpus <- {c1, c2},
  Spots <- {0, 3, 4}, Sizes <- {1, 3}, Frames <- {0}, Flags <- {{"user", "nx"}}, MaxRegions <- 2

ASSUME ThreadLifeAssumption

\* What each component leaves alone.
NotThreadLife ==
  <<who, pmm, aspace_list, region_list, mmu, kpages, call, arch, mem, others, root, regions,
  active, tlb>>
NotVmm == <<who, vars, arch, mem, others, root, regions, active, tlb>>
NotMmu == <<who, vars, pmm, aspace_list, region_list, mmu, kpages, call>>

SumInit ==
  \/ /\ who = "threads" /\ Init
     /\ pmm = 0 /\ aspace_list = 0 /\ region_list = 0 /\ mmu = 0 /\ kpages = 0 /\ call = 0
     /\ arch = 0 /\ mem = 0 /\ others = 0 /\ root = 0 /\ regions = 0 /\ active = 0 /\ tlb = 0
  \/ /\ who = "vmm" /\ V!Init /\ Init
     /\ arch = 0 /\ mem = 0 /\ others = 0 /\ root = 0 /\ regions = 0 /\ active = 0 /\ tlb = 0
  \/ /\ who = "mmu" /\ M!Init /\ Init
     /\ pmm = 0 /\ aspace_list = 0 /\ region_list = 0 /\ mmu = 0 /\ kpages = 0 /\ call = 0

SumNext ==
  \/ who = "threads" /\ Next /\ UNCHANGED NotThreadLife
  \/ who = "vmm" /\ V!Next /\ UNCHANGED NotVmm
  \/ who = "mmu" /\ M!Next /\ UNCHANGED NotMmu

sumvars ==
  <<who, vars, pmm, aspace_list, region_list, mmu, kpages, call, arch, mem, others, root,
  regions, active, tlb>>

SumSpec == SumInit /\ [][SumNext]_sumvars
-----------------------------------------------------------------------------
\* The threads of the memory manager are interchangeable, and so are the user address spaces.
Symmetry == Permutations({t1, t2}) \cup Permutations({u1, u2})

\* Every page is in one place: free in its arena, on one caller's list, in one region or part of
\* the kernel; and every page taken for page tables is linked into one tree, and no table that
\* is linked is free.
PageHasOneHome ==
  /\ who = "vmm" => V!PageHasOneHome
  /\ who = "mmu" => M!TablesAddUp

\* What is mapped is what the regions say, page by page and with their flags, whatever was
\* mapped, unmapped, refused half way or done in another address space.
MapsFollowRegions ==
  /\ who = "vmm" => V!MappedIsHeld
  /\ who = "mmu" => M!MapsFollowRegions

\* No translation outlives its mapping in a processor's cache.
TlbIsCurrent == who = "mmu" => M!TlbIsCurrent

\* Regions are apart and in order, a new one goes to the lowest place that fits it, and a run of
\* pages to the first, and neither search fails while there is room.
RoomIsFound == who = "vmm" => V!RegionsAreApart /\ V!SpotIsTheLowest /\ V!RunIsTheFirst
=============================================================================
