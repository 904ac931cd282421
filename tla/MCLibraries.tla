---------------------------- MODULE MCLibraries -----------------------------
(***************************************************************************)
(* Data structures of the libraries, for TLC: the circular buffer, the     *)
(* heap cmpctmalloc, the lock-free arena and the balanced tree. "who" says *)
(* which a behaviour is about; the circular buffer stays as it is created  *)
(* in the behaviours of the others, and the variables that they do not     *)
(* share stay 0.                                                           *)
(***************************************************************************)
EXTENDS CBuf, FiniteSets

CONSTANTS t1, t2, nil   \* model values

VARIABLES who,  \* the component that runs
          h, live, delayed, calls, head_node_, next, top_, committed_, count_, pc2, head_node,
          link, top, node, held, free, fails, nodes, trees

\* Seven keys, one of them with two objects, and values that follow neither the keys nor their
\* reverse.
EightKeys == <<1, 2, 3, 4, 5, 6, 7, 4>>
EightValues == <<3, 6, 1, 4, 7, 2, 5, 8>>

H == INSTANCE Cmpct WITH
  Threads <- {t1}, PageSize <- 256, GrowSize <- 256, VirtualBits <- 11, NumPages <- 4,
  Sizes <- {0, 60, 256}, Aligns <- {64}, MaxLive <- 2, NULL <- nil
G == INSTANCE GPArena WITH
  Threads <- {t1, t2}, ObjectSize <- 2, PageSize <- 3, GrowPages <- 1, MemSize <- 6,
  MaxGen <- 5, MaxFail <- 1, pc <- pc2
W == INSTANCE Wavl WITH
  Nodes <- 1 .. 8, Key <- EightKeys, Value <- EightValues, Trees <- {1, 2}

ASSUME CBufAssumption /\ G!GPArenaAssumption

\* What each component leaves alone.
NotCBuf ==
  <<who, h, live, delayed, calls, head_node_, next, top_, committed_, count_, pc2, head_node,
  link, top, node, held, free, fails, nodes, trees>>
NotCmpct ==
  <<who, vars, head_node_, next, top_, committed_, count_, pc2, head_node, link, top, node,
  held, free, fails, nodes, trees>>
NotGPArena == <<who, vars, h, live, delayed, calls, nodes, trees>>
NotWavl ==
  <<who, vars, h, live, delayed, calls, head_node_, next, top_, committed_, count_, pc2,
  head_node, link, top, node, held, free, fails>>

SumInit ==
  \/ /\ who = "cbuf" /\ Init
     /\ h = 0 /\ live = 0 /\ delayed = 0 /\ calls = 0 /\ head_node_ = 0 /\ next = 0 /\ top_ = 0
     /\ committed_ = 0 /\ count_ = 0 /\ pc2 = 0 /\ head_node = 0 /\ link = 0 /\ top = 0
     /\ node = 0 /\ held = 0 /\ free = 0 /\ fails = 0 /\ nodes = 0 /\ trees = 0
  \/ /\ who = "heap" /\ H!Init /\ Init
     /\ head_node_ = 0 /\ next = 0 /\ top_ = 0 /\ committed_ = 0 /\ count_ = 0 /\ pc2 = 0
     /\ head_node = 0 /\ link = 0 /\ top = 0 /\ node = 0 /\ held = 0 /\ free = 0 /\ fails = 0
     /\ nodes = 0 /\ trees = 0
  \/ /\ who = "arena" /\ G!Init /\ Init
     /\ h = 0 /\ live = 0 /\ delayed = 0 /\ calls = 0 /\ nodes = 0 /\ trees = 0
  \/ /\ who = "tree" /\ W!Init /\ Init
     /\ h = 0 /\ live = 0 /\ delayed = 0 /\ calls = 0 /\ head_node_ = 0 /\ next = 0 /\ top_ = 0
     /\ committed_ = 0 /\ count_ = 0 /\ pc2 = 0 /\ head_node = 0 /\ link = 0 /\ top = 0
     /\ node = 0 /\ held = 0 /\ free = 0 /\ fails = 0

SumNext ==
  \/ who = "cbuf" /\ Next /\ UNCHANGED NotCBuf
  \/ who = "heap" /\ H!Next /\ UNCHANGED NotCmpct
  \/ who = "arena" /\ G!Next /\ UNCHANGED NotGPArena
  \/ who = "tree" /\ W!Next /\ UNCHANGED NotWavl

sumvars ==
  <<who, vars, h, live, delayed, calls, head_node_, next, top_, committed_, count_, pc2,
  head_node, link, top, node, held, free, fails, nodes, trees>>

SumSpec == SumInit /\ [][SumNext]_sumvars
-----------------------------------------------------------------------------
\* The headers of the heap tile its pages and its free lists, bits and counters agree with them,
\* whatever is split, trimmed, coalesced, grown and given back.
HeapIsWhole == who = "heap" => H!HeapIsTiled /\ H!FreeListsAgree /\ H!EmptyHeapIsReturned

\* What is handed out belongs to its caller alone: a block of the heap is an area of its own of
\* the size and alignment asked for, and an object of the arena is with one thread or free once,
\* whatever a stalled thread has read.
BlocksAreKept ==
  /\ who = "heap" => H!BlocksAreKept
  /\ who = "arena" => G!OneOwner /\ G!ListIsWhole /\ G!AllocatedIsCommitted /\ G!CountFollows

\* The tree's links agree in both directions, its ranks are those of a balanced tree although
\* only their parities are compared, searches and iteration find what is there, and every node
\* knows the best value below it.
TreesAreRight ==
  who = "tree" => W!LinksAgree /\ W!RanksAreRight /\ W!SearchesAgree /\ W!BestIsRight
=============================================================================
