-------------------------------- MODULE Wavl --------------------------------
(***************************************************************************)
(* The weak AVL tree, lib/fbl_ulib/include/fbl/intrusive_wavl_tree.h, with *)
(* the observer of wavl_tree_best_node_observer.h that keeps the best      *)
(* value of every subtree.  A node is a positive number, NULL is 0, and    *)
(* the sentinel of a tree is a negative number.  The code is symmetric in  *)
(* left and right by its LRTraits, here a side.                            *)
(*                                                                         *)
(* A node stores the parity of its rank only.  The model keeps the rank,   *)
(* as the balance tests' RankType does, and every decision looks at its    *)
(* parity.  The rank of a node that is in no tree is not kept.             *)
(***************************************************************************)
EXTENDS Integers, Sequences, FiniteSets

CONSTANTS
  Nodes,    \* objects: positive numbers
  Key,      \* the key of an object
  Value,    \* what the observer compares, 1 or more
  Trees     \* positive numbers

VARIABLES
  nodes,    \* the state of the nodes: par, kid, rank and best, by node
  trees     \* root_, left_most_ and right_most_, count_

vars == <<nodes, trees>>

NULL == 0
Valid(p) == p > 0
IsSentinel(p) == p < 0
Opp(d) == IF d = "l" THEN "r" ELSE "l"

Empty(tr) == [root |-> NULL, most |-> [l |-> -tr, r |-> -tr], count |-> 0]

Init ==
  /\ nodes = [par |-> [n \in Nodes |-> NULL],
              kid |-> [n \in Nodes |-> [l |-> NULL, r |-> NULL]],
              rank |-> [n \in Nodes |-> 0],
              best |-> [n \in Nodes |-> 0]]
  /\ trees = [tr \in Trees |-> Empty(tr)]

\* The operators below work on one tree and the nodes: a record with the fields of
\* both and the tree's sentinel.
On(tr) ==
  [par |-> nodes.par, kid |-> nodes.kid, rank |-> nodes.rank, best |-> nodes.best,
   root |-> trees[tr].root, most |-> trees[tr].most, count |-> trees[tr].count,
   me |-> -tr]

Put(tr, s) ==
  /\ nodes' = [par |-> s.par, kid |-> s.kid, rank |-> s.rank, best |-> s.best]
  /\ trees' = [trees EXCEPT ![tr] = [root |-> s.root, most |-> s.most, count |-> s.count]]

---------------------------------------------------------------------------
(* Ranks and links.                                                        *)

\* rank_parity; a child that is not there has rank -1.
Parity(s, p) == IF Valid(p) THEN s.rank[p] % 2 = 1 ELSE TRUE
Rank(s, p, by) == [s EXCEPT !.rank[p] = @ + by]

IsLeaf(s, p) == ~Valid(s.kid[p].l) /\ ~Valid(s.kid[p].r)
SideOf(s, p) == IF s.kid[s.par[p]].l = p THEN "l" ELSE "r"

\* GetLinkPtrToNode: the pointer that points to p, and what is stored through it.
GetLinkPtrToNode(s, p) ==
  IF IsSentinel(s.par[p]) THEN [at |-> s.me, side |-> "l"]
  ELSE [at |-> s.par[p], side |-> SideOf(s, p)]
SetLink(s, link, v) ==
  IF link.at = s.me THEN [s EXCEPT !.root = v] ELSE [s EXCEPT !.kid[link.at][link.side] = v]

---------------------------------------------------------------------------
(* WAVLTreeBestNodeObserver, larger values being better.                   *)

Better(a, b) == IF a > b THEN a ELSE b
BestOf(s, p) == IF Valid(p) THEN s.best[p] ELSE 0

UpdateBest(s, value, p) ==
  [s EXCEPT !.best[p] = Better(value, Better(BestOf(s, s.kid[p].l), BestOf(s, s.kid[p].r)))]

RECURSIVE RecomputeUntilRoot(_, _)
RecomputeUntilRoot(s, p) ==
  IF ~Valid(p) THEN s ELSE RecomputeUntilRoot(UpdateBest(s, Value[p], p), s.par[p])

RecordInsertTraverse(s, p, ancestor) ==
  [s EXCEPT !.best[ancestor] = Better(Value[p], @)]

\* Fault: the parent keeps the best of the subtree it no longer is the root of.
KeepsParent(s, pivot, lr_child, parent, sibling) ==
  [s EXCEPT !.best[pivot] = s.best[parent]]

RecordRotation(s, pivot, lr_child, parent, sibling) ==
  [s EXCEPT !.best[pivot] = s.best[parent],
            !.best[parent] = Better(Value[parent],
                                    Better(BestOf(s, sibling), BestOf(s, lr_child)))]

RecordErase(s, p, invalidated) == [RecomputeUntilRoot(s, invalidated) EXCEPT !.best[p] = 0]

RecordInsertReplace(s, p, replacement) ==
  LET a == RecomputeUntilRoot(UpdateBest(s, Value[replacement], p), s.par[p])
  IN [a EXCEPT !.best[replacement] = a.best[p], !.best[p] = 0]

---------------------------------------------------------------------------
(* Rotation: X, the Opp(d) child of Z, takes its place and has it as its   *)
(* d child.                                                                *)

\* Fault: the parent of the child that changes hands is left alone.
LeavesParent(s, d, X, Z) ==
  LET Y == s.kid[X][d]
      a == SetLink(RecordRotation(s, X, Y, Z, s.kid[Z][d]), GetLinkPtrToNode(s, Z), X)
  IN [a EXCEPT !.kid[Z][Opp(d)] = Y, !.kid[X][d] = Z,
               !.par[X] = s.par[Z], !.par[Z] = X]

RotateLR(s, d, X, Z) ==
  LET Y == s.kid[X][d]
      a == SetLink(RecordRotation(s, X, Y, Z, s.kid[Z][d]), GetLinkPtrToNode(s, Z), X)
      b == [a EXCEPT !.kid[Z][Opp(d)] = Y, !.kid[X][d] = Z,
                     !.par[X] = s.par[Z], !.par[Z] = X]
  IN IF Y # NULL THEN [b EXCEPT !.par[Y] = Z] ELSE b

---------------------------------------------------------------------------
(* Insertion.                                                              *)

PostInsertFixupLR(s, d, p, parent) ==
  LET Y == s.kid[p][Opp(d)]
  IN IF ~Valid(Y) \/ Parity(s, Y) = Parity(s, p)
     THEN Rank(RotateLR(s, Opp(d), p, parent), parent, -1)
     ELSE LET a == RotateLR(RotateLR(s, d, Y, p), Opp(d), Y, parent)
          IN Rank(Rank(Rank(a, Y, 1), p, -1), parent, -1)

\* Promote the parent of a node that has come to be level with it, and climb.
RECURSIVE Promotions(_, _)
Promotions(s, child) ==
  LET p == s.par[child]
      a == Rank(s, p, 1)
      parent == a.par[p]
  IN IF ~Valid(parent) THEN a
     ELSE LET d == SideOf(a, p)
              N == Parity(a, p)
              P == Parity(a, parent)
              S == Parity(a, a.kid[parent][Opp(d)])
          IN IF N = P /\ N # S THEN Promotions(a, p)
             ELSE IF N # P \/ N # S THEN a
             ELSE PostInsertFixupLR(a, d, p, parent)

BalancePostInsert(s, p) ==
  LET parent == s.par[p]
  IN IF Valid(s.kid[parent].l) /\ Valid(s.kid[parent].r) THEN s ELSE Promotions(s, p)

\* The way down from parent: to the node with the same key, or to the free place.
RECURSIVE Descend(_, _, _, _, _)
Descend(s, p, parent, is_left_most, is_right_most) ==
  IF Key[p] = Key[parent] THEN [s |-> s, collision |-> parent]
  ELSE LET a == RecordInsertTraverse(s, p, parent)
           d == IF Key[p] < Key[parent] THEN "l" ELSE "r"
           lm == is_left_most /\ d = "l"
           rm == is_right_most /\ d = "r"
       IN IF Valid(a.kid[parent][d]) THEN Descend(a, p, a.kid[parent][d], lm, rm)
          ELSE [s |-> a, collision |-> NULL, at |-> parent, side |-> d, lm |-> lm, rm |-> rm]

\* internal_insert: the tree, and the node p collided with.
internal_insert(s, p) ==
  LET fresh == [s EXCEPT !.rank[p] = 0]
  IN IF s.root = NULL
     THEN [s |-> [fresh EXCEPT !.par[p] = s.me, !.kid[p] = [l |-> s.me, r |-> s.me],
                               !.most = [l |-> p, r |-> p], !.root = p, !.count = @ + 1,
                               !.best[p] = Value[p]],
           collision |-> NULL]
     ELSE LET w == Descend(fresh, p, s.root, TRUE, TRUE)
              a == IF w.rm THEN [w.s EXCEPT !.kid[p].r = s.me, !.most.r = p]
                   ELSE IF w.lm THEN [w.s EXCEPT !.kid[p].l = s.me, !.most.l = p]
                   ELSE w.s
              b == [a EXCEPT !.par[p] = w.at, !.kid[w.at][w.side] = p, !.count = @ + 1,
                             !.best[p] = Value[p]]
          IN IF w.collision # NULL THEN w
             ELSE [s |-> BalancePostInsert(b, p), collision |-> NULL]

\* internal_swap: new takes the place of old.
internal_swap(s, old, new) ==
  LET Adopt(t, d) ==
        LET c == s.kid[old][d]
            a == [t EXCEPT !.kid[new][d] = c, !.kid[old][d] = NULL]
        IN IF Valid(c) THEN [a EXCEPT !.par[c] = new]
           ELSE IF IsSentinel(c) THEN [a EXCEPT !.most[d] = new]
           ELSE a
      b == SetLink(Adopt(Adopt(s, "l"), "r"), GetLinkPtrToNode(s, old), new)
  IN [b EXCEPT !.rank[new] = s.rank[old], !.rank[old] = 0,
               !.par[new] = s.par[old], !.par[old] = NULL]

---------------------------------------------------------------------------
(* Removal.                                                                *)

\* n1 has two children and n2 is the left-most node of its right subtree.
SwapWithRightDescendant(s, n1, n2) ==
  LET Swapped(f) == [f EXCEPT ![n1] = f[n2], ![n2] = f[n1]]
      Reparent(t, c, p) == IF Valid(c) THEN [t EXCEPT !.par[c] = p] ELSE t
      core == [s EXCEPT !.par = Swapped(@), !.kid = Swapped(@), !.rank = Swapped(@),
                        !.most.l = IF @ = n1 THEN n2 ELSE @,
                        !.most.r = IF @ = n2 THEN n1 ELSE @]
      kids == Reparent(Reparent(Reparent(core, s.kid[n1].l, n2),
                                s.kid[n2].l, n1), s.kid[n2].r, n1)
      top == SetLink(kids, GetLinkPtrToNode(s, n1), n2)
  IN IF s.kid[n1].r # n2
     THEN [SetLink(top, GetLinkPtrToNode(s, n2), n1) EXCEPT !.par[s.kid[n1].r] = n2]
     ELSE [top EXCEPT !.kid[n2].r = n1, !.par[n1] = n2]

RECURSIVE Furthest(_, _, _)
Furthest(s, p, d) == IF s.kid[p][d] = NULL THEN p ELSE Furthest(s, s.kid[p][d], d)

\* Fault: the sentinel of the removed node stays with it.
DropsSentinel(s, d, owner, p) ==
  LET child == s.kid[p][d]
  IN [SetLink(s, owner, child) EXCEPT !.par[child] = s.par[p], !.par[p] = NULL,
                                      !.kid[p] = [l |-> NULL, r |-> NULL]]

\* The d child of p, its only one, takes its place.
PromoteLRChild(s, d, owner, p) ==
  LET child == s.kid[p][d]
      a == [SetLink(s, owner, child) EXCEPT !.par[child] = s.par[p], !.par[p] = NULL,
                                            !.kid[p] = [l |-> NULL, r |-> NULL]]
      end == Furthest(a, child, Opp(d))
  IN IF IsSentinel(s.kid[p][Opp(d)])
     THEN [a EXCEPT !.most[Opp(d)] = end, !.kid[end][Opp(d)] = s.me]
     ELSE a

\* p has no children: its sentinel, if it has one, goes to its parent.
RemoveLeaf(s, owner, p) ==
  LET k == s.kid[p]
      a == [s EXCEPT !.par[p] = NULL, !.kid[p] = [l |-> NULL, r |-> NULL]]
  IN CASE IsSentinel(k.l) /\ IsSentinel(k.r) -> [a EXCEPT !.most = [l |-> s.me, r |-> s.me]]
       [] IsSentinel(k.l) /\ ~IsSentinel(k.r) ->
            SetLink([a EXCEPT !.most.l = s.par[p]], owner, k.l)
       [] ~IsSentinel(k.l) /\ IsSentinel(k.r) ->
            SetLink([a EXCEPT !.most.r = s.par[p]], owner, k.r)
       [] OTHER -> a

Is22(s, Y) ==
  /\ Parity(s, s.kid[Y].l) = Parity(s, Y)
  /\ Parity(s, s.kid[Y].r) = Parity(s, Y)

\* X, the d child of Z, is a 3-child, and Y is a 1-child of Z that is no 2,2 node.
BalancePostErase_DoRotations(s, d, Y, Z) ==
  LET W == s.kid[Y][Opp(d)]
      V == s.kid[Y][d]
      a == Rank(RotateLR(s, d, Y, Z), Y, 1)
      b == RotateLR(RotateLR(s, Opp(d), V, Y), d, V, Z)
  IN IF Parity(s, Y) # Parity(s, W)
     THEN Rank(a, Z, IF IsLeaf(a, Z) THEN -2 ELSE -1)
     ELSE Rank(Rank(Rank(b, V, 2), Y, -1), Z, -2)

\* Demote Z, whose d child is a 3-child, and climb.
RECURSIVE Demotions(_, _, _)
Demotions(s, d, Z) ==
  LET Y == s.kid[Z][Opp(d)]
      Y_is_2_child == Parity(s, Y) = Parity(s, Z)
      z == Rank(s, Z, -1)
      a == IF Y_is_2_child THEN z ELSE Rank(z, Y, -1)
      up == a.par[Z]
  IN IF ~Y_is_2_child /\ ~Is22(s, Y) THEN BalancePostErase_DoRotations(s, d, Y, Z)
     ELSE IF ~Valid(up) THEN a
     ELSE IF Parity(a, up) = Parity(a, Z) THEN a
     ELSE Demotions(a, SideOf(a, Z), up)

BalancePostErase_FixLR3Child(s, d, Z) ==
  IF Valid(s.kid[Z][d]) # Parity(s, Z) THEN s ELSE Demotions(s, d, Z)

\* Fault: the demoted leaf's parent is not looked at.
DemoteOnly(s, p) ==
  IF ~Parity(s, p) \/ ~IsLeaf(s, p) THEN s ELSE Rank(s, p, -1)

BalancePostErase_Fix22Leaf(s, p) ==
  LET a == Rank(s, p, -1)
  IN IF ~Parity(s, p) \/ ~IsLeaf(s, p) THEN s
     ELSE IF IsSentinel(s.par[p]) THEN a
     ELSE BalancePostErase_FixLR3Child(a, SideOf(a, p), a.par[p])

internal_erase(s, p) ==
  LET two == Valid(s.kid[p].l) /\ Valid(s.kid[p].r)
      a == IF two THEN SwapWithRightDescendant(s, p, Furthest(s, s.kid[p].r, "l")) ELSE s
      owner == GetLinkPtrToNode(a, p)
      parent == a.par[p]
      was_one_child == Parity(a, p) # Parity(a, parent)
      b == SetLink(a, owner, NULL)
      c == IF Valid(a.kid[p].l) THEN PromoteLRChild(b, "l", owner, p)
           ELSE IF Valid(a.kid[p].r) THEN PromoteLRChild(b, "r", owner, p)
           ELSE RemoveLeaf(b, owner, p)
      e == RecordErase([c EXCEPT !.count = @ - 1, !.rank[p] = 0], p, parent)
  IN IF IsSentinel(parent) THEN e
     ELSE IF was_one_child THEN BalancePostErase_Fix22Leaf(e, parent)
     ELSE BalancePostErase_FixLR3Child(e, owner.side, parent)

\* The loop of clear(): trim a leaf and climb, or descend.
RECURSIVE Trim(_, _)
Trim(s, p) ==
  LET k == s.kid[p]
      a == [SetLink(s, GetLinkPtrToNode(s, p), NULL)
              EXCEPT !.par[p] = NULL, !.best[p] = 0, !.rank[p] = 0]
  IN IF k.l = NULL /\ k.r = NULL
     THEN IF s.root = p THEN a ELSE Trim(a, s.par[p])
     ELSE Trim(s, IF k.l # NULL THEN k.l ELSE k.r)

clear(s) ==
  IF s.root = NULL THEN s
  ELSE [Trim([s EXCEPT !.kid[s.most.l].l = NULL, !.kid[s.most.r].r = NULL], s.root)
          EXCEPT !.most = [l |-> s.me, r |-> s.me], !.count = 0]

---------------------------------------------------------------------------
(* The calls.                                                              *)

Out(p) == nodes.par[p] = NULL
RECURSIVE TreeOf(_)
TreeOf(p) == IF IsSentinel(nodes.par[p]) THEN -nodes.par[p] ELSE TreeOf(nodes.par[p])
In(tr, p) == ~Out(p) /\ TreeOf(p) = tr

\* insert, and insert_or_find when the key is there already.
insert_or_find(tr, p) ==
  /\ Out(p)
  /\ LET w == internal_insert(On(tr), p)
     IN Put(tr, IF w.collision = NULL THEN w.s ELSE RecomputeUntilRoot(w.s, w.collision))

insert_or_replace(tr, p) ==
  /\ Out(p)
  /\ LET w == internal_insert(On(tr), p)
     IN /\ w.collision # NULL
        /\ Put(tr, internal_swap(RecordInsertReplace(w.s, w.collision, p), w.collision, p))

\* erase, pop_front and pop_back.
erase(tr, p) == In(tr, p) /\ Put(tr, internal_erase(On(tr), p))

\* clear, the destructor and the first half of a move.
Clear(tr) == Put(tr, clear(On(tr)))

\* FixSentinelsAfterSwap, for the tree tr that has got what tree t had.
Fixed(tr, t, ns) ==
  IF t.root = NULL THEN [n |-> ns, t |-> Empty(tr)]
  ELSE [n |-> [ns EXCEPT !.par[t.root] = -tr, !.kid[t.most.l].l = -tr, !.kid[t.most.r].r = -tr],
        t |-> t]

swap(tr, other) ==
  LET a == Fixed(tr, trees[other], nodes)
      b == Fixed(other, trees[tr], a.n)
  IN nodes' = b.n /\ trees' = [trees EXCEPT ![tr] = a.t, ![other] = b.t]

Next ==
  \/ \E tr \in Trees, p \in Nodes : insert_or_find(tr, p)
  \/ \E tr \in Trees, p \in Nodes : insert_or_replace(tr, p)
  \/ \E tr \in Trees, p \in Nodes : erase(tr, p)
  \/ \E tr \in Trees : Clear(tr)
  \/ \E tr, other \in Trees : tr < other /\ swap(tr, other)

Spec == Init /\ [][Next]_vars

---------------------------------------------------------------------------
(* Iterators and searches.                                                 *)

RECURSIVE ClimbFrom(_, _)
ClimbFrom(p, d) ==
  LET up == nodes.par[p] IN IF nodes.kid[up][d] = p THEN up ELSE ClimbFrom(up, d)

\* operator++ for d = "l", operator-- for d = "r".
advance(p, d) ==
  LET c == nodes.kid[p][Opp(d)]
  IN IF c = NULL THEN ClimbFrom(p, d)
     ELSE IF IsSentinel(c) THEN c
     ELSE Furthest(nodes, c, d)

RECURSIVE Walk(_, _)
Walk(p, d) == IF ~Valid(p) THEN <<>> ELSE <<p>> \o Walk(advance(p, d), d)

RECURSIVE Search(_, _)
Search(p, key) ==
  IF ~Valid(p) THEN NULL
  ELSE IF Key[p] = key THEN p
  ELSE Search(IF key < Key[p] THEN nodes.kid[p].l ELSE nodes.kid[p].r, key)
find(tr, key) == Search(trees[tr].root, key)

\* Fault: the search ends at the first node that is not below the bound.
FirstFound(p, key, found) ==
  IF ~Valid(p) THEN found ELSE IF Key[p] < key THEN NULL ELSE p

RECURSIVE internal_upper_lower_bound(_, _, _)
internal_upper_lower_bound(p, key, found) ==
  IF ~Valid(p) THEN found
  ELSE IF Key[p] < key THEN internal_upper_lower_bound(nodes.kid[p].r, key, found)
  ELSE internal_upper_lower_bound(nodes.kid[p].l, key, p)
\* Keys are integers: above key is not below key + 1.
lower_bound(tr, key) == internal_upper_lower_bound(trees[tr].root, key, NULL)
upper_bound(tr, key) == internal_upper_lower_bound(trees[tr].root, key + 1, NULL)

---------------------------------------------------------------------------
(* Properties.                                                             *)

Members(tr) == {p \in Nodes : In(tr, p)}
Keys == {Key[p] : p \in Nodes}

RECURSIVE Subtree(_)
Subtree(p) == IF ~Valid(p) THEN {}
              ELSE {p} \cup Subtree(nodes.kid[p].l) \cup Subtree(nodes.kid[p].r)

\* Types.
TypeOK ==
  /\ \A p \in Nodes : /\ nodes.par[p] \in Nodes \cup {NULL} \cup {-tr : tr \in Trees}
                      /\ nodes.rank[p] \in Nat /\ nodes.best[p] \in Nat
  /\ \A tr \in Trees : trees[tr].root \in Nodes \cup {NULL} /\ trees[tr].count \in Nat

\* The links down and the links up are the same, the sentinel is at the two ends of
\* the tree and nowhere else, the tree knows its ends, and its count is that of its
\* nodes.
LinksAgree ==
  /\ \A p \in Nodes : \A d \in {"l", "r"} :
       LET c == nodes.kid[p][d]
       IN /\ Valid(c) => nodes.par[c] = p
          /\ IsSentinel(c) => In(-c, p) /\ trees[-c].most[d] = p
          /\ Out(p) => c = NULL
  /\ \A tr \in Trees :
       /\ trees[tr].count = Cardinality(Members(tr))
       /\ trees[tr].root = NULL => trees[tr] = Empty(tr)
       /\ trees[tr].root # NULL =>
            /\ nodes.par[trees[tr].root] = -tr
            /\ \A d \in {"l", "r"} : nodes.kid[trees[tr].most[d]][d] = -tr

\* The rank rule, although only parities are stored and compared: the difference to
\* the parent is 1 or 2, and a leaf has rank 0.
RanksAreRight ==
  \A p \in Nodes : ~Out(p) =>
    /\ IsLeaf(nodes, p) => nodes.rank[p] = 0
    /\ Valid(nodes.par[p]) => nodes.rank[nodes.par[p]] - nodes.rank[p] \in {1, 2}

\* Every node in the tree is found, iteration goes through the keys in order from
\* either end, and the bounds are the smallest keys not below and above.
SearchesAgree ==
  \A tr \in Trees :
    LET w == Walk(trees[tr].most.l, "l")
        b == Walk(trees[tr].most.r, "r")
        Least(S) == IF S = {} THEN NULL ELSE CHOOSE p \in S : \A q \in S : Key[p] <= Key[q]
    IN /\ {w[i] : i \in 1 .. Len(w)} = Members(tr)
       /\ \A i \in 1 .. Len(w) - 1 : Key[w[i]] < Key[w[i + 1]]
       /\ Len(b) = Len(w) /\ \A i \in 1 .. Len(w) : b[i] = w[Len(w) + 1 - i]
       /\ \A k \in Keys :
            /\ find(tr, k) = Least({p \in Members(tr) : Key[p] = k})
            /\ lower_bound(tr, k) = Least({p \in Members(tr) : Key[p] >= k})
            /\ upper_bound(tr, k) = Least({p \in Members(tr) : Key[p] > k})

\* Every node knows the best value of its subtree, through rotations, collisions and
\* replacements.
BestIsRight ==
  \A p \in Nodes : ~Out(p) =>
    LET vs == {Value[q] : q \in Subtree(p)}
    IN nodes.best[p] \in vs /\ \A v \in vs : v <= nodes.best[p]
=============================================================================
