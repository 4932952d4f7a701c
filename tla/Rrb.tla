-------------------------------- MODULE Rrb ---------------------------------
(***************************************************************************)
(* The persistent vector of src/lib/rrb_vec/rrb_vec.h, behind every vector *)
(* of the language: a radix tree of full leaves plus a tail, whose nodes   *)
(* may be relaxed, that is carry a table of cumulative sizes, once vectors *)
(* were concatenated or sliced.                                            *)
(*                                                                         *)
(* A level counts nodes above the leaves (shift / RV_BITS). A leaf is the  *)
(* sequence of its elements; an internal node is a record of its children  *)
(* and its table, <<>> where the code has NULL. Elements are the numbers   *)
(* of the pushes that made them. Two vectors are kept, so that one can be  *)
(* concatenated to the other; the stride of wide elements is left out.     *)
(***************************************************************************)
EXTENDS Integers, Sequences, FiniteSets, SequencesExt

CONSTANTS
  Br,     \* RV_BRANCH: 32
  VMax,   \* bound: elements of a vector
  VGrow,  \* bound: pushes each vector starts with
  VSteps  \* bound: operations of the run

VARIABLES
  vecs,   \* the two vectors
  vref,   \* history: their contents
  spoilt, \* history: whether a tail was put into a tree the code cannot index
  vsteps

rrbVars == <<vecs, vref, spoilt, vsteps>>

NoTree == [kids |-> <<>>, st |-> <<>>]
Node(kids, st) == [kids |-> kids, st |-> st]
Strict(kids)   == Node(kids, <<>>)

\* RV_MK_ROOT
Vec(tree, shift, tail, count) == [tree |-> tree, shift |-> shift, tail |-> tail, count |-> count]
RV_EMPTY == Vec(NoTree, 1, <<>>, 0)
RV_TAIL_OFFSET(r) == IF r.count = 0 THEN 0 ELSE r.count - Len(r.tail)

-----------------------------------------------------------------------------
(* Reading *)

\* The child that holds index i of a node: by the size table of a relaxed
\* node, by the radix of a strict one.
Slot(n, level, i) ==
  IF n.st # <<>> THEN SelectInSeq(n.st, LAMBDA c : c > i) ELSE 1 + ((i \div (Br ^ level)) % Br)

\* The elements in front of that child, as the code counts them.
Before(n, level, slot) ==
  IF n.st # <<>> THEN (IF slot > 1 THEN n.st[slot - 1] ELSE 0) ELSE (slot - 1) * Br ^ level

\* RV_GET, RV_GET_LEAF and RV_FIND_LEAF_OFF: the leaf reached and the index
\* left in it. A child that is not there gives an empty leaf.
RECURSIVE Descend(_, _, _)
Descend(n, level, i) ==
  IF level = 0 THEN [leaf |-> n, off |-> i]
  ELSE LET s == Slot(n, level, i)
       IN IF s \in DOMAIN n.kids THEN Descend(n.kids[s], level - 1, i - Before(n, level, s))
          ELSE [leaf |-> <<>>, off |-> i]

RV_FIND_LEAF_OFF(r, i) ==
  IF i >= RV_TAIL_OFFSET(r) THEN [leaf |-> r.tail, off |-> i - RV_TAIL_OFFSET(r)]
  ELSE Descend(r.tree, r.shift, i)

\* RV_GET below the count. An element past the leaf's own is read as 0.
RV_GET(r, i) ==
  LET p == RV_FIND_LEAF_OFF(r, i)
  IN IF p.off < Len(p.leaf) THEN p.leaf[p.off + 1] ELSE 0

\* RV_TO_ARRAY, and RV_ITER_NEXT leaf by leaf: from index pos to the end.
RECURSIVE IterFrom(_, _)
IterFrom(r, pos) ==
  IF pos >= r.count THEN <<>>
  ELSE LET p    == RV_FIND_LEAF_OFF(r, pos)
           take == SubSeq(p.leaf, p.off + 1, Len(p.leaf))
       IN IF take = <<>> THEN <<0>> \o IterFrom(r, pos + 1)
          ELSE take \o IterFrom(r, pos + Len(take))

-----------------------------------------------------------------------------
(* Pushing, setting, popping *)

RECURSIVE RV_NEW_PATH(_, _)
RV_NEW_PATH(level, leaf) == IF level = 0 THEN leaf ELSE Strict(<<RV_NEW_PATH(level - 1, leaf)>>)

\* count is the number of elements in the tree. The copies have no tables.
RECURSIVE RV_PUSH_TAIL(_, _, _, _)
RV_PUSH_TAIL(level, count, n, tail) ==
  IF level = 1 THEN Strict(Append(n.kids, tail))
  ELSE LET s == 1 + (((count - 1) \div (Br ^ level)) % Br)
       IN Strict(IF s <= Len(n.kids)
                 THEN [n.kids EXCEPT ![s] = RV_PUSH_TAIL(level - 1, count, n.kids[s], tail)]
                 ELSE [i \in 1 .. s |->
                         CASE i <= Len(n.kids) -> n.kids[i]
                           [] i = s -> RV_NEW_PATH(level - 1, tail)
                           [] OTHER -> NoTree])

\* The tree after the full tail of r went into it, with its level.
Flushed(r) ==
  LET n == RV_TAIL_OFFSET(r)
  IN CASE r.tree = NoTree -> [tree |-> Strict(<<r.tail>>), shift |-> r.shift]
       [] r.tree # NoTree /\ n >= Br ^ (r.shift + 1) ->
            [tree |-> Strict(<<r.tree, RV_NEW_PATH(r.shift, r.tail)>>), shift |-> r.shift + 1]
       [] OTHER -> [tree |-> RV_PUSH_TAIL(r.shift, n, r.tree, r.tail), shift |-> r.shift]

\* RV_PUSH_BACK and RV_PUSH_BACK_WIDE
RV_PUSH_BACK(r, x) ==
  IF Len(r.tail) < Br THEN Vec(r.tree, r.shift, Append(r.tail, x), r.count + 1)
  ELSE Vec(Flushed(r).tree, Flushed(r).shift, <<x>>, r.count + 1)

RECURSIVE RV_SET_IN_TREE(_, _, _, _)
RV_SET_IN_TREE(level, n, i, x) ==
  IF level = 0 THEN [n EXCEPT ![i + 1] = x]
  ELSE LET s == Slot(n, level, i)
       IN Node([n.kids EXCEPT ![s] = RV_SET_IN_TREE(level - 1, n.kids[s], i - Before(n, level, s), x)], n.st)

\* RV_SET and RV_SET_WIDE
RV_SET(r, i, x) ==
  IF i >= RV_TAIL_OFFSET(r) THEN [r EXCEPT !.tail[i - RV_TAIL_OFFSET(r) + 1] = x]
  ELSE [r EXCEPT !.tree = RV_SET_IN_TREE(r.shift, r.tree, i, x)]

RECURSIVE RV_RIGHTMOST_LEAF(_, _)
RV_RIGHTMOST_LEAF(n, level) == IF level = 0 THEN n ELSE RV_RIGHTMOST_LEAF(Last(n.kids), level - 1)

\* A table is cut to the children that stay; the entry of a child that lost a
\* leaf is not recomputed.
RECURSIVE RV_REMOVE_RIGHTMOST(_, _)
RV_REMOVE_RIGHTMOST(level, n) ==
  LET child == IF level = 1 THEN NoTree ELSE RV_REMOVE_RIGHTMOST(level - 1, Last(n.kids))
      kids  == IF child = NoTree THEN Front(n.kids) ELSE Append(Front(n.kids), child)
  IN IF kids = <<>> THEN NoTree ELSE Node(kids, IF n.st = <<>> THEN <<>> ELSE SubSeq(n.st, 1, Len(kids)))

RECURSIVE Shrink(_, _)
Shrink(tree, shift) ==
  IF tree # NoTree /\ shift > 1 /\ Len(tree.kids) = 1 THEN Shrink(tree.kids[1], shift - 1)
  ELSE [tree |-> tree, shift |-> shift]

RV_POP_BACK(r) ==
  CASE r.count = 1 -> RV_EMPTY
    [] r.count # 1 /\ Len(r.tail) > 1 -> Vec(r.tree, r.shift, Front(r.tail), r.count - 1)
    [] OTHER -> LET t == Shrink(RV_REMOVE_RIGHTMOST(r.shift, r.tree), r.shift)
                IN Vec(t.tree, t.shift, RV_RIGHTMOST_LEAF(r.tree, r.shift), r.count - 1)

-----------------------------------------------------------------------------
(* Concatenating, slicing *)

\* The running sums of a sequence of counts: a size table.
Sums(counts) == [i \in 1 .. Len(counts) |-> FoldLeft(LAMBDA a, b : a + b, 0, SubSeq(counts, 1, i))]

RECURSIVE RV_SUBTREE_COUNT(_, _)
RV_SUBTREE_COUNT(n, level) ==
  CASE level = 0 -> Len(n)
    [] level # 0 /\ n.st # <<>> -> Last(n.st)
    [] OTHER -> (Len(n.kids) - 1) * Br ^ level + RV_SUBTREE_COUNT(Last(n.kids), level - 1)

\* Mutant: the wrapped tail is entered in the table with its own count only.
MutPushTailFull(r) ==
  LET kids == Append(r.tree.kids, RV_NEW_PATH(r.shift - 1, r.tail))
      st   == IF r.tree.st # <<>> THEN r.tree.st
              ELSE Sums([i \in 1 .. Len(r.tree.kids) |-> RV_SUBTREE_COUNT(r.tree.kids[i], r.shift - 1)])
  IN [tree |-> Node(kids, Append(st, Len(r.tail))), shift |-> r.shift]

\* The tree with the tail of r as its last leaf, under a relaxed root.
RV_PUSH_TAIL_FULL(r) ==
  LET count   == IF r.tree.st # <<>> THEN Last(r.tree.st) ELSE r.count - Len(r.tail)
      wrapped == RV_NEW_PATH(r.shift - 1, r.tail)
      st      == IF r.tree.st # <<>> THEN r.tree.st
                 ELSE Sums([i \in 1 .. Len(r.tree.kids) |-> RV_SUBTREE_COUNT(r.tree.kids[i], r.shift - 1)])
  IN CASE r.tree = NoTree -> [tree |-> Node(<<r.tail>>, <<Len(r.tail)>>), shift |-> 1]
       [] r.tree # NoTree /\ Len(r.tree.kids) < Br ->
            [tree |-> Node(Append(r.tree.kids, wrapped), Append(st, count + Len(r.tail))), shift |-> r.shift]
       [] OTHER -> [tree |-> Node(<<r.tree, Strict(<<wrapped>>)>>, <<count, count + Len(r.tail)>>),
                    shift |-> r.shift + 1]

RV_CONCAT(l, r) ==
  LET lt == RV_PUSH_TAIL_FULL(l)
      d  == IF lt.shift > r.shift THEN lt.shift ELSE r.shift
  IN CASE l.count = 0 -> r
       [] l.count # 0 /\ r.count = 0 -> l
       [] l.count # 0 /\ r.count # 0 /\ r.tree = NoTree -> Vec(lt.tree, lt.shift, r.tail, l.count + r.count)
       [] OTHER -> Vec(Node(<<RV_NEW_PATH(d - lt.shift, lt.tree), RV_NEW_PATH(d - r.shift, r.tree)>>,
                            <<l.count, l.count + r.count - Len(r.tail)>>),
                       d + 1, r.tail, l.count + r.count)

\* Groups of Br nodes under relaxed parents, level by level, up to one root.
RECURSIVE RV_BUILD_TREE(_, _, _)
RV_BUILD_TREE(nodes, counts, level) ==
  LET groups == (Len(nodes) + Br - 1) \div Br
      of(s, g) == SubSeq(s, (g - 1) * Br + 1, IF g * Br > Len(s) THEN Len(s) ELSE g * Br)
      nxt    == [g \in 1 .. groups |-> Node(of(nodes, g), Sums(of(counts, g)))]
  IN IF groups = 1 THEN [tree |-> nxt[1], shift |-> level]
     ELSE RV_BUILD_TREE(nxt, [g \in 1 .. groups |-> Last(nxt[g].st)], level + 1)

\* The last leaf is the tail, the others make the tree.
FromLeaves(leaves, total) ==
  LET t == IF Len(leaves) = 1 THEN [tree |-> NoTree, shift |-> 1]
           ELSE RV_BUILD_TREE(Front(leaves), [i \in 1 .. Len(leaves) - 1 |-> Len(leaves[i])], 1)
  IN Vec(t.tree, t.shift, Last(leaves), total)

\* The leaves of start .. end - 1, cut at both ends.
RECURSIVE Leaves(_, _, _)
Leaves(r, pos, end) ==
  IF pos >= end THEN <<>>
  ELSE LET p     == RV_FIND_LEAF_OFF(r, pos)
           avail == Len(p.leaf) - p.off
           take  == IF avail < end - pos THEN avail ELSE end - pos
       IN <<SubSeq(p.leaf, p.off + 1, p.off + take)>> \o Leaves(r, pos + take, end)

RV_SLICE(r, start, end) ==
  IF start = 0 /\ end = r.count THEN r ELSE FromLeaves(Leaves(r, start, end), end - start)

\* RV_FROM_ARRAY, as RV_SORT uses it: full leaves, and the rest in the tail.
RV_FROM_ARRAY(a) ==
  FromLeaves([i \in 1 .. (Len(a) + Br - 1) \div Br |->
                SubSeq(a, (i - 1) * Br + 1, IF i * Br > Len(a) THEN Len(a) ELSE i * Br)], Len(a))

RV_INSERT(r, i, x) ==
  LET one == RV_PUSH_BACK(RV_EMPTY, x)
  IN CASE i = 0 -> RV_CONCAT(one, r)
       [] i = r.count /\ i # 0 -> RV_CONCAT(r, one)
       [] OTHER -> RV_CONCAT(RV_CONCAT(RV_SLICE(r, 0, i), one), RV_SLICE(r, i, r.count))

\* RV_REMOVE and RV_POP_FRONT
RV_REMOVE(r, i) ==
  CASE r.count = 1 -> RV_EMPTY
    [] r.count # 1 /\ i = 0 -> RV_SLICE(r, 1, r.count)
    [] r.count # 1 /\ i # 0 /\ i = r.count - 1 -> RV_SLICE(r, 0, i)
    [] OTHER -> RV_CONCAT(RV_SLICE(r, 0, i), RV_SLICE(r, i + 1, r.count))

-----------------------------------------------------------------------------
(* What the two places that put a tail into a tree rely on. *)

\* A tree as pushes alone make it: every child but the last is full.
RECURSIVE Packed(_, _)
Packed(n, level) ==
  IF level = 0 THEN Len(n) = Br
  ELSE /\ \A i \in 1 .. Len(n.kids) - 1 : Packed(n.kids[i], level - 1) /\ RV_SUBTREE_COUNT(n.kids[i], level - 1) = Br ^ level
       /\ Packed(Last(n.kids), level - 1)

\* RV_PUSH_TAIL is given the elements of the tree without the tail, so it goes down to
\* the last leaf there is: where the node over that leaf is full and the root is not, the
\* tail is written past the node's children.  Pushes alone get there (at 2080 elements
\* of the code's 32 to a node).
FullBelow(r) ==
  /\ RV_TAIL_OFFSET(r) < Br ^ (r.shift + 1)
  /\ r.shift > 1 /\ RV_TAIL_OFFSET(r) % (Br ^ 2) = 0

\* RV_PUSH_TAIL drops the tables it meets, and needs room over the last leaf.
PushSafe(r) ==
  \/ Len(r.tail) < Br \/ r.tree = NoTree
  \/ Packed(r.tree, r.shift) /\ ~FullBelow(r)

\* RV_PUSH_TAIL_FULL takes a table's last entry for the size of the tree.
ConcatSafe(l) == l.tree.st = <<>> \/ Last(l.tree.st) = RV_TAIL_OFFSET(l)

-----------------------------------------------------------------------------
Counting(n) == [k \in 1 .. n |-> k]

\* The vectors of n pushes.
Grown(n) == FoldLeft(RV_PUSH_BACK, RV_EMPTY, Counting(n))

\* Two vectors of a few pushes, or one of many, which takes one operation.
RrbInit ==
  /\ \/ vref \in [1 .. 2 -> {Counting(n) : n \in 0 .. VGrow}] /\ vsteps = 0
     \/ vref = <<Counting(VMax - 1), <<>>>> /\ vsteps = VSteps - 1
  /\ vecs = [i \in 1 .. 2 |-> Grown(Len(vref[i]))]
  /\ spoilt = FALSE

Fresh == VMax + vsteps + 1

\* Vector i becomes v, with contents c.
Become(i, v, c, safe) ==
  /\ vsteps < VSteps /\ ~spoilt /\ Len(c) <= VMax
  /\ vsteps' = vsteps + 1 /\ spoilt' = ~safe
  /\ vecs' = [vecs EXCEPT ![i] = v]
  /\ vref' = [vref EXCEPT ![i] = c]

VecPushBack(i) == Become(i, RV_PUSH_BACK(vecs[i], Fresh), Append(vref[i], Fresh), PushSafe(vecs[i]))
VecPopBack(i)  == vref[i] # <<>> /\ Become(i, RV_POP_BACK(vecs[i]), Front(vref[i]), TRUE)
VecConcat(i, j) ==
  vref[j] # <<>> /\ Become(i, RV_CONCAT(vecs[i], vecs[j]), vref[i] \o vref[j], ConcatSafe(vecs[i]))
VecSet(i) ==
  \E k \in DOMAIN vref[i] : Become(i, RV_SET(vecs[i], k - 1, Fresh), [vref[i] EXCEPT ![k] = Fresh], TRUE)
VecSlice(i) ==
  \E s \in 0 .. Len(vref[i]), e \in 1 .. Len(vref[i]) :
    s < e /\ Become(i, RV_SLICE(vecs[i], s, e), SubSeq(vref[i], s + 1, e), TRUE)
VecSort(i) == Len(vref[i]) > 1 /\ Become(i, RV_FROM_ARRAY(Reverse(IterFrom(vecs[i], 0))), Reverse(vref[i]), TRUE)
VecInsert(i) ==
  \E k \in 0 .. Len(vref[i]) :
    Become(i, RV_INSERT(vecs[i], k, Fresh), InsertAt(vref[i], k + 1, Fresh), k # Len(vref[i]) \/ ConcatSafe(vecs[i]))
VecRemove(i) == \E k \in DOMAIN vref[i] : Become(i, RV_REMOVE(vecs[i], k - 1), RemoveAt(vref[i], k), TRUE)

RrbNext ==
  \E i \in 1 .. 2 :
    \/ VecPushBack(i) \/ VecPopBack(i) \/ VecSet(i) \/ VecSort(i)
    \/ VecSlice(i) \/ VecInsert(i) \/ VecRemove(i)
    \/ \E j \in 1 .. 2 : VecConcat(i, j)

RrbSpec == RrbInit /\ [][RrbNext]_rrbVars

-----------------------------------------------------------------------------
(* Properties *)

\* A vector's elements, by index and by iteration, are those the operations
\* put there, whatever their order made of its tree.
VecAgrees ==
  \A i \in 1 .. 2 :
    /\ vecs[i].count = Len(vref[i])
    /\ [k \in 1 .. Len(vref[i]) |-> RV_GET(vecs[i], k - 1)] = vref[i]
    /\ IterFrom(vecs[i], 0) = vref[i]

\* The same, through relaxed nodes, wrapped nodes and the shrinking of the tree, up to
\* the first of three operations after which it fails: a push of a full tail into a tree
\* that is not packed (the run vec_push), a push of a full tail into a packed tree whose
\* last lowest node is full below a root that is not, which writes past that node's
\* children (rrb_vec.h:331, 346, 464), and a concat of a vector whose size table went
\* stale (:742).
VecAgreesUnlessSpoilt == spoilt \/ VecAgrees
=============================================================================
