-------------------------------- MODULE Hamt --------------------------------
(***************************************************************************)
(* The persistent hash array mapped trie of src/lib/hamt/hamt.h, behind    *)
(* every map and set of the language: leaves, collision nodes and internal *)
(* nodes, each with a cached entry count and a structural hash of its      *)
(* contents.                                                               *)
(*                                                                         *)
(* A node is a record; an internal node's bitmap and dense child array are *)
(* one function from the occupied slots to the children.  A key's hash is  *)
(* its sequence of fragments, low bits first, and every hash function is   *)
(* tried.  Structural hashes are combined with xor: that of an entry is    *)
(* taken as a bit of its own, so a hash is the set of the bits that are on.*)
(***************************************************************************)
EXTENDS Integers, Sequences, FiniteSets, SequencesExt, FiniteSetsExt

CONSTANTS
  HKeys, HVals,
  Fan,       \* slots of an internal node: 32
  Frags,     \* fragments of a hash: 7
  IterDepth, \* HAMT_ITER_MAX_DEPTH: 8
  HSteps     \* bound: operations of the run

VARIABLES
  hashOf,  \* the key hash handler, chosen once
  hroot,   \* the map
  href,    \* history: the contents, a function on the keys present
  hsteps

hamtVars == <<hashOf, hroot, href, hsteps>>

Empty == [t |-> "null"]
Frag(hash, d) == hash[d + 1]

\* H_MK_LEAF, and the cached facts of each kind of node. A leaf counts 1.
H_MK_LEAF(k, v) == [t |-> "leaf", hash |-> hashOf[k], k |-> k, v |-> v, n |-> 1, sh |-> {<<k, v>>}]

Xor(a, b) == (a \ b) \cup (b \ a)
XorAll(s) == FoldLeft(Xor, {}, s)

\* H_COLLISION_REHASH
Collision(hash, items) ==
  [t |-> "collision", hash |-> hash, items |-> items, n |-> Len(items),
   sh |-> XorAll([i \in 1 .. Len(items) |-> items[i].sh])]

\* Mutant: the copy keeps the count of the node it replaces a child of.
MutInternal(kids) ==
  [t |-> "internal", kids |-> kids, n |-> 2,
   sh |-> XorAll([i \in 1 .. Cardinality(DOMAIN kids) |-> kids[SetToSortSeq(DOMAIN kids, <)[i]].sh])]

\* H_MK_INTERNAL_COPY and H_INTERNAL_REHASH: count and hash over the children.
Internal(kids) ==
  [t |-> "internal", kids |-> kids, n |-> FoldSet(LAMBDA i, a : a + kids[i].n, 0, DOMAIN kids),
   sh |-> XorAll([i \in 1 .. Cardinality(DOMAIN kids) |-> kids[SetToSortSeq(DOMAIN kids, <)[i]].sh])]

With(kids, i, node) == [j \in DOMAIN kids \cup {i} |-> IF j = i THEN node ELSE kids[j]]
Without(kids, i)    == [j \in DOMAIN kids \ {i} |-> kids[j]]

\* The place of a key in a collision node, or 0.
InItems(items, k) == SelectInSeq(items, LAMBDA x : x.k = k)

-----------------------------------------------------------------------------
(* Operations *)

\* Mutant: a key that is already in the collision node is added once more.
MutSetCollision(col, leaf) == Collision(col.hash, Append(col.items, leaf))

\* Same hash: the entry is updated in place, or added.
SetCollision(col, leaf) ==
  LET i == InItems(col.items, leaf.k)
  IN Collision(col.hash, IF i # 0 THEN [col.items EXCEPT ![i] = leaf] ELSE Append(col.items, leaf))

\* A leaf or collision node and a new leaf of another hash under one internal
\* node, or under a chain of them while their fragments agree.
RECURSIVE Split(_, _, _)
Split(node, leaf, d) ==
  LET a == Frag(node.hash, d)
      b == Frag(leaf.hash, d)
  IN IF a = b THEN Internal([x \in {a} |-> Split(node, leaf, d + 1)])
     ELSE Internal([x \in {a, b} |-> IF x = a THEN node ELSE leaf])

RECURSIVE H_SET_RECURSIVE(_, _, _)
H_SET_RECURSIVE(node, leaf, d) ==
  CASE node.t = "null" -> leaf
    [] node.t = "leaf" ->
         (CASE node.k = leaf.k -> leaf
            [] node.k # leaf.k /\ node.hash = leaf.hash -> Collision(leaf.hash, <<node, leaf>>)
            [] OTHER -> Split(node, leaf, d))
    [] node.t = "collision" ->
         IF node.hash # leaf.hash THEN Split(node, leaf, d) ELSE SetCollision(node, leaf)
    [] OTHER ->
         LET i == Frag(leaf.hash, d)
         IN Internal(With(node.kids, i, IF i \in DOMAIN node.kids THEN H_SET_RECURSIVE(node.kids[i], leaf, d + 1) ELSE leaf))

\* Mutant: of two colliding entries the wrong one stays.
MutUnsetCollision(col, k) ==
  LET i == InItems(col.items, k)
  IN IF i = 0 THEN col
     ELSE IF Len(col.items) = 2 THEN col.items[i]
     ELSE Collision(col.hash, RemoveAt(col.items, i))

\* A collision node of two entries becomes the leaf that stays.
UnsetCollision(col, k) ==
  LET i == InItems(col.items, k)
  IN IF i = 0 THEN col
     ELSE IF Len(col.items) = 2 THEN col.items[3 - i]
     ELSE Collision(col.hash, RemoveAt(col.items, i))

\* An internal node left with one child is not collapsed.
RECURSIVE H_UNSET_RECURSIVE(_, _, _)
H_UNSET_RECURSIVE(node, k, d) ==
  CASE node.t = "null" -> Empty
    [] node.t = "leaf" -> IF node.k = k THEN Empty ELSE node
    [] node.t = "collision" -> UnsetCollision(node, k)
    [] OTHER ->
         LET i == Frag(hashOf[k], d)
         IN IF i \notin DOMAIN node.kids THEN node
            ELSE LET child == H_UNSET_RECURSIVE(node.kids[i], k, d + 1)
                 IN CASE child.t = "null" /\ DOMAIN node.kids = {i} -> Empty
                      [] child.t = "null" /\ DOMAIN node.kids # {i} -> Internal(Without(node.kids, i))
                      [] child = node.kids[i] -> node
                      [] OTHER -> Internal(With(node.kids, i, child))

RECURSIVE H_GET_LEAF(_, _, _)
H_GET_LEAF(node, k, d) ==
  CASE node.t = "null" -> Empty
    [] node.t = "leaf" -> IF node.k = k THEN node ELSE Empty
    [] node.t = "collision" ->
         IF node.hash # hashOf[k] \/ InItems(node.items, k) = 0 THEN Empty ELSE node.items[InItems(node.items, k)]
    [] OTHER ->
         LET i == Frag(hashOf[k], d)
         IN IF i \in DOMAIN node.kids THEN H_GET_LEAF(node.kids[i], k, d + 1) ELSE Empty

-----------------------------------------------------------------------------
(* The iterator: a stack of nodes, each with the index of its next child. *)

H_ITER_INIT(node) == IF node.t = "null" THEN <<>> ELSE <<[node |-> node, i |-> 0]>>

Top(st)  == st[Len(st)]
Bump(st) == [st EXCEPT ![Len(st)].i = @ + 1]

\* H_NEXT_LEAF: the next leaf and the stack after it.
RECURSIVE H_NEXT_LEAF(_)
H_NEXT_LEAF(st) ==
  IF st = <<>> THEN [leaf |-> Empty, st |-> <<>>]
  ELSE LET node == Top(st).node
           i    == Top(st).i + 1
       IN CASE node.t = "leaf" -> [leaf |-> node, st |-> Front(st)]
            [] node.t = "collision" /\ i <= node.n -> [leaf |-> node.items[i], st |-> Bump(st)]
            [] node.t = "internal" /\ i <= Cardinality(DOMAIN node.kids) ->
                 H_NEXT_LEAF(Append(Bump(st), [node |-> node.kids[SetToSortSeq(DOMAIN node.kids, <)[i]], i |-> 0]))
            [] OTHER -> H_NEXT_LEAF(Front(st))

RECURSIVE IterateFrom(_)
IterateFrom(st) ==
  LET r == H_NEXT_LEAF(st) IN IF r.leaf = Empty THEN <<>> ELSE <<r.leaf>> \o IterateFrom(r.st)

\* The nodes on the longest path from a node, which the iterator's stack holds.
RECURSIVE Height(_)
Height(node) ==
  IF node.t # "internal" THEN 1 ELSE 1 + Max({Height(node.kids[i]) : i \in DOMAIN node.kids})

-----------------------------------------------------------------------------
HamtInit ==
  /\ hashOf \in [HKeys -> [1 .. Frags -> 0 .. Fan - 1]]
  /\ hroot = Empty /\ href = <<>> /\ hsteps = 0

H_SET(k, v) ==
  /\ hsteps < HSteps /\ hsteps' = hsteps + 1
  /\ hroot' = H_SET_RECURSIVE(hroot, H_MK_LEAF(k, v), 0)
  /\ href' = [x \in DOMAIN href \cup {k} |-> IF x = k THEN v ELSE href[x]]
  /\ UNCHANGED hashOf

H_UNSET(k) ==
  /\ hsteps < HSteps /\ hsteps' = hsteps + 1
  /\ hroot' = H_UNSET_RECURSIVE(hroot, k, 0)
  /\ href' = [x \in DOMAIN href \ {k} |-> href[x]]
  /\ UNCHANGED hashOf

HamtNext == \E k \in HKeys : H_UNSET(k) \/ \E v \in HVals : H_SET(k, v)

-----------------------------------------------------------------------------
(* Properties *)

\* A lookup finds exactly what the updates left, for every hash function: also
\* where keys collide in some or all of their fragments, and after removals
\* that leave chains of internal nodes behind.
MapAgrees ==
  \A k \in HKeys :
    LET leaf == H_GET_LEAF(hroot, k, 0)
    IN IF k \in DOMAIN href THEN leaf # Empty /\ leaf.v = href[k] ELSE leaf = Empty

\* The cached facts of the root are those of its contents, whatever updates
\* made it: H_COUNT, and H_NODE_HASH, by which equal maps are told apart
\* although their shapes differ.
CachesAgree ==
  hroot # Empty =>
    /\ hroot.n = Cardinality(DOMAIN href)
    /\ hroot.sh = {<<k, href[k]>> : k \in DOMAIN href}

\* An iteration gives every entry once, and its stack of HAMT_ITER_MAX_DEPTH
\* nodes is deep enough for the deepest trie that updates can make.
IterationComplete ==
  LET all == IterateFrom(H_ITER_INIT(hroot))
  IN /\ Len(all) = Cardinality(DOMAIN href)
     /\ {<<all[i].k, all[i].v>> : i \in DOMAIN all} = {<<k, href[k]>> : k \in DOMAIN href}
     /\ hroot # Empty => Height(hroot) <= IterDepth

\* The trie is the map its operations describe: by lookup, by iteration, and in its
\* cached hashes (hamt.h).
TrieSound == MapAgrees /\ IterationComplete /\ CachesAgree
=============================================================================
