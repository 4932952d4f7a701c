------------------------------ MODULE SumTree ------------------------------
(***************************************************************************)
(* The persistent B-tree with cached summaries of src/lib/sum_tree/        *)
(* sum_tree.h, which rope.h and rdoc.h include with a byte as the element  *)
(* and a summary of their own: k names the one of them an operation is     *)
(* generated for.  A leaf is [e, s], an internal node [kids, n, s]; a tree *)
(* records its count and its height.                                       *)
(***************************************************************************)
EXTENDS Integers, Sequences, SequencesExt, RopeSummary, RdocSummary

CONSTANTS
  LeafMax,  \* ROPE_LEAF_MAX, also the fan-out: 256
  DocLeaf   \* RDOC_LEAF_MAX: 256

\* The parameters of the template: STREE_LEAF_MAX and the STREE_SUMMARY macros.
LeafMaxOf(k) == IF k = "rope" THEN LeafMax ELSE DocLeaf
Zero(k) == IF k = "rope" THEN rope_summary_identity ELSE rdoc_summary_identity
Combine(k, a, b) == IF k = "rope" THEN rope_summary_combine(a, b) ELSE rdoc_summary_combine(a, b)
Summarize(k, e) == IF k = "rope" THEN rope_summary_summarize(e) ELSE rdoc_summary_summarize(e)
LeafSearch(k, e, acc, dim, target) ==
  IF k = "rope" THEN rope_leaf_search(e, acc, dim, target) ELSE rdoc_leaf_search(e, acc, dim, target)

Elem(s, p) == s[p + 1]
NoNode(k)    == [e |-> <<>>, s |-> Zero(k)]
IsLeaf(n) == "e" \in DOMAIN n
ST_NODE_COUNT(n) == IF IsLeaf(n) THEN Len(n.e) ELSE n.n
ST_MK_LEAF(k, e) == [e |-> e, s |-> Summarize(k, e)]
ST_MK_LEAF_SUMMARIZED(e, s) == [e |-> e, s |-> s]

\* The bytes of the children before the i-th, and the summary of children after acc.
RECURSIVE BytesBefore(_, _)
BytesBefore(kids, i) == IF i = 1 THEN 0 ELSE BytesBefore(kids, i - 1) + ST_NODE_COUNT(kids[i - 1])
RECURSIVE SummaryOf(_, _, _)
SummaryOf(k, acc, kids) == IF kids = <<>> THEN acc ELSE SummaryOf(k, Combine(k, acc, Head(kids).s), Tail(kids))

\* ST_MK_INTERNAL and ST_MK_INTERNAL_NREF
ST_MK_INTERNAL(k, kids) ==
  [kids |-> kids,
   n |-> BytesBefore(kids, Len(kids) + 1),
   s |-> SummaryOf(k, Zero(k), kids)]

ST_EMPTY(k) == [node |-> NoNode(k), count |-> 0, height |-> 0]
RopeRoot(node, height) == [node |-> node, count |-> ST_NODE_COUNT(node), height |-> height]
IsEmpty(r) == r.height = 0
ST_SUMMARY(r) == r.node.s

\* Groups of LeafMax nodes under new parents until one is left.
RECURSIVE ST_MK_ROOT(_, _, _)
ST_MK_ROOT(k, nodes, height) ==
  LET groups == (Len(nodes) + LeafMaxOf(k) - 1) \div LeafMaxOf(k)
      grp(g) == SubSeq(nodes, (g - 1) * LeafMaxOf(k) + 1, IF g * LeafMaxOf(k) > Len(nodes) THEN Len(nodes) ELSE g * LeafMaxOf(k))
  IN CASE nodes = <<>> -> ST_EMPTY(k)
       [] Len(nodes) = 1 -> RopeRoot(nodes[1], height)
       [] OTHER -> ST_MK_ROOT(k, [g \in 1 .. groups |-> ST_MK_INTERNAL(k, grp(g))], height + 1)

\* The child that holds position p.
ChildAt(kids, p) == CHOOSE i \in DOMAIN kids : BytesBefore(kids, i) <= p /\ p < BytesBefore(kids, i + 1)

RECURSIVE ST_GET(_, _)
ST_GET(n, p) ==
  IF IsLeaf(n) THEN Elem(n.e, p)
  ELSE LET i == ChildAt(n.kids, p) IN ST_GET(n.kids[i], p - BytesBefore(n.kids, i))

RECURSIVE LeavesOf(_)
LeavesOf(n) == IF IsLeaf(n) THEN <<n>> ELSE FlattenSeq([i \in DOMAIN n.kids |-> LeavesOf(n.kids[i])])

\* ST_COPY_RANGE from the start: leaf after leaf.
RECURSIVE BytesOf(_)
BytesOf(n) == IF IsLeaf(n) THEN n.e ELSE FlattenSeq([i \in DOMAIN n.kids |-> BytesOf(n.kids[i])])

\* The nodes left and right of a cut; NoNode(k) for none. c is the cut of child i.
CutAround(k, kids, i, c) ==
  LET lk == SubSeq(kids, 1, i - 1) \o (IF c.l = NoNode(k) THEN <<>> ELSE <<c.l>>)
      rk == <<c.r>> \o SubSeq(kids, i + 1, Len(kids))
  IN [l |-> IF lk = <<>> THEN NoNode(k) ELSE ST_MK_INTERNAL(k, lk), r |-> ST_MK_INTERNAL(k, rk)]

RECURSIVE Cut(_, _, _)
Cut(k, n, p) ==
  IF IsLeaf(n)
  THEN IF p = 0 THEN [l |-> NoNode(k), r |-> n]
       ELSE [l |-> ST_MK_LEAF(k, SubSeq(n.e, 1, p)), r |-> ST_MK_LEAF(k, SubSeq(n.e, p + 1, Len(n.e)))]
  ELSE LET i == ChildAt(n.kids, p)
       IN CutAround(k, n.kids, i, Cut(k, n.kids[i], p - BytesBefore(n.kids, i)))

\* Single-child wrappers at the top are dropped.
RECURSIVE Trim(_, _, _)
Trim(k, n, height) ==
  IF ~IsLeaf(n) /\ Len(n.kids) = 1 THEN Trim(k, n.kids[1], height - 1)
  ELSE IF n = NoNode(k) THEN ST_EMPTY(k) ELSE RopeRoot(n, height)

Trimmed(k, c, height) == [left |-> Trim(k, c.l, height), right |-> Trim(k, c.r, height)]

ST_SPLIT(k, r, p) ==
  CASE p = 0 -> [left |-> ST_EMPTY(k), right |-> r]
    [] p = r.count /\ p # 0 -> [left |-> r, right |-> ST_EMPTY(k)]
    [] OTHER -> Trimmed(k, Cut(k, r.node, p), r.height)

\* Two nodes of one height: merged into one where they fit.
Merge(k, x, y) ==
  CASE IsLeaf(x) /\ IsLeaf(y) /\ Len(x.e) + Len(y.e) <= LeafMaxOf(k) ->
         <<ST_MK_LEAF_SUMMARIZED(x.e \o y.e, Combine(k, x.s, y.s))>>
    [] ~IsLeaf(x) /\ ~IsLeaf(y) /\ Len(x.kids) + Len(y.kids) <= LeafMaxOf(k) -> <<ST_MK_INTERNAL(k, x.kids \o y.kids)>>
    [] OTHER -> <<x, y>>

\* Mutant: a node that overflows keeps its first half twice.
MutHalves(k, kids) ==
  IF Len(kids) <= LeafMaxOf(k) THEN <<ST_MK_INTERNAL(k, kids)>>
  ELSE LET mid == Len(kids) \div 2
       IN <<ST_MK_INTERNAL(k, SubSeq(kids, 1, mid)), ST_MK_INTERNAL(k, SubSeq(kids, mid, Len(kids)))>>

\* The children as one node, or as two halves where they overflow.
Halves(k, kids) ==
  IF Len(kids) <= LeafMaxOf(k) THEN <<ST_MK_INTERNAL(k, kids)>>
  ELSE LET mid == Len(kids) \div 2
       IN <<ST_MK_INTERNAL(k, SubSeq(kids, 1, mid)), ST_MK_INTERNAL(k, SubSeq(kids, mid + 1, Len(kids)))>>

\* A lower tree joined to the right or the left spine, down levels deep.
RECURSIVE GraftRight(_, _, _, _)
GraftRight(k, n, down, y) ==
  IF down = 0 THEN Merge(k, n, y) ELSE Halves(k, Front(n.kids) \o GraftRight(k, Last(n.kids), down - 1, y))
RECURSIVE GraftLeft(_, _, _, _)
GraftLeft(k, x, n, down) ==
  IF down = 0 THEN Merge(k, x, n) ELSE Halves(k, GraftLeft(k, x, Head(n.kids), down - 1) \o Tail(n.kids))

UnderRoot(k, nodes, h) == IF Len(nodes) = 1 THEN RopeRoot(nodes[1], h) ELSE RopeRoot(ST_MK_INTERNAL(k, nodes), h + 1)

ST_CONCAT(k, l, r) ==
  CASE IsEmpty(l) -> r
    [] ~IsEmpty(l) /\ IsEmpty(r) -> l
    [] ~IsEmpty(l) /\ ~IsEmpty(r) /\ l.height >= r.height ->
         UnderRoot(k, GraftRight(k, l.node, l.height - r.height, r.node), l.height)
    [] OTHER -> UnderRoot(k, GraftLeft(k, l.node, r.node, r.height - l.height), r.height)

\* ST_SEARCH: the index of the element with which a dimension passes target,
\* and the summary of what comes before it.
RECURSIVE SearchIn(_, _, _, _, _)
SearchIn(k, n, dim, target, acc) ==
  IF IsLeaf(n) THEN LeafSearch(k, n.e, acc, dim, target)
  ELSE LET pre(i) == SummaryOf(k, acc, SubSeq(n.kids, 1, i))
           i      == CHOOSE i \in DOMAIN n.kids : pre(i)[dim] > target /\ pre(i - 1)[dim] <= target
           sub    == SearchIn(k, n.kids[i], dim, target, pre(i - 1))
       IN [index |-> BytesBefore(n.kids, i) + sub.index, prefix |-> sub.prefix]

\* The in-place edits of the transients: the leaf an edit falls in; a position between two leaves is
\* in the right one.
Spliced(e, p, k, s) == SubSeq(e, 1, p) \o s \o SubSeq(e, p + k + 1, Len(e))

RECURSIVE EditLeaf(_, _, _, _, _)
EditLeaf(k, n, p, cut, s) ==
  IF IsLeaf(n) THEN ST_MK_LEAF(k, Spliced(n.e, p, cut, s))
  ELSE LET i == CHOOSE i \in DOMAIN n.kids :
                  /\ BytesBefore(n.kids, i) <= p
                  /\ i = Len(n.kids) \/ p < BytesBefore(n.kids, i + 1)
       IN ST_MK_INTERNAL(k, [n.kids EXCEPT ![i] = EditLeaf(k, n.kids[i], p - BytesBefore(n.kids, i), cut, s)])

RECURSIVE Room(_, _)
Room(n, p) ==
  IF IsLeaf(n) THEN [len |-> Len(n.e), p |-> p]
  ELSE LET i == CHOOSE i \in DOMAIN n.kids :
                  /\ BytesBefore(n.kids, i) <= p
                  /\ i = Len(n.kids) \/ p < BytesBefore(n.kids, i + 1)
       IN Room(n.kids[i], p - BytesBefore(n.kids, i))
=============================================================================
