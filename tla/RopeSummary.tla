---------------------------- MODULE RopeSummary ----------------------------
(***************************************************************************)
(* The bytes of a rope and their summary: what src/lib/sum_tree/rope.h     *)
(* gives to sum_tree.h.                                                    *)
(***************************************************************************)
EXTENDS Integers, Sequences, FiniteSets, SequencesExt

-----------------------------------------------------------------------------
(* Bytes: src/lib/unicode/unicode.h on this alphabet. Positions count from 0. *)

At(s, p) == s[p + 1]
IsCont(b)  == b = "m"
CpLen(b)   == IF b = "M" THEN 2 ELSE 1
IsBreak(b) == b \in {"n", "r"}

\* Past the marks that are whole: a lead byte without its continuation ends a cluster.
RECURSIVE Extends(_, _)
Extends(s, p) == IF p + 1 < Len(s) /\ At(s, p) = "M" THEN Extends(s, p + 2) ELSE p

GraphemeNext(s, p) ==
  CASE p >= Len(s) -> Len(s)
    [] p < Len(s) /\ At(s, p) = "r" /\ p + 1 < Len(s) /\ At(s, p + 1) = "n" -> p + 2
    [] p < Len(s) /\ (IsBreak(At(s, p)) \/ IsCont(At(s, p))) /\ ~(At(s, p) = "r" /\ p + 1 < Len(s) /\ At(s, p + 1) = "n") -> p + 1
    [] OTHER -> Extends(s, p + CpLen(At(s, p)))

RECURSIVE Clusters(_, _)
Clusters(s, p) == IF p >= Len(s) THEN 0 ELSE 1 + Clusters(s, GraphemeNext(s, p))
unicode_grapheme_count(s) == Clusters(s, 0)

RECURSIVE NthCluster(_, _, _)
NthCluster(s, p, k) == IF k = 0 \/ p >= Len(s) THEN p ELSE NthCluster(s, GraphemeNext(s, p), k - 1)

RECURSIVE RopeLastBefore(_, _, _)
RopeLastBefore(s, p, pos) ==
  IF p < pos /\ GraphemeNext(s, p) < pos THEN RopeLastBefore(s, GraphemeNext(s, p), pos) ELSE p

\* From after the last control character before pos, or from the start.
GraphemePrev(s, pos) ==
  LET controls == {q \in 1 .. pos - 1 : IsBreak(At(s, q))}
      safe     == IF controls = {} THEN 0 ELSE 1 + CHOOSE q \in controls : \A x \in controls : x <= q
  IN IF pos = 0 THEN 0 ELSE RopeLastBefore(s, safe, pos)

RECURSIVE BackPastExtends(_, _)
BackPastExtends(s, pos) ==
  IF pos > 0 /\ At(s, pos) \in {"M", "m"} THEN BackPastExtends(s, pos - 1) ELSE pos

SafeSplit(s, pos) ==
  LET p    == BackPastExtends(s, pos)
      prev == GraphemePrev(s, p)
  IN IF pos = 0 \/ pos >= Len(s) THEN pos
     ELSE IF p > 0 /\ prev < p /\ GraphemeNext(s, prev) # p THEN prev ELSE p

utf8_codepoint_count(s) == Len(SelectSeq(s, LAMBDA b : ~IsCont(b)))
utf8_line_count(s)      == Len(SelectSeq(s, LAMBDA b : b = "n"))

-----------------------------------------------------------------------------
(* Summaries *)

rope_summary_identity == [bytes |-> 0, chars |-> 0, lines |-> 0, graphemes |-> 0]
rope_summary_combine(a, b) == [f \in DOMAIN a |-> a[f] + b[f]]
rope_summary_subtract(a, b) == [f \in DOMAIN a |-> a[f] - b[f]]

\* ASCII text is counted without looking at its clusters.
rope_summary_summarize(s) ==
  LET ascii == \A i \in DOMAIN s : s[i] \notin {"M", "m"}
      crlf  == Cardinality({i \in 2 .. Len(s) : s[i] = "n" /\ s[i - 1] = "r"})
  IN [bytes |-> Len(s), chars |-> utf8_codepoint_count(s), lines |-> utf8_line_count(s),
      graphemes |-> IF ascii THEN Len(s) - crlf ELSE unicode_grapheme_count(s)]

\* The default search of a leaf: byte after byte.
rope_leaf_search(e, acc, dim, target) ==
  LET pre(i) == FoldLeft(LAMBDA a, b : rope_summary_combine(a, rope_summary_summarize(<<b>>)), acc, SubSeq(e, 1, i))
      i      == CHOOSE i \in 1 .. Len(e) : pre(i)[dim] > target /\ pre(i - 1)[dim] <= target
  IN [index |-> i - 1, prefix |-> pre(i - 1)]
=============================================================================
