---------------------------- MODULE RdocSummary ----------------------------
(***************************************************************************)
(* The bytes of a document, their tokens and their summary: what           *)
(* src/lib/sum_tree/rdoc.h gives to sum_tree.h.                            *)
(***************************************************************************)
EXTENDS Integers, Sequences, FiniteSets, SequencesExt

MARK == 11
ICLOSE == 12
IOPEN == 13
BCLOSE == 14
BOPEN == 15

rdoc_is_sentinel(b) == b >= MARK
rdoc_sentinel_size(b) == IF b > MARK THEN 2 ELSE IF b = MARK THEN 3 ELSE 0
MaxBack == 2 \* a lead byte up to this far back may still hold a position
Cont(b) == b = 4

\* The token at position p of s; a truncated one is <<>>.
TokAt(s, p) ==
  LET z == IF rdoc_is_sentinel(s[p + 1]) THEN rdoc_sentinel_size(s[p + 1]) ELSE 1
  IN IF p + z > Len(s) THEN <<>> ELSE SubSeq(s, p + 1, p + z)

RECURSIVE TokensFrom(_, _)
TokensFrom(s, p) ==
  IF p >= Len(s) THEN <<>>
  ELSE LET t == TokAt(s, p) IN IF t = <<>> THEN <<>> ELSE <<t>> \o TokensFrom(s, p + Len(t))
Tokens(s) == TokensFrom(s, 0)
Flat(toks) == FlattenSeq(toks)
IsText(t) == ~rdoc_is_sentinel(t[1])
IsMark(t) == t[1] = MARK
TextOf(toks) == SelectSeq(toks, IsText)

rdoc_validate_buffer(s) == Flat(Tokens(s)) = s

-----------------------------------------------------------------------------
(* Summaries *)

rdoc_summary_identity ==
  [tb |-> 0, chars |-> 0, lines |-> 0, bo |-> 0, io |-> 0, bd |-> 0, bmax |-> 0, bmin |-> 0,
   id |-> 0, imax |-> 0, imin |-> 0, flags |-> 0, mark |-> 0, has |-> FALSE]

Larger(a, b)  == IF a > b THEN a ELSE b
Smaller(a, b) == IF a < b THEN a ELSE b

rdoc_summary_combine(a, b) ==
  [tb |-> a.tb + b.tb, chars |-> a.chars + b.chars, lines |-> a.lines + b.lines,
   bo |-> a.bo + b.bo, io |-> a.io + b.io, bd |-> a.bd + b.bd, id |-> a.id + b.id,
   bmax |-> Larger(a.bmax, a.bd + b.bmax), bmin |-> Smaller(a.bmin, a.bd + b.bmin),
   imax |-> Larger(a.imax, a.id + b.imax), imin |-> Smaller(a.imin, a.id + b.imin),
   flags |-> IF b.has THEN b.flags ELSE a.flags, mark |-> IF b.has THEN b.mark ELSE a.mark,
   has |-> a.has \/ b.has]

\* One token; a code point counts with its first byte.
TokSummary(t) ==
  LET z == rdoc_summary_identity
  IN CASE t[1] = BOPEN  -> [z EXCEPT !.bo = 1, !.bd = 1, !.bmax = 1]
       [] t[1] = BCLOSE -> [z EXCEPT !.bd = -1, !.bmin = -1]
       [] t[1] = IOPEN  -> [z EXCEPT !.io = 1, !.id = 1, !.imax = 1]
       [] t[1] = ICLOSE -> [z EXCEPT !.id = -1, !.imin = -1]
       [] t[1] = MARK   -> [z EXCEPT !.flags = t[2], !.mark = t[3], !.has = TRUE]
       [] OTHER -> [z EXCEPT !.tb = 1, !.chars = IF Cont(t[1]) THEN 0 ELSE 1, !.lines = IF t[1] = 2 THEN 1 ELSE 0]

RECURSIVE SumToks(_, _)
SumToks(acc, toks) == IF toks = <<>> THEN acc ELSE SumToks(rdoc_summary_combine(acc, TokSummary(Head(toks))), Tail(toks))
rdoc_summary_summarize(s) == SumToks(rdoc_summary_identity, Tokens(s))

\* The token with which the dimension passes the target.
rdoc_leaf_search(e, acc, dim, target) ==
  LET toks   == Tokens(e)
      pre(i) == SumToks(acc, SubSeq(toks, 1, i))
      i      == CHOOSE i \in 1 .. Len(toks) : pre(i)[dim] > target /\ pre(i - 1)[dim] <= target
  IN [index |-> Len(Flat(SubSeq(toks, 1, i - 1))), prefix |-> pre(i - 1)]
=============================================================================
