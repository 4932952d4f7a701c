-------------------------------- MODULE Rdoc --------------------------------
(***************************************************************************)
(* The rich-text document of src/lib/sum_tree/rdoc.h: one byte stream in   *)
(* which text, block and inline brackets and mark changes follow each other*)
(* on the tree of sum_tree.h.                                              *)
(*                                                                         *)
(* Bytes are scaled down: 1 is a letter, 2 a newline, 3 4 a two-byte code  *)
(* point; 11 (mark change), 12, 13 (inline close and open), 14, 15 (block  *)
(* close and open) are the lead bytes, for 0xFB to 0xFF.  A bracket is its *)
(* lead and an id of one byte, a mark change its lead, flags and an id; an *)
(* id may look like anything.  The reference counts that rdoc.h asks of    *)
(* the tree concern memory only.                                           *)
(***************************************************************************)
EXTENDS FiniteSets, SumTree

CONSTANTS
  DocIds,  \* ids of brackets and marks
  DocToks, \* bound: tokens of the first document
  DocMax,  \* bound: bytes of a document
  DSteps   \* bound: edits of a document, one fewer from the longest first documents

VARIABLES
  doc,   \* the document
  draw,  \* history: its bytes
  dsteps

docVars == <<doc, draw, dsteps>>

-----------------------------------------------------------------------------
(* Building *)

\* Mutant: only the byte before the position is looked at.
MutFindSafeSplit(s, pos) ==
  IF pos = 0 \/ pos >= Len(s) THEN pos
  ELSE IF rdoc_is_sentinel(s[pos]) THEN pos - 1
  ELSE IF Cont(s[pos + 1]) THEN pos - 1 ELSE pos

\* The nearest byte that looks like a lead byte decides.
rdoc_find_safe_split(s, pos) ==
  LET near == {k \in 1 .. Smaller(MaxBack, pos) : rdoc_is_sentinel(s[pos - k + 1])}
      k    == CHOOSE k \in near : \A x \in near : k <= x
      p    == IF near # {} /\ rdoc_sentinel_size(s[pos - k + 1]) > k THEN pos - k ELSE pos
  IN IF pos = 0 \/ pos >= Len(s) THEN pos ELSE IF Cont(s[p + 1]) THEN p - 1 ELSE p

RECURSIVE DocLeaves(_, _)
DocLeaves(s, p) ==
  IF p >= Len(s) THEN <<>>
  ELSE LET end == IF p + DocLeaf >= Len(s) THEN Len(s) ELSE rdoc_find_safe_split(s, p + DocLeaf)
       IN <<ST_MK_LEAF("rdoc", SubSeq(s, p + 1, end))>> \o DocLeaves(s, end)

rdoc_from_bytes(s) == IF rdoc_validate_buffer(s) THEN ST_MK_ROOT("rdoc", DocLeaves(s, 0), 1) ELSE ST_EMPTY("rdoc")

-----------------------------------------------------------------------------
(* Queries *)

TextBytes(d) == ST_SUMMARY(d).tb

\* Where the n-th of a dimension is in the bytes.
ToRaw(d, dim, n) == SearchIn("rdoc", d.node, dim, n, rdoc_summary_identity).index
rdoc_text_byte_to_raw(d, n) == ToRaw(d, "tb", n)

\* The raw end of a text range that may reach the end of the text.
RawEnd(d, n) == IF n >= TextBytes(d) THEN d.count ELSE rdoc_text_byte_to_raw(d, n)

RECURSIVE PrefixIn(_, _, _)
PrefixIn(n, p, acc) ==
  IF IsLeaf(n) THEN rdoc_summary_combine(acc, rdoc_summary_summarize(SubSeq(n.e, 1, p)))
  ELSE LET i == ChildAt(n.kids, p)
       IN PrefixIn(n.kids[i], p - BytesBefore(n.kids, i),
                   SummaryOf("rdoc", acc, SubSeq(n.kids, 1, i - 1)))
_rdoc_prefix_at(d, p) ==
  CASE p = 0 -> rdoc_summary_identity
    [] p # 0 /\ p >= d.count -> ST_SUMMARY(d)
    [] OTHER -> PrefixIn(d.node, p, rdoc_summary_identity)

MarksOf(s) == <<s.flags, s.mark>>
rdoc_mark_at(d, p) == MarksOf(_rdoc_prefix_at(d, p))

\* Scanned from the start of the leaf.
RECURSIVE SafeIn(_, _)
SafeIn(n, p) ==
  IF IsLeaf(n) THEN /\ rdoc_validate_buffer(SubSeq(n.e, 1, p))
                    /\ ~Cont(n.e[p + 1])
  ELSE LET i == ChildAt(n.kids, p) IN SafeIn(n.kids[i], p - BytesBefore(n.kids, i))
_rdoc_is_safe_boundary(d, p) == IF p = 0 \/ p >= d.count THEN TRUE ELSE SafeIn(d.node, p)

-----------------------------------------------------------------------------
(* The token cursor: a leaf, an offset in it and the marks in force. *)

DocLeafE(d, c) == LeavesOf(d.node)[c.i].e
LastLeaf(d, c) == c.i = Len(LeavesOf(d.node))
NextDocLeaf(c) == [c EXCEPT !.i = @ + 1, !.off = 0]

rdoc_cursor_new(d, p) ==
  LET ls  == LeavesOf(d.node)
      i  == IF p = d.count THEN Len(ls) ELSE ChildAt(ls, p)
  IN [i |-> i, off |-> p - BytesBefore(ls, i), marks |-> rdoc_mark_at(d, p)]

rdoc_cursor_raw_offset(d, c) == BytesBefore(LeavesOf(d.node), c.i) + c.off

\* Text up to the next sentinel or the end of the leaf is one token; at the end
\* of a leaf the token reads as an opening bracket with id 0.
RunEnd(e, p) == CHOOSE q \in p .. Len(e) : /\ \A x \in p .. q - 1 : ~rdoc_is_sentinel(e[x + 1])
                                          /\ (q = Len(e) \/ rdoc_is_sentinel(e[q + 1]))
rdoc_cursor_token(d, c) ==
  LET e == DocLeafE(d, c)
  IN CASE c.off >= Len(e) -> <<BOPEN, 0>>
       [] c.off < Len(e) /\ rdoc_is_sentinel(Elem(e, c.off)) -> TokAt(e, c.off)
       [] OTHER -> SubSeq(e, c.off + 1, RunEnd(e, c.off))

\* Past the token t of the leaf e, and into the next leaf at the end of this one.
PastToken(c, t) == [c EXCEPT !.off = @ + Len(t), !.marks = IF IsMark(t) THEN <<t[2], t[3]>> ELSE @]
LandedIn(d, e, n) ==
  CASE n.off < Len(e) -> [ok |-> TRUE, c |-> n]
    [] n.off >= Len(e) /\ LastLeaf(d, n) -> [ok |-> FALSE, c |-> n]
    [] OTHER -> [ok |-> TRUE, c |-> NextDocLeaf(n)]
AdvanceIn(d, c) ==
  IF DocLeafE(d, c) = <<>> THEN [ok |-> FALSE, c |-> c]
  ELSE LandedIn(d, DocLeafE(d, c), PastToken(c, rdoc_cursor_token(d, c)))
rdoc_cursor_advance(d, c) ==
  IF c.off < Len(DocLeafE(d, c)) THEN AdvanceIn(d, c)
  ELSE IF LastLeaf(d, c) THEN [ok |-> FALSE, c |-> c] ELSE AdvanceIn(d, NextDocLeaf(c))

\* Every token of the document as the cursor gives them, with its place and marks.
RECURSIVE Walk(_, _)
Walk(d, a) ==
  IF ~a.ok THEN <<>>
  ELSE <<[t |-> rdoc_cursor_token(d, a.c), at |-> rdoc_cursor_raw_offset(d, a.c), marks |-> a.c.marks]>>
         \o Walk(d, rdoc_cursor_advance(d, a.c))
WalkAll(d) == IF d.count = 0 THEN <<>> ELSE Walk(d, [ok |-> TRUE, c |-> rdoc_cursor_new(d, 0)])
rdoc_text_to_buf(d) == FoldLeft(LAMBDA a, w : IF IsText(w.t) THEN a \o w.t ELSE a, <<>>, WalkAll(d))

-----------------------------------------------------------------------------
(* Edits. Text offsets are between code points. *)

Rejoined(at, k, mid) == ST_CONCAT("rdoc", ST_CONCAT("rdoc", at.left, mid), ST_SPLIT("rdoc", at.right, k).right)
Around(d, a, b, mid) == Rejoined(ST_SPLIT("rdoc", d, a), b - a, mid)
Inserted(d, p, s) == Around(d, p, p, rdoc_from_bytes(s))

rdoc_insert_text(d, n, s) == Inserted(d, RawEnd(d, n), s)

\* The sentinels of the range stay.
SentinelsOf(s) == Flat(SelectSeq(Tokens(s), LAMBDA t : ~IsText(t)))
DeleteTextIn(d, a, b) ==
  IF b < d.count /\ ~rdoc_is_sentinel(ST_GET(d.node, b)) /\ Cont(ST_GET(d.node, b)) THEN d
  ELSE Around(d, a, b, rdoc_from_bytes(SentinelsOf(SubSeq(BytesOf(d.node), a + 1, b))))
rdoc_delete_text(d, n, k) == DeleteTextIn(d, rdoc_text_byte_to_raw(d, n), RawEnd(d, n + k))

rdoc_delete_range(d, p, k) ==
  LET end == Smaller(p + k, d.count)
  IN IF p < d.count /\ _rdoc_is_safe_boundary(d, p) /\ _rdoc_is_safe_boundary(d, end) THEN Around(d, p, end, ST_EMPTY("rdoc")) ELSE d

\* rdoc_insert_block and rdoc_insert_inline
InsertPair(d, p, open, close, id) ==
  IF _rdoc_is_safe_boundary(d, p) THEN Inserted(d, p, <<open, id, close, id>>) ELSE d

\* rdoc_wrap_block and rdoc_wrap_inline
Wrap(d, a, b, open, close, id) ==
  IF _rdoc_is_safe_boundary(d, a) /\ _rdoc_is_safe_boundary(d, b)
  THEN Inserted(Inserted(d, a, <<open, id>>), b + 2, <<close, id>>) ELSE d

\* Mutant: the opening bracket goes first and the closing one where it was.
MutTakeOut(d, o, c) == rdoc_delete_range(rdoc_delete_range(d, o, 2), c, 2)

\* The closing bracket goes first: the place of the opening one stays.
TakeOut(d, o, c) == rdoc_delete_range(rdoc_delete_range(d, c, 2), o, 2)

\* rdoc_remove_block and rdoc_remove_inline: the first opening and the first
\* closing bracket after it with the id.
FirstToken(w, from, t) ==
  LET at == {i \in from .. Len(w) : w[i].t = t} IN IF at = {} THEN 0 ELSE CHOOSE i \in at : \A x \in at : i <= x
TakeOutPair(d, w, o, c) == IF o = 0 \/ c = 0 THEN d ELSE TakeOut(d, w[o].at, w[c].at)
PairIn(d, w, open, close, id) ==
  LET o == FirstToken(w, 1, <<open, id>>) IN TakeOutPair(d, w, o, FirstToken(w, o + 1, <<close, id>>))
RemovePair(d, open, close, id) == PairIn(d, WalkAll(d), open, close, id)

-----------------------------------------------------------------------------
(* Marks. Of the flags only single bits are set, cleared or toggled. *)

HasBit(f, bit) == (f \div bit) % 2 = 1
NewFlags(op, bit, f) ==
  CASE op = "toggle" -> IF HasBit(f, bit) THEN f - bit ELSE f + bit
    [] op = "set"    -> IF HasBit(f, bit) THEN f ELSE f + bit
    [] op = "clear"  -> IF HasBit(f, bit) THEN f - bit ELSE f
    [] op = "id"     -> bit
NewId(op, id, m) == IF op = "id" THEN id ELSE m
Remark(op, bit, id, t) == <<MARK, NewFlags(op, bit, t[2]), NewId(op, id, t[3])>>

\* Mutant: the range is not closed with the marks that held at its end.
MutReopened(toks, open, close) == <<open>> \o toks

Reopened(toks, open, close) == (<<open>> \o toks) \o <<close>>

\* Of marks in a row only the last counts, and only if it changes something.
Cleaned(toks, before) ==
  LET emit(a) == IF a.pend # <<>> /\ a.pend # <<MARK>> \o a.now
                 THEN [out |-> Append(a.out, a.pend), pend |-> <<>>, now |-> Tail(a.pend)] ELSE [a EXCEPT !.pend = <<>>]
      step(a, t) == IF IsMark(t) THEN [a EXCEPT !.pend = t]
                    ELSE LET e == emit(a) IN [e EXCEPT !.out = Append(@, t)]
  IN emit(FoldLeft(step, [out |-> <<>>, pend |-> <<>>, now |-> before], toks)).out

\* The range grown over the marks next to it.
RECURSIVE BackOverMarks(_, _)
BackOverMarks(d, p) ==
  IF p < 3 THEN p
  ELSE IF _rdoc_is_safe_boundary(d, p - 3) /\ ST_GET(d.node, p - 3) = MARK THEN BackOverMarks(d, p - 3) ELSE p
RECURSIVE OverMarks(_, _)
OverMarks(d, p) ==
  IF p + 3 > d.count THEN p ELSE IF ST_GET(d.node, p) = MARK THEN OverMarks(d, p + 3) ELSE p

TokensOf(d, p, q) == Tokens(SubSeq(BytesOf(d.node), p + 1, q))
Remarked(op, bit, id, toks) == [i \in DOMAIN toks |-> IF IsMark(toks[i]) THEN Remark(op, bit, id, toks[i]) ELSE toks[i]]
MarkRange(d, a0, a, b, b0, op, bit, id) ==
  LET new == TokensOf(d, a0, a)
               \o Reopened(Remarked(op, bit, id, TokensOf(d, a, b)),
                           Remark(op, bit, id, <<MARK>> \o rdoc_mark_at(d, a)), <<MARK>> \o rdoc_mark_at(d, b))
               \o TokensOf(d, b, b0)
  IN Around(d, a0, b0, rdoc_from_bytes(Flat(Cleaned(new, rdoc_mark_at(d, a0)))))
MarkGrown(d, a, b, op, bit, id) == MarkRange(d, BackOverMarks(d, a), a, b, OverMarks(d, b), op, bit, id)
_rdoc_mark_op(d, from, to, op, bit, id) == MarkGrown(d, rdoc_text_byte_to_raw(d, from), RawEnd(d, to), op, bit, id)

-----------------------------------------------------------------------------
(* Transients: in place where the leaf has room, or holds all that goes. *)

InsertInPlace(d, p, s) ==
  IF Room(d.node, p).len + Len(s) <= DocLeaf THEN RopeRoot(EditLeaf("rdoc", d.node, p, 0, s), d.height)
  ELSE Inserted(d, p, s)
rdoc_transient_insert_text(d, n, s) == IF IsEmpty(d) THEN rdoc_from_bytes(s) ELSE InsertInPlace(d, RawEnd(d, n), s)

DeleteInPlace(d, a, b, k) ==
  IF b - a = k /\ Room(d.node, a).p + k <= Room(d.node, a).len
  THEN RopeRoot(EditLeaf("rdoc", d.node, a, k, <<>>), d.height)
  ELSE DeleteTextIn(d, a, b)
rdoc_transient_delete_text(d, n, k) == DeleteInPlace(d, rdoc_text_byte_to_raw(d, n), RawEnd(d, n + k), k)

-----------------------------------------------------------------------------
(* The same edits on the bytes *)

Around2(s, a, b, mid) == SubSeq(s, 1, a) \o mid \o SubSeq(s, b + 1, Len(s))
TokenStarts(toks) == [i \in 1 .. Len(toks) + 1 |-> Len(Flat(SubSeq(toks, 1, i - 1)))]
Starts(s) == TokenStarts(Tokens(s))
TextStartsIn(toks, at) ==
  [i \in 1 .. Len(TextOf(toks)) |-> at[CHOOSE j \in DOMAIN toks : IsText(toks[j]) /\ Len(TextOf(SubSeq(toks, 1, j))) = i]]
TextStarts(s) == TextStartsIn(Tokens(s), Starts(s))
NthStart(at, n) == IF n = Len(at) THEN Len(draw) ELSE at[n + 1]
TextAt(n) == NthStart(TextStarts(draw), n)
Bounds == {p \in Range(Starts(draw)) : ~(p < Len(draw) /\ Cont(draw[p + 1]))}
CpStarts == {n \in 0 .. Len(TextStarts(draw)) : TextAt(n) \in Bounds}

Strings == {<<1>>, <<2, 1>>, <<3, 4>>}

DocBecomes(d, s) ==
  /\ dsteps < DSteps /\ dsteps' = dsteps + 1 /\ Len(s) <= DocMax
  /\ doc' = d /\ draw' = s

DocInsert ==
  \E n \in CpStarts, s \in Strings :
    \E d \in {rdoc_insert_text(doc, n, s), rdoc_transient_insert_text(doc, n, s)} :
      DocBecomes(d, Around2(draw, TextAt(n), TextAt(n), s))

WithoutText(s, a, b) == Around2(s, a, b, SentinelsOf(SubSeq(s, a + 1, b)))
DocDelete ==
  \E n, m \in CpStarts : n < m /\
    \E d \in {rdoc_delete_text(doc, n, m - n), rdoc_transient_delete_text(doc, n, m - n)} :
      DocBecomes(d, WithoutText(draw, TextAt(n), TextAt(m)))

DocBrackets ==
  \E id \in DocIds :
    \/ \E p \in Bounds : DocBecomes(InsertPair(doc, p, BOPEN, BCLOSE, id), Around2(draw, p, p, <<BOPEN, id, BCLOSE, id>>))
    \/ \E a, b \in Bounds : /\ a < b
                            /\ DocBecomes(Wrap(doc, a, b, IOPEN, ICLOSE, id),
                                          Around2(Around2(draw, b, b, <<ICLOSE, id>>), a, a, <<IOPEN, id>>))

DocCut == \E a, b \in Bounds : a < b /\ DocBecomes(rdoc_delete_range(doc, a, b - a), Around2(draw, a, b, <<>>))

DocBecomesAsIs(d) == DocBecomes(d, BytesOf(d.node))
DocMark ==
  \E n, m \in CpStarts, op \in {"toggle", "id"}, id \in DocIds :
    /\ n < m
    /\ DocBecomesAsIs(_rdoc_mark_op(doc, n, m, op, 1, id))

DocInit ==
  /\ \E k \in 1 .. DocToks : \E f \in [1 .. k -> {<<1>>, <<3, 4>>} \cup {<<MARK, 1, id>> : id \in DocIds} \cup {<<BOPEN, id>> : id \in DocIds}] :
       draw = Flat(f) /\ dsteps = IF k = DocToks THEN DSteps - 1 ELSE 0
  /\ doc = rdoc_from_bytes(draw)

DocNext == DocInsert \/ DocDelete \/ DocBrackets \/ DocCut \/ DocMark

-----------------------------------------------------------------------------
(* Properties *)

\* After every edit of the run the document holds the bytes the edits on a plain
\* sequence of bytes give, every leaf starts and ends between tokens, and the
\* summary, and with it offsets, depths and marks at every place, is that of the
\* bytes: the tree's leaves and the sentinels never get out of step.  This is so for
\* ids no byte of which is a lead byte: rdoc_find_safe_split takes such a byte for a
\* lead and may cut a token in two.
DocTrue ==
  /\ BytesOf(doc.node) = draw /\ doc.count = Len(draw)
  /\ \A i \in DOMAIN LeavesOf(doc.node) : rdoc_validate_buffer(LeavesOf(doc.node)[i].e)
  /\ \A p \in Bounds : _rdoc_prefix_at(doc, p) = rdoc_summary_summarize(SubSeq(draw, 1, p))
  /\ {p \in 0 .. Len(draw) : _rdoc_is_safe_boundary(doc, p)} = Bounds
  /\ \A n \in 0 .. Len(TextStarts(draw)) - 1 : rdoc_text_byte_to_raw(doc, n) = TextAt(n)

\* The text with the marks on every byte of it.
RECURSIVE Attr(_, _)
Attr(toks, marks) ==
  IF toks = <<>> THEN <<>>
  ELSE LET t == Head(toks)
       IN IF IsMark(t) THEN Attr(Tail(toks), Tail(t))
          ELSE (IF IsText(t) THEN <<<<t[1], marks>>>> ELSE <<>>) \o Attr(Tail(toks), marks)
AttrOf(s) == Attr(Tokens(s), <<0, 0>>)

\* Whatever marks a document has, a mark operation changes the bytes of its range
\* as it says and no others, also for text appended later, and keeps every bracket.
Brackets(s) == SelectSeq(Tokens(s), LAMBDA t : ~IsMark(t))
MarkedAs(old, n, m, op, bit, id) ==
  [i \in DOMAIN old |-> IF i \in n + 1 .. m THEN <<old[i][1], <<NewFlags(op, bit, old[i][2][1]), NewId(op, id, old[i][2][2])>>>>
                        ELSE old[i]]
AttrKept(s, attr) ==
  /\ AttrOf(s) = attr
  /\ AttrOf(Append(s, 1)) = Append(attr, Last(AttrOf(Append(draw, 1))))
  /\ Brackets(s) = Brackets(draw)
MarksExact ==
  \A n, m \in CpStarts, id \in DocIds,
     op \in {<<"toggle", 1>>, <<"toggle", 2>>, <<"set", 1>>, <<"clear", 1>>, <<"id", 2>>} :
    n < m => AttrKept(BytesOf(_rdoc_mark_op(doc, n, m, op[1], op[2], id).node),
                      MarkedAs(AttrOf(draw), n, m, op[1], op[2], id))

NoEmptyLeaf == \A i \in DOMAIN LeavesOf(doc.node) : LeavesOf(doc.node)[i].e # <<>>

\* The cursor gives all the text, with the marks in force, and removing a pair of
\* brackets undoes putting it there, in a document with no empty leaf.  A transient
\* delete in place (rdoc.h:2050-2056) may empty a leaf between others: the cursor then
\* reads the empty leaf as a token and rdoc_cursor_advance (:944-948) steps over it and the
\* first token of the next leaf at once, so that rdoc_text_to_buf loses that text, which
\* :2070 says it copies.
TextExtracted == rdoc_text_to_buf(doc) = Flat(TextOf(Tokens(draw)))
CursorExact ==
  NoEmptyLeaf =>
    /\ TextExtracted
    /\ \A w \in Range(WalkAll(doc)) : w.marks = rdoc_mark_at(doc, w.at)
    /\ \A a, b \in Bounds : a < b => BytesOf(RemovePair(Wrap(doc, a, b, BOPEN, BCLOSE, 9), BOPEN, BCLOSE, 9).node) = draw

\* The tree holds the tokens the edits made, with the marks a plain walk over them gives
\* and, while no leaf is empty, through the cursors too (rdoc.h); ids hold no lead byte.
DocSound == DocTrue /\ MarksExact /\ CursorExact
=============================================================================
