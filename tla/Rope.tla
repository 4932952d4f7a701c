-------------------------------- MODULE Rope --------------------------------
(***************************************************************************)
(* The rope of src/lib/sum_tree/rope.h on the persistent B-tree with       *)
(* cached summaries of src/lib/sum_tree/sum_tree.h: the long strings of    *)
(* the language.  Leaves hold bytes, every node caches the bytes, code     *)
(* points, lines and grapheme clusters below it, and the cached clusters   *)
(* are only right while no cluster spans two leaves.                       *)
(*                                                                         *)
(* A byte is "a" (a letter), "n" (LF), "r" (CR), or the lead "M" or the    *)
(* continuation "m" of a two-byte combining mark, which extends the cluster*)
(* it follows: GB3, GB4 and GB9 of UAX #29.  A leaf is [e, s], an internal *)
(* node [kids, n, s].  A cursor keeps the index of its leaf in place of the*)
(* path to it.                                                             *)
(***************************************************************************)
EXTENDS FiniteSets, SumTree

CONSTANTS
  Window,   \* SCAN_WINDOW: 128, half of a leaf
  Texts,    \* bound: code points of a string given to the rope
  LongLen,  \* bound: letters of the long string that takes one operation
  RopeMax,  \* bound: bytes of a rope
  RSteps    \* bound: operations of the run

VARIABLES
  rp,     \* the rope: its node, count and height
  rtext,  \* history: its bytes
  seamed, \* history: whether an operation may have left a cluster across two leaves
  rsteps

ropeVars == <<rp, rtext, seamed, rsteps>>

-----------------------------------------------------------------------------
(* Offsets *)

\* The conversions between dimensions; -1 where the offset is not found.
Nowhere == [index |-> -2, prefix |-> [bytes |-> -1, chars |-> -1, lines |-> -1, graphemes |-> -1]]
Seek(r, dim, target) ==
  IF IsEmpty(r) \/ target >= ST_SUMMARY(r)[dim] THEN Nowhere
  ELSE SearchIn("rope", r.node, dim, target, rope_summary_identity)

rope_char_to_byte(r, k) == IF k = 0 THEN 0 ELSE Seek(r, "chars", k).prefix.bytes
rope_byte_to_char(r, p) == IF p = 0 THEN 0 ELSE Seek(r, "bytes", p).prefix.chars
rope_byte_to_line(r, p) == IF p = 0 THEN 0 ELSE Seek(r, "bytes", p).prefix.lines
rope_line_to_byte(r, k) == IF k = 0 THEN 0 ELSE Seek(r, "lines", k - 1).index + 1

\* Clusters are only counted within a leaf.
RECURSIVE GraphemeByte(_, _)
GraphemeByte(n, k) ==
  IF IsLeaf(n) THEN NthCluster(n.e, 0, k)
  ELSE LET pre(i) == FoldLeft(LAMBDA a, kid : a + kid.s.graphemes, 0, SubSeq(n.kids, 1, i))
           i      == CHOOSE i \in DOMAIN n.kids : pre(i) > k /\ pre(i - 1) <= k
       IN BytesBefore(n.kids, i) + GraphemeByte(n.kids[i], k - pre(i - 1))
RECURSIVE ByteGrapheme(_, _)
ByteGrapheme(n, p) ==
  IF IsLeaf(n) THEN unicode_grapheme_count(SubSeq(n.e, 1, p))
  ELSE LET i == ChildAt(n.kids, p)
       IN FoldLeft(LAMBDA a, kid : a + kid.s.graphemes, 0, SubSeq(n.kids, 1, i - 1))
            + ByteGrapheme(n.kids[i], p - BytesBefore(n.kids, i))

rope_grapheme_to_byte(r, k) ==
  CASE k = 0 -> 0 [] k # 0 /\ k >= ST_SUMMARY(r).graphemes -> -1 [] OTHER -> GraphemeByte(r.node, k)
rope_byte_to_grapheme(r, p) ==
  CASE p = 0 -> 0 [] p # 0 /\ p >= r.count -> -1 [] OTHER -> ByteGrapheme(r.node, p)

-----------------------------------------------------------------------------
(* Rope operations *)

\* Leaves end where no cluster does, as far as SafeSplit sees.
RECURSIVE CutLeaves(_, _)
CutLeaves(s, p) ==
  IF p >= Len(s) THEN <<>>
  ELSE LET end == IF p + LeafMax >= Len(s) THEN Len(s) ELSE SafeSplit(s, p + LeafMax)
       IN <<ST_MK_LEAF("rope", SubSeq(s, p + 1, end))>> \o CutLeaves(s, end)

rope_from_str(s) == ST_MK_ROOT("rope", CutLeaves(s, 0), 1)

\* Mutant: the junction is looked for with the ASCII test of the left rope only.
MutPlainSeam(l, r) == ST_SUMMARY(l).bytes = ST_SUMMARY(l).chars

\* Both ropes are ASCII and no CR meets what follows: no cluster can join.
PlainSeam(l, r) ==
  /\ ST_SUMMARY(l).bytes = ST_SUMMARY(l).chars /\ ST_SUMMARY(r).bytes = ST_SUMMARY(r).chars
  /\ Last(Last(LeavesOf(l.node)).e) # "r"

\* The cluster across the seam: tail ends the left rope, scan starts the right one.
LastCluster(s) == SubSeq(s, GraphemePrev(s, Len(s)) + 1, Len(s))
Joined(l, r, last, scan, prefix) ==
  ST_CONCAT("rope", ST_CONCAT("rope", ST_SPLIT("rope", l, l.count - Len(last)).left, rope_from_str(last \o SubSeq(scan, 1, prefix))),
            ST_SPLIT("rope", r, prefix).right)
\* The cluster may go on past the window: "accepting the summary miscount".
PastWindow(r, tail, scan, gend) == gend = Len(tail \o scan) /\ Len(scan) < r.count
AtSeam(l, r, last, tail, scan, gend) ==
  IF PlainSeam(l, r) \/ gend <= Len(tail) \/ PastWindow(r, tail, scan, gend)
  THEN ST_CONCAT("rope", l, r)
  ELSE Joined(l, r, last, scan, gend - Len(tail))
SeamOf(l, r, last, tail, scan) == AtSeam(l, r, last, tail, scan, GraphemeNext(tail \o scan, 0))
Scanned(r) == SubSeq(BytesOf(r.node), 1, IF r.count < Window THEN r.count ELSE Window)
Seam(l, r, last) == SeamOf(l, r, last, LastCluster(last), Scanned(r))

rope_concat(l, r) ==
  CASE l.count = 0 -> r
    [] l.count # 0 /\ r.count = 0 -> l
    [] OTHER -> Seam(l, r, Last(LeavesOf(l.node)).e)

\* The offsets insert, delete and slice accept.
OnCp(r, p) == ~(p > 0 /\ p < r.count /\ IsCont(ST_GET(r.node, p)))

rope_insert(r, p, s) == ST_CONCAT("rope", ST_CONCAT("rope", ST_SPLIT("rope", r, p).left, rope_from_str(s)), ST_SPLIT("rope", r, p).right)
rope_delete(r, p, k) == ST_CONCAT("rope", ST_SPLIT("rope", r, p).left, ST_SPLIT("rope", ST_SPLIT("rope", r, p).right, k).right)
rope_slice(r, p, k)  == ST_SPLIT("rope", ST_SPLIT("rope", r, p).right, k).left

OrEnd(r, p) == IF p = -1 THEN r.count ELSE p

\* The slices by lines and by code points, from one found offset to the next or
\* to the end.
SliceTo(r, from, to) ==
  LET end == OrEnd(r, to)
  IN IF from = -1 \/ end <= from THEN ST_EMPTY("rope") ELSE rope_slice(r, from, end - from)
rope_line_slice(r, a, b)     == SliceTo(r, rope_line_to_byte(r, a), rope_line_to_byte(r, b))
rope_slice_by_chars(r, a, k) == SliceTo(r, rope_char_to_byte(r, a), rope_char_to_byte(r, a + k))

rope_transient_insert(r, p, s) ==
  IF IsEmpty(r) THEN rope_from_str(s)
  ELSE IF Room(r.node, p).len + Len(s) <= LeafMax
  THEN RopeRoot(EditLeaf("rope", r.node, p, 0, s), r.height)
  ELSE rope_insert(r, p, s)

rope_transient_delete(r, p, k) ==
  IF Room(r.node, p).p + k <= Room(r.node, p).len
  THEN RopeRoot(EditLeaf("rope", r.node, p, k, <<>>), r.height)
  ELSE rope_delete(r, p, k)

-----------------------------------------------------------------------------
(* Cursors, on a rope with its leaves in their order. *)

WithLeaves(r) == [node |-> r.node, count |-> r.count, height |-> r.height, leaves |-> LeavesOf(r.node)]


LeafE(r, c) == r.leaves[c.i].e
SumAt(r, c) == r.leaves[c.i].s
Rest(r, c) == SubSeq(LeafE(r, c), c.off + 1, Len(LeafE(r, c)))
Upto(r, c) == SubSeq(LeafE(r, c), 1, c.off)

RECURSIVE CursorFrom(_, _, _)
CursorFrom(r, c, p) ==
  IF p < Len(LeafE(r, c)) \/ c.i = Len(r.leaves) THEN [c EXCEPT !.off = p]
  ELSE CursorFrom(r, [c EXCEPT !.i = @ + 1, !.prefix = rope_summary_combine(@, SumAt(r, c))], p - Len(LeafE(r, c)))

rope_cursor_new(r, p) == CursorFrom(r, [i |-> 1, off |-> 0, prefix |-> rope_summary_identity], p)
rope_cursor_byte_offset(c) == c.prefix.bytes + c.off

HasNext(r, c) == c.i < Len(r.leaves)
NextLeaf(r, c) == [i |-> c.i + 1, off |-> 0, prefix |-> rope_summary_combine(c.prefix, SumAt(r, c))]
\* Mutant: stepping back a leaf, the prefix loses the leaf that is left.
MutPrevLeaf(r, c) ==
  LET i == c.i - 1
  IN [i |-> i, off |-> Len(r.leaves[i].e), prefix |-> rope_summary_subtract(c.prefix, SumAt(r, c))]

PrevLeaf(r, c) ==
  LET i == c.i - 1
  IN [i |-> i, off |-> Len(r.leaves[i].e), prefix |-> rope_summary_subtract(c.prefix, r.leaves[i].s)]

RECURSIVE rope_cursor_advance_bytes(_, _, _)
rope_cursor_advance_bytes(r, c, n) ==
  LET avail == Len(LeafE(r, c)) - c.off
  IN IF n <= avail THEN [c EXCEPT !.off = @ + n] ELSE rope_cursor_advance_bytes(r, NextLeaf(r, c), n - avail)
RECURSIVE rope_cursor_retreat_bytes(_, _, _)
rope_cursor_retreat_bytes(r, c, n) ==
  IF n <= c.off THEN [c EXCEPT !.off = @ - n] ELSE rope_cursor_retreat_bytes(r, PrevLeaf(r, c), n - c.off)

\* What is left of the leaf, then leaf after leaf.
RECURSIVE rope_cursor_read(_, _, _)
rope_cursor_read(r, c, max) ==
  CASE max = 0 \/ (c.off >= Len(LeafE(r, c)) /\ ~HasNext(r, c)) -> <<>>
    [] max # 0 /\ c.off >= Len(LeafE(r, c)) /\ HasNext(r, c) -> rope_cursor_read(r, NextLeaf(r, c), max)
    [] OTHER -> LET k == IF Len(Rest(r, c)) < max THEN Len(Rest(r, c)) ELSE max
                IN SubSeq(Rest(r, c), 1, k) \o rope_cursor_read(r, [c EXCEPT !.off = @ + k], max - k)

\* The bytes a dimension counts.
Counted(dim, b) == IF dim = "chars" THEN ~IsCont(b) ELSE b = "n"
CountOf(dim, s) == Len(SelectSeq(s, LAMBDA b : Counted(dim, b)))

\* The offset in s after the k-th counted byte and its code point.
AfterNth(dim, s, k) ==
  IF k = 0 THEN 0
  ELSE LET q == CHOOSE q \in 1 .. Len(s) : Counted(dim, s[q]) /\ CountOf(dim, SubSeq(s, 1, q)) = k
       IN q - 1 + CpLen(s[q])

\* rope_cursor_advance_chars and rope_cursor_advance_lines; a failed advance
\* leaves the cursor at i = 0.
RECURSIVE Advance(_, _, _, _)
Advance(r, c, n, dim) ==
  LET here == CountOf(dim, Rest(r, c))
  IN CASE n <= here -> [c EXCEPT !.off = @ + AfterNth(dim, Rest(r, c), n)]
       [] n > here /\ HasNext(r, c) -> Advance(r, NextLeaf(r, c), n - here, dim)
       [] OTHER -> [c EXCEPT !.i = 0]

RECURSIVE rope_cursor_retreat_chars(_, _, _)
rope_cursor_retreat_chars(r, c, n) ==
  LET here == utf8_codepoint_count(Upto(r, c))
  IN IF n <= here THEN [c EXCEPT !.off = AfterNth("chars", LeafE(r, c), here - n)]
     ELSE rope_cursor_retreat_chars(r, PrevLeaf(r, c), n - here)

\* Back over n newlines, to the first of them that is left of the cursor.
RECURSIVE BackLines(_, _, _)
BackLines(r, c, n) ==
  CASE n = 0 -> c
    [] n # 0 /\ c.off > 0 ->
         LET d == [c EXCEPT !.off = @ - 1] IN BackLines(r, d, IF At(LeafE(r, d), d.off) = "n" THEN n - 1 ELSE n)
    [] OTHER -> BackLines(r, PrevLeaf(r, c), n)

RECURSIVE LineStart(_, _)
LineStart(r, c) ==
  CASE c.off > 0 /\ At(LeafE(r, c), c.off - 1) = "n" -> c
    [] c.off > 0 /\ At(LeafE(r, c), c.off - 1) # "n" -> LineStart(r, [c EXCEPT !.off = @ - 1])
    [] c.off = 0 /\ c.i > 1 -> LineStart(r, PrevLeaf(r, c))
    [] OTHER -> c

rope_cursor_retreat_lines(r, c, n) == LineStart(r, BackLines(r, c, n))

\* The last leaf's summary is added to the prefix although the cursor stays.
RECURSIVE rope_cursor_advance_graphemes(_, _, _)
rope_cursor_advance_graphemes(r, c, n) ==
  LET here == unicode_grapheme_count(Rest(r, c))
      skip(d) == [d EXCEPT !.off = Extends(LeafE(r, d), 0)]
  IN CASE n = 0 -> c
       [] n # 0 /\ n < here -> [c EXCEPT !.off = @ + NthCluster(Rest(r, c), 0, n)]
       [] n # 0 /\ n >= here /\ HasNext(r, c) ->
            rope_cursor_advance_graphemes(r, skip(NextLeaf(r, c)), n - here)
       [] n = here /\ n # 0 /\ ~HasNext(r, c) -> [c EXCEPT !.prefix = rope_summary_combine(@, SumAt(r, c))]
       [] OTHER -> [c EXCEPT !.i = 0]

\* A line and a column in code points, held within the line.
WithinLine(c, end) == IF c.i = 0 \/ rope_cursor_byte_offset(c) > end THEN end ELSE rope_cursor_byte_offset(c)
SeekInLine(r, start, end, col) ==
  CASE start = -1 -> -1
    [] start # -1 /\ (col = 0 \/ end = start) -> start
    [] OTHER -> WithinLine(Advance(r, rope_cursor_new(r, start), col, "chars"), end)
rope_seek(r, line, col) == SeekInLine(r, rope_line_to_byte(r, line), OrEnd(r, rope_line_to_byte(r, line + 1)), col)

-----------------------------------------------------------------------------
(* Strings of code points. rope_from_str cannot cut a line break or a letter   *)
(* with its marks that fills a leaf, and does not end: they are left out.     *)

RECURSIVE Encode(_)
Encode(cps) == IF cps = <<>> THEN <<>> ELSE (IF Head(cps) = "M" THEN <<"M", "m">> ELSE <<Head(cps)>>) \o Encode(Tail(cps))
Stretch(s, p) ==
  Extends(s, IF At(s, p) = "r" THEN GraphemeNext(s, p) ELSE p + CpLen(At(s, p))) - p
Fits(s)  == \A p \in 0 .. Len(s) - 1 : IsCont(At(s, p)) \/ Stretch(s, p) < LeafMax
Strs(k)  == {s \in {Encode(c) : c \in UNION {[1 .. i -> {"a", "n", "r", "M"}] : i \in 1 .. k}} : Fits(s)}

\* from_str cuts a CR from its LF where the two meet the end of a leaf.
CrLfAcross(ls) == \E i \in 2 .. Len(ls) : Last(ls[i - 1].e) = "r" /\ Head(ls[i].e) = "n"
CutsCrLf(s) == CrLfAcross(CutLeaves(s, 0))

LongText == [i \in 1 .. LongLen |-> "a"]
BreakText == [i \in 1 .. LongLen |-> CASE i = LeafMax -> "r" [] i = LeafMax + 1 -> "n" [] OTHER -> "a"]

RopeInit ==
  /\ rtext \in Strs(Texts) \cup {LongText, BreakText} /\ rp = rope_from_str(rtext)
  /\ seamed = CutsCrLf(rtext)
  /\ rsteps = IF Len(rtext) = LongLen THEN RSteps - 1 ELSE 0

RopeBecomes(r, t, seam) ==
  /\ rsteps < RSteps /\ rsteps' = rsteps + 1
  /\ Len(t) \in 1 .. RopeMax /\ Fits(t)
  /\ rp' = r /\ rtext' = t /\ seamed' = (seamed \/ seam)

\* A junction of more than a leaf is cut again, and a cluster that reaches the end of
\* the window is not joined, or is joined in part when the window cuts a code point.
Miscounts(l, r, rt, last) ==
  \/ CutsCrLf(last \o rt)
  \/ GraphemeNext(LastCluster(last) \o rt, 0) >= Len(LastCluster(last)) + Window /\ Window < Len(rt)
ConcatOf(l, r, lt, rt) ==
  RopeBecomes(rope_concat(l, r), lt \o rt, Miscounts(l, r, rt, Last(LeavesOf(l.node)).e))

RopeConcat ==
  \/ ConcatOf(rp, rp, rtext, rtext)
  \/ \E s \in Strs(2) : ConcatOf(rp, rope_from_str(s), rtext, s) \/ ConcatOf(rope_from_str(s), rp, s, rtext)

RopeEdit ==
  \E p \in 0 .. rp.count : OnCp(rp, p) /\
    \/ \E s \in Strs(1) : \/ RopeBecomes(rope_insert(rp, p, s), Spliced(rtext, p, 0, s), TRUE)
                          \/ RopeBecomes(rope_transient_insert(rp, p, s), Spliced(rtext, p, 0, s), TRUE)
    \/ \E k \in 1 .. rp.count - p : OnCp(rp, p + k) /\
         \/ RopeBecomes(rope_delete(rp, p, k), Spliced(rtext, p, k, <<>>), TRUE)
         \/ RopeBecomes(rope_transient_delete(rp, p, k), Spliced(rtext, p, k, <<>>), TRUE)
         \/ RopeBecomes(rope_slice(rp, p, k), SubSeq(rtext, p + 1, p + k), FALSE)

RopeNext == RopeConcat \/ RopeEdit

-----------------------------------------------------------------------------
(* Properties *)

RECURSIVE WellBuilt(_, _)
WellBuilt(n, height) ==
  IF IsLeaf(n) THEN height = 1 /\ Len(n.e) <= LeafMax
  ELSE /\ height > 1 /\ Len(n.kids) \in 1 .. LeafMax
       /\ \A i \in DOMAIN n.kids : WellBuilt(n.kids[i], height - 1)

\* Whatever operations made it, the tree holds the bytes it should, all leaves
\* lie at the depth the root records, no node has more children than its arrays
\* hold, and the cached counts of bytes, code points and lines are true.
RopeTrue ==
  /\ BytesOf(rp.node) = rtext /\ rp.count = Len(rtext)
  /\ WellBuilt(rp.node, rp.height)
  /\ [f \in {"bytes", "chars", "lines"} |-> ST_SUMMARY(rp)[f]]
       = [f \in {"bytes", "chars", "lines"} |-> rope_summary_summarize(rtext)[f]]

\* The number of grapheme clusters of a rope is that of its text.
GraphemesExact == ST_SUMMARY(rp).graphemes = unicode_grapheme_count(rtext)

Offsets == {p \in 0 .. Len(rtext) : OnCp(rp, p)}
CharsBefore(p) == utf8_codepoint_count(SubSeq(rtext, 1, p))
LinesBefore(p) == utf8_line_count(SubSeq(rtext, 1, p))
StartOfLine(k) == CHOOSE p \in 0 .. Len(rtext) : LinesBefore(p) = k /\ (p = 0 \/ At(rtext, p - 1) = "n")

\* Where the cached clusters are right, the conversions by them are.
ClusterStarts == {p \in 0 .. Len(rtext) - 1 : \E k \in 0 .. Len(rtext) : NthCluster(rtext, 0, k) = p}
GraphemeSeeks ==
  \A p \in ClusterStarts :
    LET k == unicode_grapheme_count(SubSeq(rtext, 1, p))
    IN rope_grapheme_to_byte(rp, k) = p /\ rope_byte_to_grapheme(rp, p) = k

\* For ropes made of strings, concatenations and slices: rope_concat splices every
\* cluster that the two sides share, slices that cut a cluster in two are counted
\* right when they are joined again, and offsets convert to clusters and back.  Three
\* operations may leave a cluster across two leaves, which is then counted twice:
\* insert and delete, which join without looking at the seam; concat, where the shared
\* cluster fills the scan window, the miscount rope.h:271-273 accepts (and where the end
\* of the window cuts a code point, in which case right is split inside the cluster, what
\* :272-273 means to avoid); and, although
\* rope.h:211-212 and 260-262 say leaves end where clusters do, from_str where a CR and
\* its LF meet the end of a leaf.
GraphemesExactUnseamed == seamed \/ (GraphemesExact /\ GraphemeSeeks)

\* The conversions by summary and the moves of a cursor land where counting in
\* the text does, across leaves and from every offset.
SeeksAgree ==
  \A r \in {WithLeaves(rp)}, p \in Offsets : \A c \in {rope_cursor_new(r, p)} :
       /\ p < rp.count =>
            /\ rope_byte_to_char(r, p) = CharsBefore(p) /\ rope_byte_to_line(r, p) = LinesBefore(p)
            /\ rope_char_to_byte(r, CharsBefore(p)) = p
       /\ rope_seek(r, LinesBefore(p), CharsBefore(p) - CharsBefore(StartOfLine(LinesBefore(p)))) = p
       /\ \A n \in 0 .. Len(rtext) - p :
            /\ rope_cursor_read(r, c, n) = SubSeq(rtext, p + 1, p + n)
            /\ rope_cursor_byte_offset(rope_cursor_advance_bytes(r, c, n)) = p + n
            /\ rope_cursor_byte_offset(rope_cursor_retreat_bytes(r, rope_cursor_new(r, p + n), n)) = p
            /\ (n <= LeafMax /\ OnCp(rp, p + n)) => BytesOf(rope_slice_by_chars(r, CharsBefore(p), CharsBefore(p + n) - CharsBefore(p)).node)
                                    = (IF p = rp.count THEN <<>> ELSE SubSeq(rtext, p + 1, p + n))
       /\ \A n \in 1 .. CharsBefore(Len(rtext)) - CharsBefore(p) :
            CharsBefore(rope_cursor_byte_offset(Advance(r, c, n, "chars"))) = CharsBefore(p) + n
       /\ \A n \in 1 .. LinesBefore(Len(rtext)) - LinesBefore(p) :
            rope_cursor_byte_offset(Advance(r, c, n, "lines")) = StartOfLine(LinesBefore(p) + n)
       /\ \A n \in 1 .. CharsBefore(p) :
            CharsBefore(rope_cursor_byte_offset(rope_cursor_retreat_chars(r, c, n))) = CharsBefore(p) - n
       /\ \A n \in 1 .. LinesBefore(p) :
            /\ rope_cursor_byte_offset(rope_cursor_retreat_lines(r, c, n)) = StartOfLine(LinesBefore(p) - n)
            /\ rope_line_to_byte(r, n) = StartOfLine(n)
            /\ BytesOf(rope_line_slice(r, n - 1, n).node) = SubSeq(rtext, StartOfLine(n - 1) + 1, StartOfLine(n))

\* Bytes, code points and lines are exact whatever edits made the rope: its leaves hold
\* the text, and seeks and cursors land where counting in the text does (rope.h,
\* sum_tree.h).  Clusters are exact while no operation may have left one across two
\* leaves: see GraphemesExactUnseamed for the three that may.
RopeSound == RopeTrue /\ SeeksAgree /\ GraphemesExactUnseamed
=============================================================================
