-------------------------------- MODULE Nfd --------------------------------
(***************************************************************************)
(* Canonical decomposition of src/lib/unicode/unicode.h: unicode_nfd works *)
(* in one buffer while the text fits it and in segments of a starter and   *)
(* its marks when it does not; unicode_is_nfd tells whether there is       *)
(* anything to do.  A character stands for those with its decomposition    *)
(* and combining class; "bad" is a byte that is not UTF-8.                 *)
(***************************************************************************)
EXTENDS Integers, Sequences, FiniteSets, SequencesExt, FiniteSetsExt

CONSTANTS
  NfdChars,  \* characters of the texts
  NfdLen,    \* bound: characters of a text
  BufCap,    \* code points of the buffer: 256
  AsciiCap,  \* where ASCII gives it up: 240
  SegCap     \* code points of a segment: 128

VARIABLE nfdText

nfdVars == <<nfdText>>

Ascii == {"a"}
\* Combining classes: grave and acute above (2), cedilla below (1), the rest starters.
unicode_ccc(c) == CASE c = "below" -> 1 [] c \in {"acute", "grave"} -> 2 [] OTHER -> 0
\* The table of decompositions.
unicode_nfd_decomp(c) ==
  CASE c = "aacute" -> <<"a", "acute">> [] c = "both" -> <<"acute", "grave">> [] c = "ang" -> <<"starter">> [] OTHER -> <<>>
Hangul == [LV |-> <<"L", "V">>, LVT |-> <<"L", "V", "T">>]
unicode_nfd_qc(c) == unicode_nfd_decomp(c) # <<>>

unicode__decompose_cp(c) ==
  IF c \in DOMAIN Hangul THEN Hangul[c] ELSE IF unicode_nfd_decomp(c) # <<>> THEN unicode_nfd_decomp(c) ELSE <<c>>

Swapped(s, i) == [s EXCEPT ![i] = s[i - 1], ![i - 1] = s[i]]
RECURSIVE Sink(_, _), OrderFrom(_, _)
Sink(s, j) == IF j > 1 /\ unicode_ccc(s[j - 1]) > unicode_ccc(s[j]) THEN Sink(Swapped(s, j), j - 1) ELSE s
OrderFrom(s, i) ==
  IF i > Len(s) THEN s ELSE OrderFrom(IF unicode_ccc(s[i]) = 0 THEN s ELSE Sink(s, i), i + 1)
MutCanonicalOrder(s) == \* one pass of neighbours
  IF Len(s) > 1 /\ unicode_ccc(s[2]) # 0 /\ unicode_ccc(s[1]) > unicode_ccc(s[2]) THEN Swapped(s, 2) ELSE s
unicode__canonical_order(s) == OrderFrom(s, 2)

\* Phase 1 in the buffer; it overflows at once or when the next does not fit.
Buffered(src) ==
  FoldLeft(LAMBDA b, c :
             IF b.over \/ c = "bad" THEN b
             ELSE IF c \in Ascii THEN [out |-> Append(b.out, c), over |-> Len(b.out) + 1 >= AsciiCap]
             ELSE IF Len(b.out) + Len(unicode__decompose_cp(c)) >= BufCap THEN [b EXCEPT !.over = TRUE]
             ELSE [b EXCEPT !.out = @ \o unicode__decompose_cp(c)],
           [out |-> <<>>, over |-> FALSE], src)

\* One segment from position i on: characters until the next begins with a
\* starter, or is not UTF-8.  What does not fit the segment is dropped.
RECURSIVE Segment1(_, _, _)
Segment1(src, i, seg) ==
  LET add == seg \o unicode__decompose_cp(src[i])
      kept == SubSeq(add, 1, IF Len(add) < SegCap THEN Len(add) ELSE SegCap)
      ends == i = Len(src) \/ src[i + 1] = "bad" \/ unicode_ccc(unicode__decompose_cp(src[i + 1])[1]) = 0
  IN IF i > Len(src) THEN [seg |-> seg, i |-> i]
     ELSE IF src[i] = "bad" THEN Segment1(src, i + 1, seg)
     ELSE IF ends THEN [seg |-> kept, i |-> i + 1]
     ELSE Segment1(src, i + 1, kept)

RECURSIVE Segmented(_, _)
Segmented(src, i) ==
  IF i > Len(src) THEN <<>>
  ELSE LET g == Segment1(src, i, <<>>) IN unicode__canonical_order(g.seg) \o Segmented(src, g.i)

unicode_nfd(src) ==
  LET b == Buffered(src) IN IF b.over THEN Segmented(src, 1) ELSE unicode__canonical_order(b.out)

RECURSIVE QuickCheck(_, _, _)
MutQuickCheck(src, i, last) == \* a mark after a starter forgets what came before it
  IF i > Len(src) THEN TRUE
  ELSE IF src[i] = "bad" \/ src[i] \in DOMAIN Hangul \/ unicode_nfd_qc(src[i]) THEN FALSE
  ELSE QuickCheck(src, i + 1, 0)
QuickCheck(src, i, last) ==
  IF i > Len(src) THEN TRUE
  ELSE IF src[i] \in Ascii THEN QuickCheck(src, i + 1, 0)
  ELSE IF src[i] = "bad" \/ src[i] \in DOMAIN Hangul \/ unicode_nfd_qc(src[i]) THEN FALSE
  ELSE IF unicode_ccc(src[i]) # 0 /\ last > unicode_ccc(src[i]) THEN FALSE
  ELSE QuickCheck(src, i + 1, unicode_ccc(src[i]))
unicode_is_nfd(src) == QuickCheck(src, 1, 0)

-----------------------------------------------------------------------------
NfdInit == nfdText = <<>>
NfdType(c) == Len(nfdText) < NfdLen /\ nfdText' = Append(nfdText, c)
NfdNext == \E c \in NfdChars : NfdType(c)
NfdSpec == NfdInit /\ [][NfdNext]_nfdVars

Fully(src) == FoldLeft(LAMBDA acc, c : IF c = "bad" THEN acc ELSE acc \o unicode__decompose_cp(c), <<>>, src)
\* The positions of the run of marks that position i of s is in.
RunOf(s, i) == {j \in DOMAIN s : \A k \in DOMAIN s : (k \in i .. j \cup j .. i) => unicode_ccc(s[k]) > 0}
\* Where canonical order puts the character at position i: a mark goes by
\* class, then by age, within its run.
Place(s, i) ==
  LET run == RunOf(s, i)
      first == {j \in run : unicode_ccc(s[j]) < unicode_ccc(s[i]) \/ (unicode_ccc(s[j]) = unicode_ccc(s[i]) /\ j < i)}
  IN IF unicode_ccc(s[i]) = 0 THEN i ELSE Min(run) + Cardinality(first)

\* Two texts too long for the buffer come out wrong although "Decompose src into NFD form"
\* (unicode.h:213) has no exception: one with a starter and its marks of more than a segment
\* (128 code points), the rest of which is dropped (:294), and one with a byte that is not
\* UTF-8 among marks, which are then sorted on either side of it only (:304-305).
Marks1(c) == c # "bad" /\ unicode_ccc(unicode__decompose_cp(c)[1]) > 0
LongSegment(src) ==
  \E i, j \in DOMAIN src :
    /\ i <= j /\ \A k \in i + 1 .. j : Marks1(src[k])
    /\ Len(Fully(SubSeq(src, i, j))) > SegCap
BadAmongMarks(src) == \E i \in 2 .. Len(src) : src[i - 1] = "bad" /\ Marks1(src[i])
Excepted(src) == Buffered(src).over /\ (LongSegment(src) \/ BadAmongMarks(src))

\* unicode_nfd gives the full decomposition with every run of marks sorted
\* by class and otherwise in the order it came, in the buffer as in segments.
NfdCanonical ==
  LET s == Fully(nfdText)
      t == unicode_nfd(nfdText)
  IN Len(t) = Len(s) /\ \A i \in DOMAIN s : t[Place(s, i)] = s[i]

\* What unicode_nfd returns is in the form, and unicode_is_nfd says yes to
\* exactly the texts that unicode_nfd leaves as they are.
NfdFixpoint ==
  LET out == unicode_nfd(nfdText)
  IN unicode_is_nfd(out) /\ unicode_is_nfd(nfdText) = (out = nfdText)

\* unicode_nfd gives the canonical form, once and for all, of every text that fits the
\* buffer and of every longer one without an over-long segment or a stray byte among its
\* marks: see Excepted.
NfdSound == Excepted(nfdText) \/ (NfdCanonical /\ NfdFixpoint)
=============================================================================
