------------------------------ MODULE Segment ------------------------------
(***************************************************************************)
(* Segmentation of src/lib/unicode/unicode.h: grapheme clusters and words  *)
(* (UAX #29), line breaks (UAX #14), each as a scan that goes forward from *)
(* a boundary, a step back that scans forward from a safe point, and what  *)
(* is built on them.  A text is a sequence of characters, each standing    *)
(* for all characters with its three break classes (the tables of          *)
(* unicode_tables.h); a character takes one position.                      *)
(***************************************************************************)
EXTENDS Integers, Sequences, FiniteSets, FiniteSetsExt

CONSTANTS
  SegChars,  \* characters the texts are made of
  SegLen,    \* bound: characters of a text
  SegWindow  \* how far back a safe point is searched: 256 or 512

VARIABLE segText

segVars == <<segText>>

\* Characters with their grapheme, word and line break classes.
Classes ==
  [CR |-> <<"CR", "CR", "CR">>, LF |-> <<"LF", "LF", "LF">>, nel |-> <<"Control", "Newline", "NL">>,
   ext |-> <<"Extend", "Extend", "CM">>, zwj |-> <<"ZWJ", "ZWJ", "ZWJ">>, mark |-> <<"SpacingMark", "Extend", "CM">>,
   pre |-> <<"Prepend", "Numeric", "NU">>, ri |-> <<"RI", "RI", "RI">>, pic |-> <<"ExtPict", "Other", "ID">>,
   L |-> <<"L", "ALetter", "JL">>, V |-> <<"V", "ALetter", "JV">>, T |-> <<"T", "ALetter", "JT">>,
   LV |-> <<"LV", "ALetter", "H2">>, LVT |-> <<"LVT", "ALetter", "H3">>,
   a |-> <<"Other", "ALetter", "AL">>, heb |-> <<"Other", "Hebrew", "HL">>, one |-> <<"Other", "Numeric", "NU">>,
   sq |-> <<"Other", "SingleQuote", "QU">>, dq |-> <<"Other", "DoubleQuote", "QU">>, dot |-> <<"Other", "MidNumLet", "IS">>,
   colon |-> <<"Other", "MidLetter", "IS">>, comma |-> <<"Other", "MidNum", "IS">>, kata |-> <<"Other", "Katakana", "ID">>,
   low |-> <<"Other", "ExtendNumLet", "AL">>, sp |-> <<"Other", "WSegSpace", "SP">>, wj |-> <<"Control", "Format", "WJ">>,
   zw |-> <<"Control", "Other", "ZW">>, gl |-> <<"Other", "Other", "GL">>, op |-> <<"Other", "Other", "OP">>,
   cp |-> <<"Other", "Other", "CP">>, ns |-> <<"Other", "Other", "NS">>, hy |-> <<"Other", "Other", "HY">>,
   dash |-> <<"Other", "Other", "B2">>, bb |-> <<"Other", "Other", "BB">>, ba |-> <<"Other", "Other", "BA">>, cb |-> <<"Other", "Other", "CB">>,
   po |-> <<"Other", "Other", "PO">>, pr |-> <<"Other", "Other", "PR">>, excl |-> <<"Other", "Other", "EX">>, dots |-> <<"Other", "Other", "IN">>]

unicode_grapheme_break(c) == Classes[c][1]
unicode_word_break(c) == Classes[c][2]
unicode_line_break(c) == Classes[c][3]
G(s, i) == unicode_grapheme_break(s[i])
W(s, i) == unicode_word_break(s[i])
LB(s, i) == unicode_line_break(s[i])

-----------------------------------------------------------------------------
(* Grapheme clusters.  A scan has read s up to cur; prev is the class it    *)
(* read last, pic says whether a pictograph may still be joined, ri counts  *)
(* regional indicators.                                                     *)

Hard == {"Control", "CR", "LF"}
HangulPair(p, n) ==
  \/ p = "L" /\ n \in {"L", "V", "LV", "LVT"}
  \/ p \in {"LV", "V"} /\ n \in {"V", "T"}
  \/ p \in {"LVT", "T"} /\ n = "T"

RECURSIVE GraphemeScan(_, _, _, _, _)
MutGraphemeScan(s, cur, prev, pic, ri) == \* regional indicators join without end
  IF cur = Len(s) \/ G(s, cur + 1) \in Hard THEN cur
  ELSE LET n == G(s, cur + 1)
       IN IF HangulPair(prev, n) THEN GraphemeScan(s, cur + 1, n, pic, ri)
          ELSE IF n \in {"Extend", "ZWJ"} THEN GraphemeScan(s, cur + 1, n, pic, 0)
          ELSE IF n = "SpacingMark" THEN GraphemeScan(s, cur + 1, n, FALSE, 0)
          ELSE IF prev = "Prepend" THEN GraphemeScan(s, cur + 1, n, n = "ExtPict", IF n = "RI" THEN 1 ELSE 0)
          ELSE IF prev = "ZWJ" /\ pic /\ n = "ExtPict" THEN GraphemeScan(s, cur + 1, n, TRUE, 0)
          ELSE IF prev = "RI" /\ n = "RI" THEN GraphemeScan(s, cur + 1, n, FALSE, ri + 1)
          ELSE cur
GraphemeScan(s, cur, prev, pic, ri) ==
  IF cur = Len(s) \/ G(s, cur + 1) \in Hard THEN cur
  ELSE LET n == G(s, cur + 1)
       IN IF HangulPair(prev, n) THEN GraphemeScan(s, cur + 1, n, pic, ri)
          ELSE IF n \in {"Extend", "ZWJ"} THEN GraphemeScan(s, cur + 1, n, pic, 0)
          ELSE IF n = "SpacingMark" THEN GraphemeScan(s, cur + 1, n, FALSE, 0)
          ELSE IF prev = "Prepend" THEN GraphemeScan(s, cur + 1, n, n = "ExtPict", IF n = "RI" THEN 1 ELSE 0)
          ELSE IF prev = "ZWJ" /\ pic /\ n = "ExtPict" THEN GraphemeScan(s, cur + 1, n, TRUE, 0)
          ELSE IF prev = "RI" /\ n = "RI" /\ ri % 2 = 1 THEN GraphemeScan(s, cur + 1, n, FALSE, ri + 1)
          ELSE cur

unicode_grapheme_next(s, pos) ==
  LET p == G(s, pos + 1)
  IN CASE pos >= Len(s) -> Len(s)
       [] pos < Len(s) /\ p = "CR" /\ pos + 1 < Len(s) /\ G(s, pos + 2) = "LF" -> pos + 2
       [] pos < Len(s) /\ p \in Hard /\ ~(p = "CR" /\ pos + 1 < Len(s) /\ G(s, pos + 2) = "LF") -> pos + 1
       [] OTHER -> GraphemeScan(s, pos + 1, p, p = "ExtPict", IF p = "RI" THEN 1 ELSE 0)

-----------------------------------------------------------------------------
(* Words *)

Skipped == {"Extend", "Format", "ZWJ"}
AHLetter == {"ALetter", "Hebrew"}
MidLetterQ == {"MidLetter", "MidNumLet", "SingleQuote"}
MidNumQ == {"MidNum", "MidNumLet", "SingleQuote"}
NewLine == {"Newline", "CR", "LF"}

\* The class after the character at position i and what it drags along.
unicode__wb_lookahead(s, i) ==
  LET rest == {j \in i + 1 .. Len(s) : W(s, j) \notin Skipped}
  IN IF rest = {} THEN "Other" ELSE W(s, Min(rest))

\* WB5 to WB13b: the classes before and after, and the one before those.
WordPair(s, cur, pp, p, n) ==
  LET after == unicode__wb_lookahead(s, cur + 1)
  IN \/ p \in AHLetter /\ n \in AHLetter
     \/ p \in AHLetter /\ n \in MidLetterQ /\ after \in AHLetter
     \/ pp \in AHLetter /\ p \in MidLetterQ /\ n \in AHLetter
     \/ p = "Hebrew" /\ n = "SingleQuote"
     \/ p = "Hebrew" /\ n = "DoubleQuote" /\ after = "Hebrew"
     \/ pp = "Hebrew" /\ p = "DoubleQuote" /\ n = "Hebrew"
     \/ p = "Numeric" /\ n = "Numeric"
     \/ p \in AHLetter /\ n = "Numeric"
     \/ p = "Numeric" /\ n \in AHLetter
     \/ p = "Numeric" /\ n \in MidNumQ /\ after = "Numeric"
     \/ pp = "Numeric" /\ p \in MidNumQ /\ n = "Numeric"
     \/ p = "Katakana" /\ n = "Katakana"
     \/ p \in AHLetter \cup {"Numeric", "Katakana", "ExtendNumLet"} /\ n = "ExtendNumLet"
     \/ p = "ExtendNumLet" /\ n \in AHLetter \cup {"Numeric", "Katakana"}

RECURSIVE WordScan(_, _, _, _, _)
WordScan(s, cur, pp, p, ri) ==
  IF cur = Len(s) THEN cur
  ELSE LET n == W(s, cur + 1)
       IN IF p = "CR" /\ n = "LF" THEN cur + 1
          ELSE IF p \in NewLine \/ n \in NewLine THEN cur
          ELSE IF p = "ZWJ" /\ G(s, cur + 1) = "ExtPict" THEN WordScan(s, cur + 1, p, n, 0)
          ELSE IF p = "WSegSpace" /\ n = "WSegSpace" THEN WordScan(s, cur + 1, p, n, 0)
          ELSE IF n \in Skipped THEN WordScan(s, cur + 1, pp, p, 0)
          ELSE IF WordPair(s, cur, pp, p, n) THEN WordScan(s, cur + 1, p, n, 0)
          ELSE IF p = "RI" /\ n = "RI" /\ ri % 2 = 1 THEN WordScan(s, cur + 1, p, n, ri + 1)
          ELSE cur

unicode_word_next(s, pos) ==
  IF pos >= Len(s) THEN Len(s)
  ELSE WordScan(s, pos + 1, "Other", W(s, pos + 1), IF W(s, pos + 1) = "RI" THEN 1 ELSE 0)

-----------------------------------------------------------------------------
(* Lines *)

Feed == {"BK", "CR", "LF", "NL"}
Letters == {"AL", "HL"}
Jamo == {"JL", "JV", "JT", "H2", "H3"}

\* LB21 apart, the rules from LB22 on that keep two classes together.
LinePair(p, n) ==
  \/ p = "SY" /\ n = "HL"
  \/ n = "IN"
  \/ p \in Letters /\ n \in {"NU", "PR", "PO", "OP"} \cup Letters
  \/ p = "NU" /\ n \in Letters \cup {"PO", "PR", "NU", "OP"}
  \/ p = "PR" /\ n \in {"ID", "EB", "EM"} \cup Jamo
  \/ p \in {"ID", "EB", "EM"} \cup Jamo /\ n = "PO"
  \/ p \in {"PR", "PO"} /\ n \in Letters \cup {"OP", "NU"}
  \/ p \in {"CL", "CP"} /\ n \in {"PO", "PR"}
  \/ p \in {"HY", "IS", "SY"} /\ n = "NU"
  \/ p = "JL" /\ n \in {"JL", "JV", "H2", "H3"}
  \/ p \in {"JV", "H2"} /\ n \in {"JV", "JT"}
  \/ p \in {"JT", "H3"} /\ n = "JT"
  \/ p = "IS" /\ n \in Letters
  \/ p = "CP" /\ n \in Letters \cup {"NU"}
  \/ p = "EB" /\ n = "EM"

RECURSIVE LineScan(_, _, _, _, _)
\* hl: the scan is just after a Hebrew letter and a hyphen.
MutLineScan(s, cur, p, hl, ri) == \* a space lets the break come before it
  IF cur = Len(s) THEN cur
  ELSE IF p \in Feed THEN (IF p = "CR" /\ LB(s, cur + 1) = "LF" THEN cur + 1 ELSE cur)
  ELSE IF LB(s, cur + 1) \in Feed THEN LineScan(s, cur + 1, LB(s, cur + 1), FALSE, 0)
  ELSE IF LinePair(p, LB(s, cur + 1)) THEN LineScan(s, cur + 1, LB(s, cur + 1), FALSE, 0)
  ELSE cur
LineScan(s, cur, p, hl, ri) ==
  IF cur = Len(s) THEN cur
  ELSE LET n0 == LB(s, cur + 1)
           n == IF n0 \in {"CM", "ZWJ"} THEN "AL" ELSE n0
           Keep(r) == LineScan(s, cur + 1, n, FALSE, r)
           fresh == IF n = "RI" THEN 1 ELSE 0
       IN IF p \in Feed THEN (IF p = "CR" /\ n0 = "LF" THEN cur + 1 ELSE cur)
          ELSE IF n0 \in Feed THEN LineScan(s, cur + 1, n0, FALSE, 0)
          ELSE IF n0 \in {"SP", "ZW"} THEN LineScan(s, cur + 1, n0, hl, 0)
          ELSE IF p = "ZW" THEN cur
          ELSE IF p = "ZWJ" THEN LineScan(s, cur + 1, n0, FALSE, fresh)
          ELSE IF n0 \in {"CM", "ZWJ"} /\ p # "SP" THEN LineScan(s, cur + 1, p, hl, 0)
          ELSE IF "WJ" \in {n, p} THEN Keep(0)
          ELSE IF p = "GL" THEN Keep(fresh)
          ELSE IF n = "GL" /\ p \notin {"SP", "BA", "HY"} THEN Keep(0)
          ELSE IF n \in {"CL", "CP", "EX", "IS", "SY"} THEN Keep(0)
          ELSE IF p = "OP" THEN Keep(fresh)
          ELSE IF p = "QU" /\ n = "OP" THEN Keep(0)
          ELSE IF p \in {"CL", "CP"} /\ n = "NS" THEN Keep(0)
          ELSE IF p = "B2" /\ n = "B2" THEN Keep(0)
          ELSE IF p = "SP" THEN cur
          ELSE IF "QU" \in {n, p} THEN Keep(fresh)
          ELSE IF "CB" \in {n, p} THEN cur
          ELSE IF n \in {"BA", "HY", "NS"} \/ p = "BB"
               THEN LineScan(s, cur + 1, n, p = "HL" /\ n \in {"HY", "BA"}, 0)
          ELSE IF hl THEN Keep(fresh)
          ELSE IF LinePair(p, n) THEN Keep(0)
          ELSE IF p = "RI" /\ n = "RI" /\ ri % 2 = 1 THEN Keep(ri + 1)
          ELSE cur

unicode_linebreak_next(s, pos) ==
  IF pos >= Len(s) THEN Len(s)
  ELSE LET p == LB(s, pos + 1)
       IN IF p = "CR" /\ pos + 1 < Len(s) /\ LB(s, pos + 2) = "LF" THEN pos + 2
          ELSE IF p \in Feed THEN pos + 1
          ELSE LineScan(s, pos + 1, p, FALSE, IF p = "RI" THEN 1 ELSE 0)

unicode_linebreak_is_mandatory(s, pos) ==
  /\ pos \in 1 .. Len(s)
  /\ LB(s, pos) \in Feed
  /\ LB(s, pos) = "CR" => ~(pos < Len(s) /\ LB(s, pos + 1) = "LF")

-----------------------------------------------------------------------------
(* Stepping back *)

Next1(kind, s, pos) ==
  CASE kind = "g" -> unicode_grapheme_next(s, pos) [] kind = "w" -> unicode_word_next(s, pos)
    [] kind = "l" -> unicode_linebreak_next(s, pos)
Certain(kind, s, i) ==
  CASE kind = "g" -> G(s, i) \in Hard [] kind = "w" -> W(s, i) \in NewLine [] kind = "l" -> LB(s, i) \in Feed

\* After the last certain break before pos, if the window reaches it.  A
\* break found on the very edge of the window is passed over for the edge.
MutSafePoint(kind, s, pos) == IF pos > SegWindow THEN pos - SegWindow + 1 ELSE IF pos > 1 THEN 1 ELSE 0
SafePoint(kind, s, pos) ==
  LET limit == IF pos > SegWindow THEN pos - SegWindow ELSE 0
      hits == {i \in limit + 2 .. pos : Certain(kind, s, i)}
  IN IF hits = {} THEN limit ELSE Max(hits)

RECURSIVE LastBefore(_, _, _, _)
StepBefore(kind, s, scan, n, pos) == IF n >= pos THEN scan ELSE LastBefore(kind, s, n, pos)
LastBefore(kind, s, scan, pos) ==
  IF scan >= pos THEN scan ELSE StepBefore(kind, s, scan, Next1(kind, s, scan), pos)

\* unicode_grapheme_prev, unicode_word_prev and unicode_linebreak_prev.
Prev1(kind, s, pos) == IF pos = 0 \/ pos > Len(s) THEN 0 ELSE LastBefore(kind, s, SafePoint(kind, s, pos), pos)

RECURSIVE OffExtenders(_, _)
OffExtenders(s, pos) ==
  IF pos > 0 /\ G(s, pos + 1) \in {"Extend", "ZWJ", "SpacingMark"} THEN OffExtenders(s, pos - 1) ELSE pos
OffCluster(s, q, b) == IF q > 0 /\ b < q /\ unicode_grapheme_next(s, b) # q THEN b ELSE q
SplitAt(s, q) == OffCluster(s, q, Prev1("g", s, q))
grapheme_find_safe_split(s, pos) == IF pos = 0 \/ pos >= Len(s) THEN pos ELSE SplitAt(s, OffExtenders(s, pos))

Kind(w) ==
  CASE w \in AHLetter \cup {"Katakana"} -> "letter" [] w = "Numeric" -> "numeric"
    [] w \in NewLine \cup {"WSegSpace"} -> "space"
    [] w \in MidLetterQ \cup MidNumQ \cup {"DoubleQuote"} -> "punctuation" [] OTHER -> "other"
TypeFrom(s, start) ==
  LET sig == {j \in start + 1 .. Len(s) : W(s, j) \notin Skipped}
  IN IF sig = {} THEN "other" ELSE Kind(W(s, Min(sig)))
\* Mutant: the boundary before the position is taken for the word's start.
MutStartOfWord(pos, prev, next) == prev
StartOfWord(pos, prev, next) == IF next <= pos THEN next ELSE prev
WordAround(s, pos, prev) == StartOfWord(pos, prev, unicode_word_next(s, prev))
unicode_word_type_at(s, pos) ==
  IF pos >= Len(s) THEN "other" ELSE TypeFrom(s, IF pos = 0 THEN 0 ELSE WordAround(s, pos, Prev1("w", s, pos)))

-----------------------------------------------------------------------------
SegInit == segText = <<>>
SegType(c) == Len(segText) < SegLen /\ segText' = Append(segText, c)
SegNext == \E c \in SegChars : SegType(c)
SegSpec == SegInit /\ [][SegNext]_segVars

RECURSIVE BreaksFrom(_, _, _)
BreaksFrom(kind, s, pos) == {pos} \cup (IF pos >= Len(s) THEN {} ELSE BreaksFrom(kind, s, Next1(kind, s, pos)))
Breaks(kind, s) == BreaksFrom(kind, s, 0)

\* The rules of UAX #29 as the comments of unicode_grapheme_next number
\* them, read at a position alone: no break between i and i + 1.  GB11 lets
\* ZWJ stand among the Extend before the last ZWJ, as the scan does.
GraphemeKept(s, i) ==
  LET p == G(s, i)
      n == G(s, i + 1)
      ris == {j \in 1 .. i : \A k \in j .. i : G(s, k) = "RI"}
  IN IF p = "CR" /\ n = "LF" THEN TRUE
     ELSE IF p \in Hard \/ n \in Hard THEN FALSE
     ELSE \/ HangulPair(p, n)
          \/ n \in {"Extend", "ZWJ", "SpacingMark"}
          \/ p = "Prepend"
          \/ p = "ZWJ" /\ n = "ExtPict"
               /\ \E j \in 1 .. i - 1 : G(s, j) = "ExtPict" /\ \A k \in j + 1 .. i : G(s, k) \in {"Extend", "ZWJ"}
          \/ p = "RI" /\ n = "RI" /\ Cardinality(ris) % 2 = 1

\* The scan of unicode_grapheme_next, started afresh at every boundary,
\* breaks a text exactly where the rules say, which look at all that stands
\* before a position.
GraphemeRules ==
  \A i \in 1 .. Len(segText) - 1 : (i \in Breaks("g", segText)) = ~GraphemeKept(segText, i)

\* No certain break lies in the window before pos, and its edge is no boundary: the scan
\* starts inside a cluster, a word or a line.
EdgeInside(kind, pos) ==
  /\ pos > SegWindow /\ pos - SegWindow \notin Breaks(kind, segText)
  /\ \A i \in pos - SegWindow + 1 .. pos : ~Certain(kind, segText, i)

\* The three functions that step back find the last boundary before a position, from a
\* safe point of their own ("Walks forward from a safe point and returns the last boundary
\* strictly before pos"), with two exceptions: right after a hard break they answer the
\* position itself, and where the window of 256 or 512 bytes starts inside a cluster, a
\* word or a line its edge is taken for a boundary (unicode.h:514, 532, 929, 1467).
PrevInverts ==
  \A kind \in {"g", "w", "l"} : \A pos \in 1 .. Len(segText) :
    \/ EdgeInside(kind, pos)
    \/ Prev1(kind, segText, pos) =
         IF pos > 1 /\ Certain(kind, segText, pos) THEN pos ELSE Max({b \in Breaks(kind, segText) : b < pos})

\* A split point of grapheme_find_safe_split is not after the position asked for and falls
\* inside no cluster.  It parts a carriage return from its line feed, which :572-576 says
\* it never does, and may cut a cluster longer than the window.
Splits(q) == q \in Breaks("g", segText) \/ (q > 1 /\ segText[q] = "CR" /\ segText[q + 1] = "LF")
SplitsBetweenClusters ==
  \A pos \in 0 .. Len(segText) :
    \E q \in 0 .. pos :
      /\ q = grapheme_find_safe_split(segText, pos)
      /\ Splits(q) \/ \E p \in q .. pos : EdgeInside("g", p)

\* Every position of a word is told the same type, as far as the window reaches.
OneTypePerWord ==
  \A pos \in 0 .. Len(segText) - 1 :
    EdgeInside("w", pos) \/ unicode_word_type_at(segText, pos)
      = unicode_word_type_at(segText, Max({b \in Breaks("w", segText) : b <= pos}))

\* Every mandatory break is one that unicode_linebreak_next stops at; no
\* break comes before a space, a line feed or closing punctuation, nor
\* inside a letter's marks.
LineBreaksLawful ==
  /\ \A pos \in 1 .. Len(segText) : unicode_linebreak_is_mandatory(segText, pos) => pos \in Breaks("l", segText)
  /\ \A pos \in Breaks("l", segText) \ {0, Len(segText)} :
       LET p == LB(segText, pos)
           n == LB(segText, pos + 1)
       IN p \notin Feed =>
            /\ n \notin Feed \cup {"SP", "ZW"}
            /\ p # "ZW" => n \notin {"WJ", "EX", "IS", "CP"}
            /\ n \in {"CM", "ZWJ"} => p \in {"SP", "ZW"}

\* Clusters break exactly where the rules say, a word has one type, line breaks keep the
\* rules listed, and prev inverts next but for a hard break and a window that starts inside
\* a unit (unicode.h).  WB3c and LB8a are left out: the joiner is passed over as transparent
\* before they are asked (:740, :1126), so that a pictograph is parted from a joiner that
\* does not start the text.
SegmentationSound ==
  GraphemeRules /\ PrevInverts /\ SplitsBetweenClusters /\ OneTypePerWord /\ LineBreaksLawful
=============================================================================
