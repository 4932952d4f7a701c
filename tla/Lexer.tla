------------------------------- MODULE Lexer -------------------------------
(* src/lexer.c: source text to tokens.  A character is its name; the letters *)
(* stand for the classes of letters, "m" for the keyword defmacro, "f" for   *)
(* the other keywords.  One step is one turn of a loop of the lexer: the     *)
(* top-level loop, the body of a string or shell word, or the inside of an   *)
(* interpolation; the C call stack of these is frames.                       *)
EXTENDS Integers, Sequences, FiniteSets, SequencesExt, FiniteSetsExt

CONSTANTS
  LexIntMax,   \* INT64_MAX, as small as the literals below
  LexTen,      \* the base of decimal literals: 10
  ShellNest,   \* shell commands nested in one another: 8
  TextLen,     \* length of the texts over each alphabet
  CoreLen,     \* length of the texts put into a string, a word, an interpolation
  TripleLen    \* length of the texts between triple quotes

VARIABLES
  ltext,       \* the source
  lx,          \* the lexer: position, tokens, frames, shell state
  lturns       \* loop turns so far

lexVars == <<ltext, lx, lturns>>

Letters == {"a", "b", "x", "n", "u", "m", "f"}
DigitVal == [c \in {"0", "1", "9"} |-> CASE c = "0" -> 0 [] c = "1" -> 1 [] OTHER -> 9]
HexVal == [c \in {"0", "1", "9", "a", "b"} |->
             CASE c = "a" -> 10 [] c = "b" -> 11 [] OTHER -> DigitVal[c]]
Blanks == {"sp"}
LineEnds == {"nl", "cr"}
Delims == {"[", "]", "{", "}", "(", ")"}

lexer__is_word_start(c) == c \in Letters
lexer__is_word_char(c) == c \in Letters \cup DOMAIN DigitVal \cup {"-", "?", "!"}
OpChars == {"!", "%", "&", "*", "+", "-", ".", "/", ":", "<", "=", ">", "?", "@", "bs", "^", "|", "~"}
lexer__is_operator_char(c) == c \in OpChars
lexer__is_operator_value(w) ==
  w \in {<<"+">>, <<"-">>, <<"*">>, <<"/">>, <<"%">>, <<"<">>, <<">">>, <<"=", "=">>, <<"!", "=">>,
         <<"<", "=">>, <<">", "=">>, <<"&", "&">>, <<"|", "|">>}

At(p) == IF p \in DOMAIN ltext THEN ltext[p] ELSE "eof"
lexer__peek(S) == At(S.pos)
Next1(S) == At(S.pos + 1)
Next2(S) == At(S.pos + 2)
Span(p, q) == SubSeq(ltext, p, q - 1)

\* The first position from p on whose character does not go on.
StopsAt(p, Goes(_)) == CHOOSE q \in p .. Len(ltext) + 1 : ~Goes(q) /\ \A r \in p .. q - 1 : Goes(r)
OpEnd(p) == LET Goes(q) == lexer__is_operator_char(At(q)) IN StopsAt(p, Goes)
lexer__is_word_char_no_arrow(q) == lexer__is_word_char(At(q)) /\ ~(At(q) = "-" /\ At(q + 1) = ">")
WordEnd(p) == StopsAt(p, lexer__is_word_char_no_arrow)
LineEnd(p) == LET Goes(q) == At(q) \notin LineEnds \cup {"eof"} IN StopsAt(p, Goes)

lexer__advance(S, n) == [S EXCEPT !.pos = @ + n, !.col = @ + n]
To(S, p) == lexer__advance(S, p - S.pos)
Newline(S, n) == [S EXCEPT !.pos = @ + n, !.line = @ + 1, !.col = 1]
\* Mutant: cr nl is two line ends.
MutEndLen(S) == 1

\* A line end is one character or the two of cr nl.
EndLen(S) == IF lexer__peek(S) = "cr" /\ Next1(S) = "nl" THEN 2 ELSE 1

\* A token from S to T.  val: an integer's value; text: its characters.
lexer__make_token(S, T, type) ==
  [type |-> type, line |-> S.line, col |-> S.col, at |-> S.pos, len |-> T.pos - S.pos,
   val |-> 0, big |-> FALSE, text |-> <<>>]
lexer__arr_push(S, tok) == [S EXCEPT !.toks = Append(@, tok)]
Emit(S, T, type) == lexer__arr_push(T, lexer__make_token(S, T, type))
EmitError(S, T) == [Emit(S, T, "ERROR") EXCEPT !.errs = @ + 1]
EmitText(S, T, type, text) == lexer__arr_push(T, [lexer__make_token(S, T, type) EXCEPT !.text = text])

-----------------------------------------------------------------------------
(* Numbers *)

\* Accumulates digits in an unsigned 64-bit word, with an overflow flag.
WithDigit(r, d, base) ==
  IF r.val > (2 * LexIntMax + 1 - d) \div base THEN [r EXCEPT !.ovf = TRUE] ELSE [r EXCEPT !.val = @ * base + d]
RECURSIVE Digits(_, _, _)
Digits(r, ds, base) ==
  IF ds = <<>> THEN [val |-> r.val, over |-> r.ovf \/ r.val > LexIntMax]
  ELSE Digits(WithDigit(r, Head(ds), base), Tail(ds), base)
Accumulate(ds, base) == Digits([val |-> 0, ovf |-> FALSE], ds, base)

BadSuffix(S, p) ==
  LET Goes(q) == lexer__is_word_char(At(q)) IN EmitError(S, To(S, StopsAt(p, Goes)))

EmitInt(S, T, n) ==
  lexer__arr_push(T, [lexer__make_token(S, T, "INT") EXCEPT
    !.val = IF n.over THEN 0 ELSE n.val, !.big = n.over, !.text = IF n.over THEN Span(S.pos, T.pos) ELSE <<>>])

\* 0x and 0b: no digits, a suffix or a value out of range are errors.
RadixValue(S, e, n) == IF n.over THEN EmitError(S, To(S, e)) ELSE EmitInt(S, To(S, e), n)
RadixTo(S, base, vals, p, e) ==
  IF e = p \/ lexer__is_word_start(At(e)) \/ (base = 2 /\ At(e) \in DOMAIN DigitVal) THEN BadSuffix(S, e)
  ELSE RadixValue(S, e, Accumulate([i \in 1 .. e - p |-> vals[At(p + i - 1)]], base))
Radix(S, base, vals) ==
  LET Goes(q) == At(q) \in DOMAIN vals /\ vals[At(q)] < base
  IN RadixTo(S, base, vals, S.pos + 2, StopsAt(S.pos + 2, Goes))

\* A decimal past INT64_MAX is a bigint: the token carries its digits.
FloatTo(S, e) == IF lexer__is_word_start(At(e)) THEN BadSuffix(S, e) ELSE Emit(S, To(S, e), "FLOAT")
DecimalTo(S, e) ==
  LET Goes(q) == At(q) \in DOMAIN DigitVal
  IN IF At(e) = "." /\ At(e + 1) \in DOMAIN DigitVal THEN FloatTo(S, StopsAt(e + 1, Goes))
     ELSE IF lexer__is_word_start(At(e)) THEN BadSuffix(S, e)
     ELSE EmitInt(S, To(S, e), Accumulate([i \in 1 .. e - S.pos |-> DigitVal[At(S.pos + i - 1)]], LexTen))
Decimal(S) ==
  LET Goes(q) == At(q) \in DOMAIN DigitVal IN DecimalTo(S, StopsAt(S.pos, Goes))

lexer__lex_number(S) ==
  IF lexer__peek(S) = "0" /\ Next1(S) = "x" THEN Radix(S, 16, HexVal)
  ELSE IF lexer__peek(S) = "0" /\ Next1(S) = "b" THEN Radix(S, 2, DigitVal)
  ELSE Decimal(S)

\* Mutant: the sign is in the token's span and not in its value.
MutNegated(S, T) ==
  [T EXCEPT !.toks[Len(T.toks)] = [@ EXCEPT !.at = S.pos, !.line = S.line, !.col = S.col, !.len = @ + 1]]

\* '-' glued to a digit: the token just pushed is widened and its value negated.  A
\* bigint token's value is the pointer to its digits: negated it points nowhere.
Negated(S, T) ==
  [T EXCEPT !.toks[Len(T.toks)] =
     [@ EXCEPT !.at = S.pos, !.line = S.line, !.col = S.col, !.len = @ + 1, !.val = -@,
               !.text = IF Last(T.toks).big THEN <<"wild">> ELSE @]]
lexer__maybe_lex_neg_number(S) == Negated(S, lexer__lex_number(lexer__advance(S, 1)))

-----------------------------------------------------------------------------
(* Strings and shell words *)

StrFrame(S, mode) ==
  [f |-> "str", mode |-> mode, from |-> [pos |-> S.pos, line |-> S.line, col |-> S.col],
   seg |-> [pos |-> S.pos, line |-> S.line, col |-> S.col], sb |-> <<>>, interp |-> FALSE,
   inq |-> FALSE, sq |-> 0, br |-> 0, raw |-> TRUE]
Depth(f) == [f |-> f, depth |-> 1]
Enter(S, frame) == [S EXCEPT !.frames = Append(@, frame)]
Leave(S) == [S EXCEPT !.frames = Front(@)]
Top(S) == Last(S.frames)
WithTop(S, frame) == [S EXCEPT !.frames[Len(S.frames)] = frame]
Where(S) == [pos |-> S.pos, line |-> S.line, col |-> S.col]
\* The lexer put back where a token starts, to make that token.
From(S, w) == [S EXCEPT !.pos = w.pos, !.line = w.line, !.col = w.col]

lexer__shell_word_ends(c, sq, br) ==
  c \in Blanks \cup LineEnds \cup {";", "|", "&"} \/ (c = "]" /\ sq = 0) \/ (c = "}" /\ br = 0)

lexer__shell_word_is_int(p) ==
  LET i == IF At(p) = "-" THEN p + 1 ELSE p
      Goes(q) == At(q) \in DOMAIN DigitVal
      e == StopsAt(i, Goes)
  IN /\ At(i) \in DOMAIN DigitVal
     /\ ~(At(i) = "0" /\ (i > p \/ At(i + 1) \in DOMAIN DigitVal))
     /\ At(e) = "eof" \/ lexer__shell_word_ends(At(e), 0, 0)

HexRun(p, n) == \A i \in 0 .. n - 1 : At(p + i) \in DOMAIN HexVal
\* Where a run of hex digits that is too short stops.
HexStop(p) == LET Goes(q) == At(q) \in DOMAIN HexVal IN StopsAt(p, Goes)

\* After a backslash: what is pushed, how far it reads, whether it fails.  The code
\* reads t and r as it reads n, and U as u, with eight digits.
lexer__handle_escape(S) ==
  LET c == lexer__peek(S)
      digits == CASE c = "x" -> 2 [] c = "u" -> 4 [] OTHER -> 0
  IN CASE c = "eof" -> [ok |-> FALSE, to |-> S.pos, push |-> <<>>]
       [] c \in {"bs", "dq", "$", "0"} -> [ok |-> TRUE, to |-> S.pos + 1, push |-> <<c>>]
       [] c = "n" -> [ok |-> TRUE, to |-> S.pos + 1, push |-> <<"nl">>]
       [] c \in {"x", "u"} ->
            IF HexRun(S.pos + 1, digits) THEN [ok |-> TRUE, to |-> S.pos + 1 + digits, push |-> <<"byte">>]
            ELSE [ok |-> FALSE, to |-> HexStop(S.pos + 1), push |-> <<>>]
       [] OTHER -> [ok |-> FALSE, to |-> S.pos + 1, push |-> <<>>]

\* Error recovery: to the closing quote, over escapes and newlines.  An escaped
\* character is stepped over whatever it is.
RECURSIVE lexer__skip_to_string_end(_)
lexer__skip_to_string_end(S) ==
  CASE lexer__peek(S) = "eof" -> S
    [] lexer__peek(S) = "dq" -> lexer__advance(S, 1)
    [] lexer__peek(S) = "bs" -> lexer__skip_to_string_end(lexer__advance(S, IF Next1(S) = "eof" THEN 1 ELSE 2))
    [] lexer__peek(S) \in LineEnds -> lexer__skip_to_string_end(Newline(S, EndLen(S)))
    [] OTHER -> lexer__skip_to_string_end(lexer__advance(S, 1))

StringFails(S) ==
  LET fr == Top(S)
      T == IF fr.mode = "quoted" THEN lexer__skip_to_string_end(S) ELSE S
  IN Leave(EmitError(From(T, fr.from), T))

\* The text of a triple-quoted string: if its last line is blank and indented, that
\* line goes, and so do a leading newline and as much indent from every line.
RECURSIVE StripLines(_, _)
StripLines(t, indent) ==
  LET lead == CHOOSE n \in 0 .. Len(t) : /\ \A i \in 1 .. n : t[i] \in Blanks
                                         /\ n = indent \/ n = Len(t) \/ t[n + 1] \notin Blanks
      l == SubSeq(t, lead + 1, Len(t))
      nls == {i \in DOMAIN l : l[i] = "nl"}
      line == IF nls = {} THEN l ELSE SubSeq(l, 1, Min(nls) - 1)
      rest == SubSeq(l, Min(nls) + 1, Len(l))
      final == \A i \in DOMAIN rest : rest[i] \in Blanks
  IN IF t = <<>> THEN <<>>
     ELSE IF nls = {} THEN line
     ELSE line \o (IF final THEN <<>> ELSE <<"nl">>) \o StripLines(rest, indent)

\* Mutant: the indent is that of the first line.
MutIndentStripped(sb) ==
  LET nls == {i \in DOMAIN sb : sb[i] = "nl"}
      last == SubSeq(sb, Max(nls) + 1, Len(sb))
      first == SubSeq(sb, Min(nls) + 1, Len(sb))
      blanks == CHOOSE n \in 0 .. Len(first) : /\ \A i \in 1 .. n : first[i] \in Blanks
                                               /\ n = Len(first) \/ first[n + 1] \notin Blanks
  IN IF nls = {} \/ last = <<>> \/ \E i \in DOMAIN last : last[i] \notin Blanks THEN sb
     ELSE StripLines(IF sb[1] = "nl" THEN Tail(sb) ELSE sb, blanks)

IndentStripped(sb) ==
  LET nls == {i \in DOMAIN sb : sb[i] = "nl"}
      last == SubSeq(sb, Max(nls) + 1, Len(sb))
  IN IF nls = {} \/ last = <<>> \/ \E i \in DOMAIN last : last[i] \notin Blanks THEN sb
     ELSE StripLines(IF sb[1] = "nl" THEN Tail(sb) ELSE sb, Len(last))

\* Mutant: no STRING_END when nothing follows the last interpolation.
MutStringEnds(S) ==
  LET fr == Top(S)
      T == lexer__advance(S, CASE fr.mode = "quoted" -> 1 [] fr.mode = "triple" -> 3 [] OTHER -> 0)
  IN Leave(IF fr.interp /\ fr.sb # <<>> THEN EmitText(From(T, fr.seg), T, "STRING_END", fr.sb)
           ELSE EmitText(From(T, fr.from), T, "STRING", fr.sb))

\* The closing delimiter, consumed unless it ends a shell word.
StringEnds(S) ==
  LET fr == Top(S)
      T == lexer__advance(S, CASE fr.mode = "quoted" -> 1 [] fr.mode = "triple" -> 3 [] OTHER -> 0)
      text == IF fr.mode = "triple" /\ ~fr.interp THEN IndentStripped(fr.sb) ELSE fr.sb
  IN Leave(IF fr.interp THEN EmitText(From(T, fr.seg), T, "STRING_END", text)
           ELSE IF fr.mode = "word" /\ fr.raw
           THEN EmitText(From(T, fr.from), T, "WORD", Span(fr.from.pos, T.pos))
           ELSE EmitText(From(T, fr.from), T, "STRING", text))

\* $name, $[ or $( in a string: the text before it, then the interpolation.
Interpolates(S) ==
  LET fr == Top(S)
      T == EmitText(From(S, fr.seg), S, IF fr.interp THEN "STRING_PART" ELSE "STRING_BEGIN", fr.sb)
      after == [fr EXCEPT !.interp = TRUE, !.sb = <<>>]
      V == To(T, WordEnd(T.pos + 1))
  IN CASE Next1(S) = "[" -> Enter(WithTop(Emit(T, lexer__advance(T, 2), "EXPR_START"), after), Depth("expr"))
       [] Next1(S) = "(" -> Enter(WithTop(Emit(T, lexer__advance(T, 2), "DOLLAR_PAREN"), after), Depth("infix"))
       [] OTHER -> WithTop(Emit(T, V, "INTERP_VAR"), [after EXCEPT !.seg = Where(V)])

\* Mutant: the segment after an interpolation is measured from the one before it.
MutResume(S) == Leave(S)

\* Returning from an interpolation: the next segment of the string starts here.
Resume(S) ==
  LET T == Leave(S) IN WithTop(T, [Top(T) EXCEPT !.seg = Where(S)])

\* Mutant: a blank ends a shell word inside quotes too.
MutBodyEnds(S) ==
  LET fr == Top(S)
      c == lexer__peek(S)
  IN CASE fr.mode = "word" -> (c = "eof" /\ ~fr.inq) \/ lexer__shell_word_ends(c, fr.sq, fr.br)
       [] fr.mode = "triple" -> c = "dq" /\ Next1(S) = "dq" /\ Next2(S) = "dq"
       [] OTHER -> c = "dq"

\* The delimiter that ends the body, if it stands here.
BodyEnds(S) ==
  LET fr == Top(S)
      c == lexer__peek(S)
  IN CASE fr.mode = "word" -> ~fr.inq /\ (c = "eof" \/ lexer__shell_word_ends(c, fr.sq, fr.br))
       [] fr.mode = "triple" -> c = "dq" /\ Next1(S) = "dq" /\ Next2(S) = "dq"
       [] OTHER -> c = "dq"

Bracketed(fr, c) ==
  IF fr.mode # "word" \/ fr.inq THEN fr
  ELSE [fr EXCEPT !.sq = @ + (IF c = "[" THEN 1 ELSE IF c = "]" THEN -1 ELSE 0),
                  !.br = @ + (IF c = "{" THEN 1 ELSE IF c = "}" THEN -1 ELSE 0)]

\* One turn of the loop of lexer__lex_string_body.
StringTurn(S) ==
  LET fr == Bracketed(Top(S), lexer__peek(S))
      c == lexer__peek(S)
      B == WithTop(S, fr)
      esc == lexer__handle_escape(lexer__advance(B, 1))
      E == WithTop(To(B, esc.to), [fr EXCEPT !.sb = @ \o esc.push, !.raw = FALSE])
  IN CASE c = "dq" /\ fr.mode = "word" ->
            WithTop(lexer__advance(S, 1), [Top(S) EXCEPT !.inq = ~@, !.raw = FALSE])
       [] c \in LineEnds -> WithTop(Newline(B, EndLen(B)), [fr EXCEPT !.sb = Append(@, "nl")])
       [] c = "bs" -> IF esc.ok THEN E ELSE StringFails(E)
       [] c = "$" /\ (lexer__is_word_start(Next1(S)) \/ Next1(S) \in {"[", "("}) -> Interpolates(B)
       [] OTHER -> WithTop(lexer__advance(B, 1), [fr EXCEPT !.sb = Append(@, c)])

-----------------------------------------------------------------------------
(* The rules the three token loops share *)

Delim(S) == Emit(S, lexer__advance(S, 1), lexer__peek(S))
LineBreak(S) ==
  LET n == EndLen(S) IN Newline(Emit(S, lexer__advance(S, n), "NEWLINE"), 0)
\* Mutant: a comment stops one character before the end of its line.
MutComment(S) == To(S, LineEnd(S.pos) - 1)

Comment(S) == To(S, LineEnd(S.pos))
Keyword(w) == CASE w = <<"m">> -> "DEFMACRO" [] w = <<"f">> -> "IF" [] OTHER -> "WORD"
Word(S, keywords) ==
  LET T == To(S, WordEnd(S.pos))
  IN Emit(S, T, IF keywords THEN Keyword(Span(S.pos, T.pos)) ELSE "WORD")
Caret(S) == Emit(S, To(S, WordEnd(S.pos + 1)), "CARET_WORD")
OpenString(S) == Enter(lexer__advance(S, 1), StrFrame(S, "quoted"))
Unexpected(S) == EmitError(S, lexer__advance(S, 1))

\* The operators with tokens of their own, at the top level and inside $( ).
Operator(S, top) ==
  LET c == lexer__peek(S)
      d == Next1(S)
      Two(type) == Emit(S, lexer__advance(S, 2), type)
      One(type) == Emit(S, lexer__advance(S, 1), type)
      Greedy(p) == Emit(S, To(S, OpEnd(p)), "OPERATOR")
  IN CASE c = "|" -> IF d = "|" THEN Two("OR") ELSE One("PIPE")
       [] c = "&" -> IF d = "&" THEN Two("AND") ELSE One("AMP")
       [] c = "~" -> IF d = "@" THEN Two("TILDE_AT") ELSE One("NOT")
       [] c = "=" -> IF d = "=" THEN Two("OPERATOR") ELSE EmitError(S, lexer__advance(S, 1))
       [] c = "-" -> IF d = ">" THEN Two("ARROW") ELSE Greedy(S.pos + 1)
       [] c = ":" /\ top -> EmitError(S, lexer__advance(S, IF d = ":" THEN 2 ELSE 1))
       [] c = "!" /\ top -> IF d = "=" THEN Two("OPERATOR") ELSE One("BANG")
       [] c = "." /\ top -> IF d = "." /\ ~lexer__is_operator_char(Next2(S)) THEN Two("DOTDOT")
                            ELSE Greedy(S.pos + 1)
       [] OTHER -> Greedy(S.pos + 1)

\* $name, else $[, else (at the top) $( and operators as values, else an error.
Dollar(S, top) ==
  LET d == Next1(S)
      oe == OpEnd(S.pos + 1)
      O == [S EXCEPT !.pos = @ + 1]
  IN CASE d = "[" -> Emit(S, lexer__advance(S, 2), "DOLLAR_BRACKET")
       [] d = "(" /\ top -> Emit(S, lexer__advance(S, 2), "DOLLAR_PAREN")
       [] lexer__is_word_start(d) -> Emit(S, To(S, WordEnd(S.pos + 1)), "VAR")
       [] top /\ lexer__is_operator_char(d) /\ lexer__is_operator_value(Span(S.pos + 1, oe)) ->
            Emit(O, To(S, oe), "WORD")
       [] OTHER -> EmitError(S, lexer__advance(S, 1))

IsNegNumber(S) == lexer__peek(S) = "-" /\ Next1(S) \in DOMAIN DigitVal

Deeper(S, n) == WithTop(S, [Top(S) EXCEPT !.depth = @ + n])

\* One turn inside $[ ] of a string: brackets are counted, operators are greedy.
ExprTurn(S) ==
  LET c == lexer__peek(S)
  IN CASE c = "eof" -> Resume(EmitError(S, S))
       [] c \in Blanks -> lexer__advance(S, 1)
       [] c = "#" -> Comment(S)
       [] c \in LineEnds -> LineBreak(S)
       [] c = "]" -> IF Top(S).depth = 1 THEN Resume(Emit(S, lexer__advance(S, 1), "EXPR_END"))
                     ELSE Deeper(Delim(S), -1)
       [] c = "[" -> Deeper(Delim(S), 1)
       [] c \in Delims \ {"[", "]"} -> Delim(S)
       [] IsNegNumber(S) -> lexer__maybe_lex_neg_number(S)
       [] c \in DOMAIN DigitVal -> lexer__lex_number(S)
       [] lexer__is_word_start(c) -> Word(S, FALSE)
       [] lexer__is_operator_char(c) /\ ~IsNegNumber(S) -> Emit(S, To(S, OpEnd(S.pos)), "OPERATOR")
       [] c = "$" -> IF Next1(S) = "[" THEN Deeper(Dollar(S, FALSE), 1) ELSE Dollar(S, FALSE)
       [] c = "dq" -> OpenString(S)
       [] OTHER -> Unexpected(S)

\* One turn inside $( ) of a string: parentheses are counted.
InfixTurn(S) ==
  LET c == lexer__peek(S)
      caret == c = "^" /\ lexer__is_word_start(Next1(S))
  IN CASE c = "eof" -> Resume(EmitError(S, S))
       [] c \in Blanks -> lexer__advance(S, 1)
       [] c = "#" -> Comment(S)
       [] c \in LineEnds -> LineBreak(S)
       [] c = ")" -> IF Top(S).depth = 1 THEN Resume(Delim(S)) ELSE Deeper(Delim(S), -1)
       [] c = "(" -> Deeper(Delim(S), 1)
       [] c \in Delims \ {"(", ")"} -> Delim(S)
       [] IsNegNumber(S) -> lexer__maybe_lex_neg_number(S)
       [] c \in DOMAIN DigitVal -> lexer__lex_number(S)
       [] lexer__is_word_start(c) -> Word(S, FALSE)
       [] caret -> Caret(S)
       [] lexer__is_operator_char(c) /\ ~IsNegNumber(S) /\ ~caret -> Operator(S, FALSE)
       [] c = "$" -> Dollar(S, FALSE)
       [] c = "dq" -> OpenString(S)
       [] c = "," -> Delim(S)
       [] OTHER -> Unexpected(S)

-----------------------------------------------------------------------------
(* Shell words: sh.mode is 1 among the words of a command, 2 inside a bracketed *)
(* argument, sh.depth brackets deep; sh.outer keeps the depths of the commands   *)
(* around this one.                                                              *)

\* Mutant: the depth of the argument around a command is not restored.
MutShellEnds(S) ==
  IF S.sh.outer = <<>> THEN [S EXCEPT !.sh.mode = 0]
  ELSE [S EXCEPT !.sh = [mode |-> 2, depth |-> 0, outer |-> Front(@.outer)]]

ShellEnds(S) ==
  IF S.sh.outer = <<>> THEN [S EXCEPT !.sh.mode = 0]
  ELSE [S EXCEPT !.sh = [mode |-> 2, depth |-> Last(@.outer), outer |-> Front(@.outer)]]

\* How the next item among a command's words is lexed.
ShellItem(S) ==
  LET c == lexer__peek(S)
      d == Next1(S)
      Goes(q) == lexer__is_word_char_no_arrow(q)
      k == StopsAt(S.pos + 1, Goes)
      whole == At(k) = "eof" \/ lexer__shell_word_ends(At(k), 0, 0)
  IN CASE c \in Blanks -> "blank"
       [] c = "eof" \/ (c \notin Blanks /\ lexer__shell_word_ends(c, 0, 0)) -> "ends"
       [] c = "#" -> "usual"
       [] c = "[" \/ (c = "$" /\ d = "[") -> "argument"
       [] c = "." /\ d = "." /\ Next2(S) \in {"$", "["} -> "spread"
       [] c = "$" /\ lexer__is_word_start(d) -> IF whole THEN "usual" ELSE "word"
       [] c = "dq" /\ d = "dq" /\ Next2(S) = "dq" -> "usual"
       [] lexer__shell_word_is_int(S.pos) -> "usual"
       [] OTHER -> "word"

\* A bracket lexed inside a command's argument.
InArgument(S, c) ==
  IF S.sh.mode # 2 THEN S
  ELSE IF c = "[" THEN [S EXCEPT !.sh.depth = @ + 1]
  ELSE IF c = "]" /\ S.sh.depth = 1 THEN [S EXCEPT !.sh.depth = 0, !.sh.mode = 1]
  ELSE IF c = "]" THEN [S EXCEPT !.sh.depth = @ - 1]
  ELSE S

\* `!` starts a command, unless it names a macro or commands nest too deeply.
Bang(S) ==
  LET n == Len(S.toks)
  IN IF Last(S.toks).type # "BANG" \/ S.sh.mode = 1 \/ (n >= 2 /\ S.toks[n - 1].type = "DEFMACRO") THEN S
     ELSE IF S.sh.mode = 2 /\ Len(S.sh.outer) = ShellNest THEN S
     ELSE [S EXCEPT !.sh.mode = 1,
                    !.sh.outer = IF S.sh.mode = 2 THEN Append(@, S.sh.depth) ELSE @]

\* The rules of lexer_lex's loop after the shell words had their say.
TopTurn(S) ==
  LET c == lexer__peek(S)
      caret == c = "^" /\ lexer__is_word_start(Next1(S))
      cont == c = "bs" /\ Next1(S) \in LineEnds
      C == lexer__advance(S, 1)
  IN CASE c = "eof" -> [Emit(S, S, "EOF") EXCEPT !.done = TRUE]
       [] c \in Blanks -> lexer__advance(S, 1)
       [] c \in LineEnds -> LineBreak(S)
       [] c \in Delims \cup {";", ","} -> InArgument(Delim(S), c)
       [] c = "#" -> Comment(S)
       [] IsNegNumber(S) -> lexer__maybe_lex_neg_number(S)
       [] c \in DOMAIN DigitVal -> lexer__lex_number(S)
       [] lexer__is_word_start(c) -> Word(S, TRUE)
       [] caret -> Caret(S)
       [] c = "bs" -> IF cont THEN Newline(C, EndLen(C)) ELSE Emit(S, C, "BACKSLASH")
       [] lexer__is_operator_char(c) /\ ~IsNegNumber(S) /\ ~caret /\ c # "bs" ->
            LET T == Operator(S, TRUE) IN IF T.errs > S.errs THEN T ELSE Bang(T)
       [] c = "$" -> IF Next1(S) = "[" THEN InArgument(Dollar(S, TRUE), "[") ELSE Dollar(S, TRUE)
       [] c = "dq" -> IF Next1(S) = "dq" /\ Next2(S) = "dq"
                      THEN Enter(lexer__advance(S, 3), StrFrame(S, "triple")) ELSE OpenString(S)
       [] OTHER -> Unexpected(S)

ShellTurn(S) ==
  CASE ShellItem(S) = "blank" -> lexer__advance(S, 1)
    [] ShellItem(S) = "spread" -> Emit(S, lexer__advance(S, 2), "DOTDOT")
    [] ShellItem(S) = "word" -> Enter(S, StrFrame(S, "word"))
    [] OTHER -> TopTurn(CASE ShellItem(S) = "ends" -> ShellEnds(S)
                          [] ShellItem(S) = "argument" -> [S EXCEPT !.sh.mode = 2, !.sh.depth = 0]
                          [] OTHER -> S)

-----------------------------------------------------------------------------
(* The machine *)

TextsOf(set, n) == UNION {[1 .. k -> set] : k \in 0 .. n}
Around(pre, texts, post) == {pre \o t \o post : t \in texts}
DQ3 == <<"dq", "dq", "dq">>

\* Texts over the alphabets where rules meet, and texts put where a rule is at work.
Texts ==
  TextsOf({"dq", "a", "$", "[", "]", "nl"}, TextLen)
  \cup TextsOf({"0", "1", "x", "-", ".", "b"}, TextLen)
  \cup TextsOf({"!", "=", "-", ">", ".", "a"}, TextLen)
  \cup TextsOf({"$", "&", "|", ":", "~", "@", "^", "a", "bs", "cr", "nl", "#", "m", "f", ","}, 3)
  \cup Around(<<"-">>, TextsOf({"0", "1", "9"}, CoreLen), <<>>)
  \cup Around(<<"dq">>, TextsOf({"bs", "x", "n", "a", "dq", "nl"}, CoreLen), <<"dq", "nl", "a">>)
  \cup Around(<<"dq", "$", "(">>, TextsOf({"a", "(", ")", "dq", "$", "[", "^", ","}, CoreLen - 1), <<")", "dq">>)
  \cup Around(<<"dq", "$", "[">>, TextsOf({"a", "]", "nl", "dq", "$", "[", "(", "1", "-", "="}, CoreLen - 1), <<"]", "dq">>)
  \cup Around(DQ3, TextsOf({"nl", "sp", "a"}, TripleLen), DQ3)
  \cup Around(<<"!">>, TextsOf({"a", "sp", "[", "]", "dq", "$", "!"}, CoreLen), <<>>)
  \cup Around(<<"!", "a">>, TextsOf({"a", "sp", "nl", ";", "|", "&", "#", "]", "}"}, CoreLen - 1), <<"sp", "a">>)
  \cup Around(<<"m", "sp", "!">>, TextsOf({"a", "sp", ";", "!"}, 2), <<>>)
  \cup Around(<<"!", "a", "sp">>, TextsOf({"0", "1", "-", "sp", ".", "$", "{", "}", "bs"}, CoreLen - 1), <<>>)

LexStart ==
  [pos |-> 1, line |-> 1, col |-> 1, toks |-> <<>>, errs |-> 0, frames |-> <<>>,
   sh |-> [mode |-> 0, depth |-> 0, outer |-> <<>>], done |-> FALSE]
LexInit == ltext \in Texts /\ lx = LexStart /\ lturns = 0

In(f) == ~lx.done /\ lx.frames # <<>> /\ Top(lx).f = f
AtTop == ~lx.done /\ lx.frames = <<>>
Turn(S) == lx' = S /\ lturns' = lturns + 1 /\ UNCHANGED ltext

LexTop      == AtTop /\ lx.sh.mode # 1 /\ Turn(TopTurn(lx))
LexShell    == AtTop /\ lx.sh.mode = 1 /\ Turn(ShellTurn(lx))
LexExpr     == In("expr") /\ Turn(ExprTurn(lx))
LexInfix    == In("infix") /\ Turn(InfixTurn(lx))
LexInString == In("str") /\ ~BodyEnds(lx) /\ lexer__peek(lx) # "eof" /\ Turn(StringTurn(lx))
LexStringEnds  == In("str") /\ BodyEnds(lx) /\ Turn(StringEnds(lx))
LexUnterminated == In("str") /\ ~BodyEnds(lx) /\ lexer__peek(lx) = "eof" /\ Turn(StringFails(lx))

LexNext == LexTop \/ LexShell \/ LexExpr \/ LexInfix \/ LexInString \/ LexStringEnds \/ LexUnterminated
LexSpec == LexInit /\ [][LexNext]_lexVars

-----------------------------------------------------------------------------
(* Properties *)

Toks == Range(lx.toks)
Clean == lx.done /\ lx.errs = 0

\* Lexing ends, whatever the text, in a number of turns linear in its length: no rule
\* leaves the lexer where it was.
LexLinear == lturns <= 2 * Len(ltext) + 2

\* Of a text without errors every token is a piece of its own, in order, and what no
\* token holds is blank space, a comment, a line continuation or the $ of an operator
\* used as a value.
LexTiles ==
  Clean =>
    /\ \A i, j \in DOMAIN lx.toks : i < j => lx.toks[i].at + lx.toks[i].len <= lx.toks[j].at
    /\ \A p \in DOMAIN ltext :
         \/ \E t \in Toks : p \in t.at .. t.at + t.len - 1
         \/ ltext[p] \in Blanks
         \/ \E q \in 1 .. p : ltext[q] = "#" /\ LineEnd(q) > p
         \/ ltext[p] = "bs" /\ At(p + 1) \in LineEnds
         \/ ltext[p] \in LineEnds /\ (At(p - 1) = "bs" \/ (At(p - 1) = "cr" /\ At(p - 2) = "bs"))
         \/ ltext[p] = "$" /\ lexer__is_operator_char(At(p + 1))

\* The lines that end before position p.
EndsBefore(p) == {q \in 1 .. p - 1 : ltext[q] = "nl" \/ (ltext[q] = "cr" /\ At(q + 1) # "nl")}

\* A token's line and column are those of the place it starts at.
LexPlaces ==
  Clean => \A t \in Toks :
    LET ends == EndsBefore(t.at)
        sigil == IF t.type = "WORD" /\ At(t.at - 1) = "$" /\ lexer__is_operator_char(At(t.at)) THEN 1 ELSE 0
    IN /\ t.line = 1 + Cardinality(ends)
       /\ t.col = t.at - sigil - (IF ends = {} THEN 0 ELSE Max(ends))

\* The types of a text's interpolation tokens nest: each part of a string stands between
\* its beginning and its end, each interpolated expression is closed.
Opens == {"STRING_BEGIN", "EXPR_START"}
Nested(ts) ==
  LET Step(st, t) ==
        CASE st = <<"bad">> -> st
          [] t.type \in Opens -> Append(st, t.type)
          [] t.type = "STRING_PART" -> IF st # <<>> /\ Last(st) = "STRING_BEGIN" THEN st ELSE <<"bad">>
          [] t.type = "STRING_END" -> IF st # <<>> /\ Last(st) = "STRING_BEGIN" THEN Front(st) ELSE <<"bad">>
          [] t.type = "EXPR_END" -> IF st # <<>> /\ Last(st) = "EXPR_START" THEN Front(st) ELSE <<"bad">>
          [] OTHER -> st
  IN FoldLeft(Step, <<>>, ts)
LexNested == Clean => Nested(lx.toks) = <<>>

\* The characters of a command's words, blanks outside quotes and brackets separating
\* them: what the words after `!` should be when none of them is an argument of its own.
RECURSIVE SplitWords(_, _, _, _)
SplitWords(t, inq, cur, out) ==
  LET done == IF cur = <<>> THEN out ELSE Append(out, cur)
  IN IF t = <<>> THEN done
     ELSE IF Head(t) = "dq" THEN SplitWords(Tail(t), ~inq, cur, out)
     ELSE IF Head(t) = "sp" /\ ~inq THEN SplitWords(Tail(t), inq, <<>>, done)
     ELSE SplitWords(Tail(t), inq, Append(cur, Head(t)), out)

\* A shell command's words are its text split at the blanks outside quotes, whatever
\* mix of quoted runs each is made of.
ShellWords ==
  (Clean /\ ltext # <<>> /\ Head(ltext) = "!" /\ Range(ltext) \subseteq {"!", "a", "sp", "dq"}
     /\ ~\E p \in DOMAIN ltext : ltext[p] = "dq" /\ At(p + 1) = "dq"
     /\ \A q \in 2 .. Len(ltext) : ltext[q] # "!") =>
    SelectSeq([i \in DOMAIN lx.toks |-> lx.toks[i].text], LAMBDA w : w # <<>>) =
      SplitWords(Tail(ltext), FALSE, <<>>, <<>>)

\* The characters that end a command where they stand outside its words.
Enders == LineEnds \cup {";", "|", "&", "]", "}"}
InComment(p) == \E q \in 2 .. p - 1 : ltext[q] = "#" /\ At(q - 1) \in Blanks \cup Enders /\ LineEnd(q) > p

\* A command of bare words goes on just until a newline, `;`, `|`, `&` or a closer that
\* is not in a comment, and what follows is lexed as usual.
ShellLine ==
  (~lx.done /\ lx.frames = <<>> /\ lx.pos > 1 /\ Head(ltext) = "!" /\ Range(Tail(ltext)) \subseteq Enders \cup {"a", "sp", "#"}) =>
    (lx.sh.mode = 1 <=> \A p \in 2 .. lx.pos - 1 : ltext[p] \in Enders => InComment(p))

\* The `!` after defmacro is part of the macro's name, no command.
MacroBang == (ltext # <<>> /\ Head(ltext) = "m" /\ Cardinality({p \in DOMAIN ltext : ltext[p] = "!"}) = 1) => lx.sh.mode = 0

\* The brackets a command's arguments open are closed before its words go on: at the end
\* of a text whose brackets match, no argument is left open.
ShellCloses ==
  (Clean /\ \A t \in Toks : t.type \notin {"STRING", "STRING_END"}) =>
    LET opens == {i \in DOMAIN lx.toks : lx.toks[i].type \in {"[", "DOLLAR_BRACKET"}}
        closes == {i \in DOMAIN lx.toks : lx.toks[i].type = "]"}
    IN (Cardinality(opens) = Cardinality(closes)
          /\ \A k \in DOMAIN lx.toks :
               Cardinality({i \in closes : i <= k}) <= Cardinality({i \in opens : i <= k}))
       => lx.sh.mode # 2

\* The value a decimal numeral's characters denote.
ValueOf(ds, base, vals) == FoldLeft(LAMBDA n, c : n * base + vals[c], 0, ds)

\* An integer token's value is its numeral's, sign included; one past INT64_MAX carries
\* its digits instead.  A negative one past INT64_MAX is excepted: lexer.c:342 negates
\* the union that holds the pointer to its digits, so that its token has neither a value
\* nor digits, where lexer.c:657-660 and docs/TEMEN_NUMERICS.md:188-193 say that
\* -9223372036854775808 works.
IntsExact ==
  \A t \in Toks : (t.type = "INT" /\ At(t.at + 1) \notin {"x", "b"} /\ At(t.at + 2) \notin {"x", "b"}) =>
    LET neg == At(t.at) = "-"
        ds == Span(t.at + (IF neg THEN 1 ELSE 0), t.at + t.len)
        v == ValueOf(ds, LexTen, DigitVal)
    IN IF t.big THEN v > LexIntMax /\ (~neg => t.text = ds)
       ELSE v <= LexIntMax /\ t.val = (IF neg THEN -v ELSE v)

\* The lines of a triple-quoted string: split, the blank first and last gone, the last
\* one's indent taken off each.
LinesOf(t) ==
  LET nls == {0, Len(t) + 1} \cup {i \in DOMAIN t : t[i] = "nl"}
      ord == SetToSortSeq(nls, LAMBDA x, y : x < y)
  IN [k \in 1 .. Len(ord) - 1 |-> SubSeq(t, ord[k] + 1, ord[k + 1] - 1)]
Lead(l) == CHOOSE n \in 0 .. Len(l) : (\A i \in 1 .. n : l[i] \in Blanks) /\ (n = Len(l) \/ l[n + 1] \notin Blanks)
Dedented(t) ==
  LET ls == LinesOf(t)
      k == Len(Last(ls))
      body == SubSeq(ls, IF Head(ls) = <<>> THEN 2 ELSE 1, Len(ls) - 1)
      cut == [i \in DOMAIN body |-> SubSeq(body[i], 1 + Min({k, Lead(body[i])}), Len(body[i]))]
      Join(r, i) == IF i = 1 THEN cut[1] ELSE r \o <<"nl">> \o cut[i]
  IN IF Len(ls) = 1 \/ k = 0 \/ Lead(Last(ls)) # k THEN t
     ELSE FoldLeft(Join, <<>>, [i \in DOMAIN cut |-> i])

\* A triple-quoted string loses the indent of its closing quotes from every line, and
\* its first and last line when they are blank.
TripleDedented ==
  \A t \in Toks : (t.type = "STRING" /\ t.len >= 6 /\ Span(t.at, t.at + 3) = DQ3
                     /\ \A p \in t.at .. t.at + t.len - 1 : ltext[p] \in {"dq", "nl", "sp", "a"}) =>
    t.text = Dedented(Span(t.at + 3, t.at + t.len - 3))

\* The tokens tile the text, in order and where they say, strings, interpolations and a
\* command's arguments close what opened them, a command ends where its line does, and
\* literals have their value, negative bigints excepted (lexer.c).
LexSound ==
  /\ LexLinear /\ LexTiles /\ LexPlaces /\ LexNested
  /\ ShellWords /\ ShellLine /\ MacroBang /\ ShellCloses /\ IntsExact /\ TripleDedented
=============================================================================
