------------------------------- MODULE Regex -------------------------------
(***************************************************************************)
(* The regular expressions of src/lib/regex/nfa.h: the recursive-descent   *)
(* parser, the compiler to a Thompson NFA, the simulation that follows     *)
(* every state at once over an input that arrives in chunks (a buffer, the *)
(* leaves of a rope, the runs of an rdoc), and the iterator over matches   *)
(* that keeps its place in the input from one call to the next.            *)
(*                                                                         *)
(* A pattern is a sequence of lexemes; an escape or a counted quantifier   *)
(* is one lexeme.  Bytes are scaled down: 0 a newline, 1 any other         *)
(* character that is not a letter, 2 and 3 two capitals, 4 and 5 the same  *)
(* letters in lower case.  Allocation failures are left out.               *)
(***************************************************************************)
EXTENDS Integers, Sequences, FiniteSets, SequencesExt, FiniteSetsExt

CONSTANTS
  RLeaves,  \* lexemes the patterns of a run are built from
  RQuants,  \* quantifiers, "" for none
  RJunk,    \* lexemes of the malformed patterns
  RJunkLen, \* bound: lexemes of a malformed pattern
  RAlpha,   \* bytes of the texts
  RLen      \* bound: bytes of a text

VARIABLES
  ryet,   \* history: the expression the pattern was written for, or RNull
  rpat,   \* the pattern
  rxText,  \* the input: its bytes and where its chunks end
  rprog,  \* what nfa_compile_pattern returned
  riter,  \* nfa_iter: pos, done and the cursor it caches
  rfound  \* history: the scan position and the result of each call

regexVars == <<ryet, rpat, rxText, rprog, riter, rfound>>

NL == 0
MaxByte == 5
Upper == 2 .. 3
Lower == 4 .. 5
Shift == 2
CodeOf(l) == CASE l = "nl" -> NL [] l = "A" -> 2 [] l = "B" -> 3 [] l = "a" -> 4 [] l = "b" -> 5 [] OTHER -> 1
_nfa_is_alpha(b) == b \in Upper \cup Lower
_nfa_is_word_char(b) == b \in Upper \cup Lower \* no digit and no underscore in this alphabet
OtherCase(b) == IF b \in Lower THEN b - Shift ELSE b + Shift

-----------------------------------------------------------------------------
(* Trees *)

RNull == [k |-> "null"]
nfa_ast_literal(b, ic) == [k |-> "lit", b |-> b, ic |-> ic]
nfa_ast_dot(all) == [k |-> "dot", all |-> all]
nfa_ast_anchor(at) == [k |-> "anchor", at |-> at]
nfa_ast_char_class(rs, neg, ic) == [k |-> "class", rs |-> rs, neg |-> neg, ic |-> ic]
nfa_ast_concat(es) == [k |-> "concat", es |-> es]
nfa_ast_alt(es) == [k |-> "alt", es |-> es]
nfa_ast_repeat(e, mn, mx, g) == [k |-> "repeat", e |-> e, mn |-> mn, mx |-> mx, g |-> g]
nfa_ast_group(e, i) == [k |-> "group", e |-> e, i |-> i]

_nfa_add_shorthand == <<<<2, 3>>, <<4, 5>>>> \* \w
NotShorthand == <<<<0, 1>>>>                 \* what \W adds inside a class

Unbounded == -1
Counts(q) ==
  CASE q = "*" -> <<0, Unbounded>> [] q = "+" -> <<1, Unbounded>> [] q = "?" -> <<0, 1>>
    [] q = "{2}" -> <<2, 2>> [] q = "{0,0}" -> <<0, 0>> [] q = "{1,2}" -> <<1, 2>>
    [] q = "{0,2}" -> <<0, 2>> [] q = "{2,}" -> <<2, Unbounded>> [] q = "{0,}" -> <<0, Unbounded>>
    [] q = "{2,1}" -> <<2, 1>>
RxCounted == {"{2}", "{0,0}", "{1,2}", "{0,2}", "{2,}", "{0,}", "{2,1}"}
Marks == {"*", "+", "?"}

-----------------------------------------------------------------------------
(* The parser: pattern, position, groups so far, error and flags *)

Peek(p) == IF p.pos > Len(p.s) THEN "end" ELSE p.s[p.pos]
Adv(p) == [p EXCEPT !.pos = @ + 1]
Out(p, n) == [p |-> p, n |-> n]
Fail(p, e) == Out([p EXCEPT !.err = e], RNull)

\* The lazy mark after a quantifier.
Quantified(p, e) ==
  LET c == Counts(Peek(p))
      q == Adv(p)
      lazy == Peek(q) = "?"
  IN Out(IF lazy THEN Adv(q) ELSE q, nfa_ast_repeat(e, c[1], c[2], ~lazy))

\* The members of a class up to its ']', which is a member when it comes first.
RECURSIVE _nfa_parse_char_class(_, _, _, _)
_nfa_parse_char_class(p, neg, rs, first) ==
  LET c == Peek(p)
      q == Adv(p)
      ranged == Peek(q) = "-" /\ q.pos < Len(q.s) /\ q.s[q.pos + 1] # "]"
  IN CASE c = "end" -> Fail(p, "lbracket")
       [] c = "]" /\ ~first -> Out(q, nfa_ast_char_class(rs, neg, p.ic))
       [] c = "%" /\ Peek(q) = "end" -> Fail(q, "backslash")
       [] c = "%w" -> _nfa_parse_char_class(q, neg, rs \o _nfa_add_shorthand, FALSE)
       [] c = "%W" -> _nfa_parse_char_class(q, neg, rs \o NotShorthand, FALSE)
       [] OTHER ->
            IF ranged
            THEN _nfa_parse_char_class(Adv(Adv(q)), neg, Append(rs, <<CodeOf(c), CodeOf(q.s[q.pos + 1])>>), FALSE)
            ELSE _nfa_parse_char_class(q, neg, Append(rs, <<CodeOf(c), CodeOf(c)>>), FALSE)

RECURSIVE _nfa_parse_regex(_), _nfa_parse_concat(_, _), Branches(_, _), _nfa_parse_atom(_)

\* The branches after the one f parsed.
AfterBranch(f, es) == IF f.p.err # "" THEN Fail(f.p, f.p.err) ELSE Branches(f.p, Append(es, f.n))
_nfa_parse_regex(p) == AfterBranch(_nfa_parse_concat(p, <<>>), <<>>)

Branches(p, es) ==
  IF Peek(p) # "|" THEN Out(p, IF Len(es) = 1 THEN es[1] ELSE nfa_ast_alt(es))
  ELSE AfterBranch(_nfa_parse_concat(Adv(p), <<>>), es)

\* The quantifier after the atom a.
QuantifierOn(a) ==
  LET c == Peek(a.p)
  IN IF a.p.err # "" \/ a.n.k = "null" THEN a
     ELSE IF c \in RxCounted /\ Counts(c)[2] # Unbounded /\ Counts(c)[2] < Counts(c)[1] THEN Fail(Adv(a.p), "range")
     ELSE IF c \in Marks \cup RxCounted THEN Quantified(a.p, a.n)
     ELSE a
_nfa_parse_repeat(p) == QuantifierOn(_nfa_parse_atom(p))

\* A part without an atom, as at a quantifier with nothing before it, ends
\* the concatenation without an error.
ConcatOf(es) == IF Len(es) = 1 THEN es[1] ELSE nfa_ast_concat(es)
AfterPart(f, es) ==
  IF f.p.err # "" THEN Fail(f.p, f.p.err)
  ELSE IF f.n.k = "null" THEN Out(f.p, ConcatOf(es))
  ELSE _nfa_parse_concat(f.p, Append(es, f.n))
_nfa_parse_concat(p, es) ==
  IF Peek(p) \in {"end", "|", ")"} THEN Out(p, ConcatOf(es)) ELSE AfterPart(_nfa_parse_repeat(p), es)

\* What stands in the parentheses must end at a ')'; back is where the parser goes on.
Closed(f, back, n) ==
  IF f.p.err # "" THEN Fail(back, f.p.err)
  ELSE IF Peek(f.p) # ")" THEN Fail(back, "lparen")
  ELSE Out(Adv(back), n)

\* (?:...) and (?i:...): the flags hold inside and are restored after it.
Unscoped(p, f) == Closed(f, [f.p EXCEPT !.ic = p.ic, !.all = p.all], f.n)
Scoped(p) ==
  Unscoped(p, _nfa_parse_regex([Adv(p) EXCEPT !.ic = @ \/ Peek(p) = "(?i:", !.all = @ \/ Peek(p) = "(?s:"]))

Captured(p, f) == Closed(f, f.p, nfa_ast_group(f.n, p.groups))
Capturing(p) == Captured(p, _nfa_parse_regex([Adv(p) EXCEPT !.groups = @ + 1]))

_nfa_parse_atom(p) ==
  LET c == Peek(p)
      q == Adv(p)
  IN CASE c = "(" /\ Peek(q) = "?" -> Fail(q, IF q.pos < Len(q.s) THEN "group" ELSE "lparen")
       [] c = "(" /\ Peek(q) # "?" -> Capturing(p)
       [] c \in {"(?:", "(?i:", "(?s:"} -> Scoped(p)
       [] c = "(?i)" -> Out([q EXCEPT !.ic = TRUE], nfa_ast_concat(<<>>))
       [] c \in {"end", ")", "|"} \cup Marks -> Out(p, RNull)
       [] c = "." -> Out(q, nfa_ast_dot(p.all))
       [] c \in {"^", "$", "%b", "%B"} -> Out(q, nfa_ast_anchor(c))
       [] c = "[" -> IF Peek(q) = "^" THEN _nfa_parse_char_class(Adv(q), TRUE, <<>>, TRUE)
                     ELSE _nfa_parse_char_class(q, FALSE, <<>>, TRUE)
       [] c = "%" -> Fail(q, IF Peek(q) = "end" THEN "backslash" ELSE "escape")
       [] c \in {"%w", "%W"} -> Out(q, nfa_ast_char_class(_nfa_add_shorthand, c = "%W", p.ic))
       [] OTHER -> Out(q, nfa_ast_literal(CodeOf(c), p.ic))

\* Only an unmatched ')' of what is left over is an error.
MutParse(s) == _nfa_parse_regex([s |-> s, pos |-> 1, groups |-> 0, err |-> "", ic |-> FALSE, all |-> FALSE])
Unmatched(f) == IF f.p.err = "" /\ Peek(f.p) = ")" THEN Fail(f.p, "rparen") ELSE f
nfa_parse(s) ==
  Unmatched(_nfa_parse_regex([s |-> s, pos |-> 1, groups |-> 0, err |-> "", ic |-> FALSE, all |-> FALSE]))

-----------------------------------------------------------------------------
(* The compiler.  A fragment is the code so far, an entry and the exits     *)
(* still to be patched, each an instruction and which of its two outs.      *)

Inst(op, arg) == [op |-> op, arg |-> arg, out |-> 0, out1 |-> 0]
_nfa_emit_inst(c, op, arg) == Append(c, Inst(op, arg))
RxFrag(c, start, outs) == [c |-> c, start |-> start, outs |-> outs]
_nfa_frag_patch(c, outs, t) ==
  [i \in DOMAIN c |-> [c[i] EXCEPT !.out = IF <<i, 0>> \in outs THEN t ELSE @,
                                   !.out1 = IF <<i, 1>> \in outs THEN t ELSE @]]
Single(c, op, arg) == RxFrag(_nfa_emit_inst(c, op, arg), Len(c) + 1, {<<Len(c) + 1, 0>>})

RECURSIVE _nfa_count_groups(_), _nfa_all_greedy(_)
_nfa_count_groups(e) ==
  CASE e.k = "group" -> Max({e.i + 1, _nfa_count_groups(e.e)})
    [] e.k \in {"concat", "alt"} -> Max({0} \cup {_nfa_count_groups(e.es[i]) : i \in DOMAIN e.es})
    [] e.k = "repeat" -> _nfa_count_groups(e.e)
    [] OTHER -> 0
_nfa_all_greedy(e) ==
  CASE e.k = "repeat" -> e.g /\ _nfa_all_greedy(e.e)
    [] e.k \in {"concat", "alt"} -> \A i \in DOMAIN e.es : _nfa_all_greedy(e.es[i])
    [] e.k = "group" -> _nfa_all_greedy(e.e)
    [] OTHER -> TRUE

Clip(r, s) == <<Max({r[1], Min(s)}), Min({r[2], Max(s)})>>
Meets(r, s) == r[1] <= Max(s) /\ r[2] >= Min(s)
_nfa_icase_expand(rs) ==
  FoldLeft(LAMBDA acc, r :
             Append(acc, r)
               \o (IF Meets(r, Lower) THEN <<<<Clip(r, Lower)[1] - Shift, Clip(r, Lower)[2] - Shift>>>> ELSE <<>>)
               \o (IF Meets(r, Upper) THEN <<<<Clip(r, Upper)[1] + Shift, Clip(r, Upper)[2] + Shift>>>> ELSE <<>>),
           <<>>, rs)

\* Sort by lower end, merge what overlaps or touches, invert.
Merged(rs) ==
  FoldLeft(LAMBDA acc, r :
             IF acc # <<>> /\ r[1] <= Last(acc)[2] + 1
             THEN Append(Front(acc), <<Last(acc)[1], Max({Last(acc)[2], r[2]})>>)
             ELSE Append(acc, r),
           <<>>, SortSeq(rs, LAMBDA x, y : x[1] < y[1]))
_nfa_complement_ranges(rs) ==
  LET gaps == FoldLeft(LAMBDA acc, r : [prev |-> r[2] + 1,
                                        out |-> IF r[1] > acc.prev THEN Append(acc.out, <<acc.prev, r[1] - 1>>) ELSE acc.out],
                       [prev |-> 0, out |-> <<>>], Merged(rs))
  IN IF gaps.prev <= MaxByte THEN Append(gaps.out, <<gaps.prev, MaxByte>>) ELSE gaps.out

ClassRanges(e) ==
  LET rs == IF e.ic THEN _nfa_icase_expand(e.rs) ELSE e.rs
  IN IF e.neg THEN _nfa_complement_ranges(rs) ELSE rs

\* SPLIT whose first choice is the body when the quantifier is greedy.
Choice(g, body) == [Inst("SPLIT", <<>>) EXCEPT !.out = IF g THEN body ELSE 0, !.out1 = IF g THEN 0 ELSE body]
ExitOf(i, g) == {<<i, IF g THEN 1 ELSE 0>>}

\* What follows a compiled body b of a node.
Joined(f, n) == RxFrag(_nfa_frag_patch(n.c, f.outs, n.start), f.start, n.outs)

SplitAmong(fs) ==
  LET k == Len(fs)
      base == Len(Last(fs).c)
      splits == [i \in 1 .. k - 1 |-> [Inst("SPLIT", <<>>) EXCEPT !.out = fs[i].start,
                   !.out1 = IF i < k - 1 THEN base + i + 1 ELSE fs[k].start]]
  IN RxFrag(Last(fs).c \o splits, base + 1, UNION {fs[i].outs : i \in 1 .. k})

\* The loop of a star after a fragment that leads into it, or with none.
Looped(b, e, before, start) ==
  LET s == Len(b.c) + 1
      code == b.c \o <<Choice(e.g, b.start), [Inst("JMP", <<>>) EXCEPT !.out = s]>>
  IN RxFrag(_nfa_frag_patch(_nfa_frag_patch(code, b.outs, s + 1), before, s), IF before = {} THEN s ELSE start, ExitOf(s, e.g))

Plus(b, e) ==
  LET s == Len(b.c) + 1
  IN RxFrag(_nfa_frag_patch(Append(b.c, Choice(e.g, b.start)), b.outs, s), b.start, ExitOf(s, e.g))

Optional(b, e) ==
  LET s == Len(b.c) + 1
  IN RxFrag(Append(b.c, Choice(e.g, b.start)), s, b.outs \cup ExitOf(s, e.g))

\* One more copy behind a SPLIT that may leave.
OneMore(f, b, e) ==
  LET s == Len(f.c) + 1
  IN RxFrag(_nfa_frag_patch(_nfa_frag_patch(b.c, ExitOf(s, ~e.g), b.start), f.outs, s),
            IF f.start = 0 THEN s ELSE f.start, b.outs)

\* Mutant: the body's exits miss the closing SAVE.
MutGrouped(c, b, e) ==
  RxFrag(_nfa_frag_patch(_nfa_emit_inst(b.c, "SAVE", 2 * e.i + 1), {<<Len(c) + 1, 0>>}, b.start), Len(c) + 1, b.outs)
Grouped(c, b, e) ==
  LET close == Len(b.c) + 1
      code == _nfa_frag_patch(_nfa_emit_inst(b.c, "SAVE", 2 * e.i + 1), b.outs, close)
  IN RxFrag(_nfa_frag_patch(code, {<<Len(c) + 1, 0>>}, b.start), Len(c) + 1, {<<close, 0>>})

RECURSIVE _nfa_compile_node(_, _), CompileSeq(_, _), CompileAlts(_, _, _), Optionals(_, _, _, _)

CompileSeq(f, es) ==
  IF es = <<>> THEN f ELSE CompileSeq(Joined(f, _nfa_compile_node(f.c, Head(es))), Tail(es))

AltAfter(f, es, fs) == CompileAlts(f.c, es, Append(fs, f))
CompileAlts(c, es, fs) ==
  IF es = <<>> THEN fs ELSE AltAfter(_nfa_compile_node(c, Head(es)), Tail(es), fs)

Loop(m, e) == Looped(_nfa_compile_node(m.c, e.e), e, m.outs, m.start)

\* n more copies.
Optionals(f, e, n, exits) ==
  IF n = 0 THEN RxFrag(f.c, f.start, exits \cup f.outs)
  ELSE Optionals(OneMore(f, _nfa_compile_node(Append(f.c, Inst("SPLIT", <<>>)), e.e), e), e, n - 1,
                 exits \cup ExitOf(Len(f.c) + 1, e.g))

Copies(c, e) ==
  IF e.mn = 0 THEN RxFrag(c, 0, {})
  ELSE CompileSeq(_nfa_compile_node(c, e.e), [i \in 1 .. e.mn - 1 |-> e.e])

Repeat(c, e) ==
  CASE e.mn # 1 /\ e.mx = Unbounded -> Loop(Copies(c, e), e)
    [] e.mn = 1 /\ e.mx = Unbounded -> Plus(_nfa_compile_node(c, e.e), e)
    [] e.mn = 0 /\ e.mx = 1 -> Optional(_nfa_compile_node(c, e.e), e)
    [] e.mx = 0 -> Single(c, "JMP", <<>>)
    [] OTHER -> Optionals(Copies(c, e), e, e.mx - e.mn, {})

Group(c, e) == Grouped(c, _nfa_compile_node(_nfa_emit_inst(c, "SAVE", 2 * e.i), e.e), e)

Literal(c, e) ==
  LET s == Len(c) + 1
      lo == IF e.b \in Lower THEN e.b ELSE OtherCase(e.b)
  IN IF e.ic /\ _nfa_is_alpha(e.b)
     THEN RxFrag(c \o <<[Inst("SPLIT", <<>>) EXCEPT !.out = s + 1, !.out1 = s + 2],
                      Inst("CLASS", <<<<lo, lo>>>>), Inst("CLASS", <<<<OtherCase(lo), OtherCase(lo)>>>>)>>,
               s, {<<s + 1, 0>>, <<s + 2, 0>>})
     ELSE Single(c, "CLASS", <<<<e.b, e.b>>>>)

\* LITERAL and RANGE are CLASS instructions of one range here.
_nfa_compile_node(c, e) ==
  CASE e.k = "lit" -> Literal(c, e)
    [] e.k = "dot" -> Single(c, IF e.all THEN "ANY_ALL" ELSE "ANY", <<>>)
    [] e.k = "anchor" -> Single(c, e.at, <<>>)
    [] e.k = "class" -> Single(c, "CLASS", ClassRanges(e))
    [] e.k = "concat" -> IF e.es = <<>> THEN Single(c, "JMP", <<>>)
                         ELSE CompileSeq(_nfa_compile_node(c, Head(e.es)), Tail(e.es))
    [] e.k = "alt" -> SplitAmong(CompileAlts(c, e.es, <<>>))
    [] e.k = "repeat" -> Repeat(c, e)
    [] e.k = "group" -> Group(c, e)

Admits(i, b) ==
  CASE i.op = "CLASS" -> \E k \in DOMAIN i.arg : i.arg[k][1] <= b /\ b <= i.arg[k][2]
    [] i.op = "ANY" -> b # NL
    [] i.op = "ANY_ALL" -> TRUE
    [] OTHER -> FALSE
Through == {"JMP", "SAVE", "^", "$", "%b", "%B"}

\* The instructions that the start reaches without a byte.
RECURSIVE Reaches(_, _)
Reaches(code, S) ==
  LET more == S \cup UNION {{code[i].out} \cup (IF code[i].op = "SPLIT" THEN {code[i].out1} ELSE {}) :
                            i \in {j \in S : code[j].op \in Through \cup {"SPLIT"}}}
  IN IF more = S THEN S ELSE Reaches(code, more)
FirstOf(code, R) ==
  [first |-> {b \in 0 .. MaxByte : \E i \in R : Admits(code[i], b)},
   empty |-> \E i \in R : code[i].op = "MATCH"]
_nfa_compute_first_set(code, start) == FirstOf(code, Reaches(code, {start}))

Finished(f) == _nfa_frag_patch(_nfa_emit_inst(f.c, "MATCH", <<>>), f.outs, Len(f.c) + 1)
Program(r, code, start, fs) ==
  [ok |-> TRUE, read |-> r.p.pos - 1, code |-> code, start |-> start, ncap |-> 2 * _nfa_count_groups(r.n),
   greedy |-> _nfa_all_greedy(r.n), first |-> fs.first, empty |-> fs.empty]
ProgramOf(r, code, start) == Program(r, code, start, _nfa_compute_first_set(code, start))
Compiled(r, f) == ProgramOf(r, Finished(f), f.start)
CompileParsed(r) ==
  IF r.p.err # "" THEN [ok |-> FALSE, err |-> r.p.err] ELSE Compiled(r, _nfa_compile_node(<<>>, r.n))
nfa_compile_pattern(s) == CompileParsed(nfa_parse(s))

-----------------------------------------------------------------------------
(* The simulation.  A cursor is a position, the end of the chunk it is in   *)
(* and the byte before it.                                                  *)

NoByte == -1
Unset == -1

\* The end of the chunk after one that ends at lim; the same at the end.
next_chunk(t, lim) == IF lim >= Len(t.s) THEN lim ELSE Min({e \in t.ends : e > lim})
ChunkAt(t, pos) == IF pos >= Len(t.s) THEN Len(t.s) ELSE Min({e \in t.ends : e > pos})
_nfa_cursor_init(t, from) ==
  [sp |-> from, lim |-> ChunkAt(t, from), prev |-> IF from > 0 THEN t.s[from] ELSE NoByte]

RECURSIVE _nfa_addstate(_, _, _, _, _)
\* l: threads and the instructions seen; th: start and captures; x: the anchors' context.
_nfa_addstate(l, code, pc, th, x) ==
  LET i == code[pc]
      l1 == [l EXCEPT !.seen = @ \cup {pc}]
      pass == CASE i.op = "^" -> x.bol [] i.op = "$" -> x.eol [] i.op = "%b" -> x.wb [] i.op = "%B" -> ~x.wb [] OTHER -> TRUE
  IN IF pc \in l.seen THEN l
     ELSE IF i.op = "SPLIT" THEN _nfa_addstate(_nfa_addstate(l1, code, i.out, th, x), code, i.out1, th, x)
     ELSE IF i.op = "SAVE" THEN _nfa_addstate(l1, code, i.out, [th EXCEPT !.caps[i.arg] = x.sp], x)
     ELSE IF i.op \in Through THEN (IF pass THEN _nfa_addstate(l1, code, i.out, th, x) ELSE l1)
     ELSE [l1 EXCEPT !.ths = Append(@, [pc |-> pc, start |-> th.start, caps |-> th.caps])]

Context(t, c, atEnd) ==
  LET pw == c.prev # NoByte /\ _nfa_is_word_char(c.prev)
      cw == ~atEnd /\ _nfa_is_word_char(t.s[c.sp + 1])
  IN [sp |-> c.sp, bol |-> c.prev \in {NoByte, NL}, eol |-> atEnd \/ t.s[c.sp + 1] = NL, wb |-> pw # cw]

\* The threads carried over first, the new one last: an earlier start keeps
\* the instructions it reaches.
MutThreads(g, pend, m, x) ==
  LET fresh == [start |-> x.sp, caps |-> [k \in 0 .. g.ncap - 1 |-> Unset]]
      l0 == [ths |-> <<>>, seen |-> {}]
      l1 == IF m.ok THEN l0 ELSE _nfa_addstate(l0, g.code, g.start, fresh, x)
  IN FoldLeft(LAMBDA l, th : _nfa_addstate(l, g.code, th.pc, th, x), l1, pend).ths
Threads(g, pend, m, x) ==
  LET carried == FoldLeft(LAMBDA l, th : _nfa_addstate(l, g.code, th.pc, th, x), [ths |-> <<>>, seen |-> {}], pend)
      fresh == [start |-> x.sp, caps |-> [k \in 0 .. g.ncap - 1 |-> Unset]]
  IN (IF m.ok THEN carried ELSE _nfa_addstate(carried, g.code, g.start, fresh, x)).ths

Better(g, m, th, sp) == ~m.ok \/ th.start < m.s \/ (th.start = m.s /\ sp > m.e /\ g.greedy)
BestOf(g, ths, m, sp) ==
  FoldLeft(LAMBDA b, th : IF g.code[th.pc].op = "MATCH" /\ Better(g, b, th, sp)
                          THEN [ok |-> TRUE, s |-> th.start, e |-> sp, caps |-> th.caps] ELSE b, m, ths)

\* The first position from c on whose byte can begin a match.
RECURSIVE Prefiltered(_, _, _)
Prefiltered(g, t, c) ==
  IF c.sp >= Len(t.s) \/ t.s[c.sp + 1] \in g.first THEN c
  ELSE LET c1 == [c EXCEPT !.sp = @ + 1, !.prev = t.s[c.sp + 1]]
       IN Prefiltered(g, t, IF c1.sp >= c1.lim THEN [c1 EXCEPT !.lim = next_chunk(t, @)] ELSE c1)

RECURSIVE _nfa_exec_core(_, _, _, _, _)
_nfa_exec_core(g, t, c, pend, m) ==
  LET c1 == IF c.sp >= c.lim THEN [c EXCEPT !.lim = next_chunk(t, @)] ELSE c
      c2 == IF pend = <<>> /\ ~m.ok /\ ~g.empty THEN Prefiltered(g, t, c1) ELSE c1
      atEnd == c2.sp >= c2.lim
      ths == Threads(g, pend, m, Context(t, c2, atEnd))
      best == BestOf(g, ths, m, c2.sp)
      b == t.s[c2.sp + 1]
      live == SelectSeq(ths, LAMBDA th : Admits(g.code[th.pc], b))
      next == [i \in DOMAIN live |-> [live[i] EXCEPT !.pc = g.code[@].out]]
  IN IF atEnd \/ (best.ok /\ next = <<>>) THEN [m |-> best, c |-> c2]
     ELSE _nfa_exec_core(g, t, [c2 EXCEPT !.sp = @ + 1, !.prev = b], next, best)

NoMatch == [ok |-> FALSE, s |-> 0, e |-> 0, caps |-> <<>>]

-----------------------------------------------------------------------------
(* The patterns and texts of a run *)

RECURSIVE Written(_)
\* The lexemes an expression is written with.
Written(e) ==
  CASE e.k = "leaf" -> e.w
    [] e.k = "concat" -> FoldLeft(LAMBDA a, x : a \o Written(x), <<>>, e.es)
    [] e.k = "alt" -> FoldLeft(LAMBDA a, x : a \o <<"|">> \o Written(x), Written(e.es[1]), Tail(e.es))
    [] e.k = "repeat" -> Written(e.e) \o e.w
    [] e.k = "group" -> <<"(">> \o Written(e.e) \o <<")">>

Leaf(l) ==
  LET one(w, on, at) == [k |-> "leaf", w |-> w, on |-> on, at |-> at]
  IN CASE l \in {"a", "b", "A", "nl"} -> one(<<l>>, {CodeOf(l)}, "")
       [] l = "." -> one(<<".">>, 0 .. MaxByte \ {NL}, "")
       [] l \in {"^", "$", "%b", "%B"} -> one(<<l>>, {}, l)
       [] l = "%W" -> one(<<l>>, {0, 1}, "")
       [] l = "[^a]" -> one(<<"[", "^", "a", "]">>, 0 .. MaxByte \ {4}, "")
       [] l = "[A-a]" -> one(<<"[", "A", "-", "a", "]">>, 2 .. 4, "")
       [] l = "[]b-A]" -> one(<<"[", "]", "b", "-", "A", "%W", "]">>, {0, 1}, "")
       [] l = "(?i:a)" -> one(<<"(?i:", "a", ")">>, {2, 4}, "")
       [] l = "(?i:[^a])" -> one(<<"(?i:", "[", "^", "a", "]", ")">>, {0, 1, 3, 5}, "")
       [] l = "(?s:.)" -> one(<<"(?s:", ".", ")">>, 0 .. MaxByte, "")

LazyOf(q) == CASE q = "*?" -> "*" [] q = "{1,2}?" -> "{1,2}" [] OTHER -> q
Some(e, q) ==
  IF q = "" THEN e
  ELSE [k |-> "repeat", e |-> e, w |-> IF LazyOf(q) = q THEN <<q>> ELSE <<LazyOf(q), "?">>,
        mn |-> Counts(LazyOf(q))[1], mx |-> Counts(LazyOf(q))[2], g |-> LazyOf(q) = q]
Capture(e, i) == [k |-> "group", e |-> e, i |-> i]

RLeafs == {Leaf(l) : l \in RLeaves}
\* x q y, (x|yz)q and ((x)q|y)z, for leaves x, y, z and a quantifier q.
Expressions ==
  {nfa_ast_concat(<<Some(x, q), y>>) : x \in RLeafs, y \in RLeafs, q \in RQuants}
    \cup {Some(Capture(nfa_ast_alt(<<x, nfa_ast_concat(<<y, Leaf("a")>>)>>), 0), q) : x \in RLeafs, y \in RLeafs, q \in RQuants}
    \cup {nfa_ast_concat(<<Capture(nfa_ast_alt(<<Some(Capture(x, 1), q), y>>), 0), Leaf("a")>>) :
          x \in RLeafs, y \in RLeafs, q \in RQuants}

RTexts == UNION {[1 .. n -> RAlpha] : n \in 0 .. RLen}
\* A text comes in one chunk or in chunks of one byte.
Chunked(s) == {[s |-> s, ends |-> {Len(s)}], [s |-> s, ends |-> 1 .. Len(s) \cup {Len(s)}]}

-----------------------------------------------------------------------------
(* The machine *)

Iter0 == [pos |-> 0, done |-> FALSE, cached |-> FALSE, cur |-> [sp |-> 0, lim |-> 0, prev |-> NoByte]]

RegexInit ==
  /\ \/ /\ ryet \in Expressions
        /\ rpat = Written(ryet)
        /\ \E s \in RTexts : rxText \in Chunked(s)
     \/ /\ ryet = RNull
        /\ \E n \in 1 .. RJunkLen : rpat \in [1 .. n -> RJunk]
        /\ rxText = [s |-> <<>>, ends |-> {0}]
  /\ rprog = RNull
  /\ riter = Iter0
  /\ rfound = <<>>

RegexCompile ==
  /\ rprog = RNull
  /\ rprog' = nfa_compile_pattern(rpat)
  /\ UNCHANGED <<ryet, rpat, rxText, riter, rfound>>

\* nfa_iter_next: the cached cursor serves when it stands where the scan goes on.
IterCursor == IF riter.cached /\ riter.cur.sp = riter.pos THEN riter.cur ELSE _nfa_cursor_init(rxText, riter.pos)
Yielded(r) ==
  /\ rfound' = Append(rfound, [from |-> riter.pos, m |-> r.m])
  /\ riter' = [pos |-> IF ~r.m.ok THEN riter.pos ELSE IF r.m.e > r.m.s THEN r.m.e ELSE r.m.e + 1,
               done |-> ~r.m.ok, cached |-> TRUE, cur |-> r.c]
nfa_iter_next ==
  /\ rprog # RNull /\ rprog.ok /\ ryet # RNull
  /\ ~riter.done
  /\ IF riter.pos > Len(rxText.s)
     THEN riter' = [riter EXCEPT !.done = TRUE] /\ UNCHANGED rfound
     ELSE Yielded(_nfa_exec_core(rprog, rxText, IterCursor, <<>>, NoMatch))
  /\ UNCHANGED <<ryet, rpat, rxText, rprog>>

RegexNext == RegexCompile \/ nfa_iter_next
RegexSpec == RegexInit /\ [][RegexNext]_regexVars

-----------------------------------------------------------------------------
(* What a pattern means: the ends of its matches from a position *)

Holds(at, s, i) ==
  LET word(j) == j \in 1 .. Len(s) /\ _nfa_is_word_char(s[j])
  IN CASE at = "^" -> i = 0 \/ s[i] = NL
       [] at = "$" -> i = Len(s) \/ s[i + 1] = NL
       [] at = "%b" -> word(i) # word(i + 1)
       [] at = "%B" -> word(i) = word(i + 1)

RECURSIVE RxEnds(_, _, _), EndsSeq(_, _, _), EndsStar(_, _, _)
EndsSeq(es, s, I) == IF es = <<>> THEN I ELSE EndsSeq(Tail(es), s, UNION {RxEnds(Head(es), s, i) : i \in I})
EndsStar(e, s, I) == LET J == I \cup UNION {RxEnds(e, s, i) : i \in I} IN IF J = I THEN I ELSE EndsStar(e, s, J)
RxEnds(e, s, i) ==
  CASE e.k = "leaf" -> IF e.at # "" THEN (IF Holds(e.at, s, i) THEN {i} ELSE {})
                       ELSE IF i < Len(s) /\ s[i + 1] \in e.on THEN {i + 1} ELSE {}
    [] e.k = "concat" -> EndsSeq(e.es, s, {i})
    [] e.k = "alt" -> UNION {RxEnds(e.es[j], s, i) : j \in DOMAIN e.es}
    [] e.k = "group" -> RxEnds(e.e, s, i)
    [] e.k = "repeat" ->
         LET most == IF e.mx = Unbounded THEN e.mn ELSE e.mx
             some == UNION {EndsSeq([k \in 1 .. n |-> e.e], s, {i}) : n \in e.mn .. most}
         IN IF e.mx = Unbounded THEN EndsStar(e.e, s, some) ELSE some

RECURSIVE Eager(_), GroupOf(_, _)
Eager(e) == CASE e.k = "repeat" -> e.g /\ Eager(e.e) [] e.k = "group" -> Eager(e.e)
              [] e.k \in {"concat", "alt"} -> \A j \in DOMAIN e.es : Eager(e.es[j]) [] OTHER -> TRUE
\* The expressions of group i.
GroupOf(e, i) ==
  CASE e.k = "group" -> (IF e.i = i THEN {e.e} ELSE {}) \cup GroupOf(e.e, i)
    [] e.k = "repeat" -> GroupOf(e.e, i)
    [] e.k \in {"concat", "alt"} -> UNION {GroupOf(e.es[j], i) : j \in DOMAIN e.es}
    [] OTHER -> {}

Expected(e, s, from) ==
  LET starts == {i \in from .. Len(s) : RxEnds(e, s, i) # {}}
  IN IF starts = {} THEN <<>>
     ELSE LET i == Min(starts) IN <<i, IF Eager(e) THEN Max(RxEnds(e, s, i)) ELSE Min(RxEnds(e, s, i))>>

\* Every match the iterator returns is the leftmost one from where it stood
\* and, unless a quantifier is lazy, the longest; with a lazy one anywhere it
\* is the shortest; it ends only where nothing more matches.  This is what
\* _nfa_exec_core says of itself, through the parser, the compiler, the
\* first-byte filter, the chunks and the cached cursor of nfa_iter_next.
LeftmostMatch ==
  ryet # RNull =>
    /\ rprog # RNull => rprog.ok /\ rprog.read = Len(rpat)
    /\ \A k \in DOMAIN rfound :
         LET want == Expected(ryet, rxText.s, rfound[k].from)
             m == rfound[k].m
         IN IF m.ok THEN want = <<m.s, m.e>> ELSE want = <<>>

\* What a group captured lies in the match and is something the group
\* matches there, although threads that reach one instruction are merged:
\* the SAVE instructions of _nfa_addstate keep captures apart.
CapturesSound ==
  \A k \in DOMAIN rfound :
    LET m == rfound[k].m
    IN m.ok => \A i \in 0 .. rprog.ncap \div 2 - 1 :
         LET o == m.caps[2 * i]
             c == m.caps[2 * i + 1]
         IN IF o = Unset THEN c = Unset
            ELSE m.s <= o /\ o <= c /\ c <= m.e /\ \E e \in GroupOf(ryet, i) : c \in RxEnds(e, rxText.s, o)

Opens == {"(", "(?:", "(?i:", "(?s:"}
Depth(s) == Cardinality({i \in DOMAIN s : s[i] \in Opens}) - Cardinality({i \in DOMAIN s : s[i] = ")"})
\* A pattern that nfa_compile_pattern accepts was read up to its end or to a
\* quantifier with nothing to repeat, and the brackets of what was read match
\* at every point.  What follows such a quantifier is not looked at: "a|*(" is
\* accepted as "a|" (nfa.h:833 ends the concatenation without an error).
AcceptedIsBalanced ==
  (rprog # RNull /\ rprog.ok) =>
    LET r == SubSeq(rpat, 1, rprog.read)
    IN /\ rprog.read = Len(rpat) \/ rpat[rprog.read + 1] \in Marks
       /\ Depth(r) = 0
       /\ \A n \in DOMAIN r : Depth(SubSeq(r, 1, n)) >= 0

\* The match is the leftmost one the pattern's language has, also across chunks, with
\* sound captures, and what was read of an accepted pattern is balanced (nfa.h).
RegexSound == LeftmostMatch /\ CapturesSound /\ AcceptedIsBalanced
=============================================================================
