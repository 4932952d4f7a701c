------------------------------- MODULE Parser -------------------------------
(* src/parser.c: tokens to a tree, with panic-mode recovery.  A token is its *)
(* kind; "w", "u" and "ds" are words, ds being the retired defstruct.  A node *)
(* is its kind, its first and last token and its parts in the order of the   *)
(* text.  One step parses one top-level item; the last one validates the     *)
(* use declarations.                                                          *)
EXTENDS Integers, Sequences, FiniteSets, SequencesExt, FiniteSetsExt

CONSTANTS
  DEFSTRUCT_MAX_FIELDS,  \* fields of a struct: 64
  DEFMACRO_MAX_PARAMS,   \* parameters of a macro: 32
  InlineRoom,            \* words an inline struct type has room for: of 512 bytes
  ParseLen               \* length of the token texts over each alphabet

VARIABLES
  ptoks,     \* the tokens
  pst,       \* position, errors, syntax-quote depth
  pitems,    \* top-level nodes
  pstage     \* "items" or "done"

parserVars == <<ptoks, pst, pitems, pstage>>

Words == {"w", "u", "ds"}
Strs == {"s", "t"}
Keywords == {"struct", "proc", "defmacro", "if", "elif", "else", "while", "mut", "return", "break", "continue", "ctx", "extern"}
Atoms == Words \cup Strs \cup Keywords
           \cup {"i", "0", "+", ".", "|", "&&", "bs", "!", "..", "&", "~", "~@", "synq"}
Seps == {"nl", ";", ","}

parser__is_operator(t) == t \in {"+", ".", "&&", "|"}

Peek(S) == IF S.pos \in DOMAIN S.t THEN S.t[S.pos] ELSE "eof"
PeekNext(S) == IF S.pos + 1 \in DOMAIN S.t THEN S.t[S.pos + 1] ELSE "eof"
parser__advance(S) == IF Peek(S) = "eof" THEN S ELSE [S EXCEPT !.pos = @ + 1]
Skip(S, kinds) ==
  [S EXCEPT !.pos = CHOOSE q \in S.pos .. Len(S.t) + 1 :
     /\ \A r \in S.pos .. q - 1 : S.t[r] \in kinds
     /\ q = Len(S.t) + 1 \/ S.t[q] \notin kinds]

Tree(k, a, b, kids) == [k |-> k, a |-> a, b |-> b, kids |-> kids]
Leaf(k, p) == Tree(k, p, p, <<>>)
Null == Leaf("null", 0)
Ret(S, n) == [s |-> S, n |-> n]
IsErr(R) == R.n.k = "err"
IsNull(R) == R.n.k = "null"

parser__error(S, p) == Ret([S EXCEPT !.errs = @ + 1], Leaf("err", p))

parser__is_command_end(S) == Peek(S) \in Seps \cup {"eof", "}"}
parser__is_operand_end(S) == parser__is_command_end(S) \/ parser__is_operator(Peek(S))
parser__is_shell_cmd_end(S) == parser__is_command_end(S) \/ Peek(S) \in {"|", "&&", "&"}
parser__dotdot_is_bare(S) ==
  PeekNext(S) \in Seps \cup {"eof", "}", "]"} \/ parser__is_operator(PeekNext(S))

\* Mutant: recovery looks for the bracket alone, whatever lines it is on.
RECURSIVE MutSync(_, _, _)
MutSync(S, sq, br) ==
  LET t == Peek(S)
      N == [S EXCEPT !.pos = @ + 1]
  IN CASE t = "eof" \/ (t = "}" /\ br = 0) -> S
       [] t = "]" -> IF sq = 1 THEN N ELSE MutSync(N, sq - 1, br)
       [] t = "[" -> MutSync(N, sq + 1, br)
       [] t = "{" -> MutSync(N, sq, br + 1)
       [] t = "}" /\ br > 0 -> MutSync(N, sq, br - 1)
       [] OTHER -> MutSync(N, sq, br)

\* Panic mode: to the matching ], a newline, or the } of the block around it.
RECURSIVE SyncFrom(_, _, _)
SyncFrom(S, sq, br) ==
  LET t == Peek(S)
      N == [S EXCEPT !.pos = @ + 1]
  IN CASE t \in {"eof", "nl"} \/ (t = "}" /\ br = 0) -> S
       [] t = "]" -> IF sq = 1 THEN N ELSE SyncFrom(N, sq - 1, br)
       [] t = "[" -> SyncFrom(N, sq + 1, br)
       [] t = "{" -> SyncFrom(N, sq, br + 1)
       [] t = "}" /\ br > 0 -> SyncFrom(N, sq, br - 1)
       [] OTHER -> SyncFrom(N, sq, br)
parser__sync_bracket(S) == SyncFrom(S, 1, 0)

\* An error after whose report the rest of the brackets is skipped.
Panics(R) == Ret(parser__sync_bracket(R.s), R.n)

\* Mutant: ^name is a variable wherever it stands.
MutAtom(S) ==
  LET N == parser__advance(S)
  IN CASE Peek(S) = "^w" -> Ret(N, Leaf("caret", S.pos))
       [] Peek(S) = "v" -> Ret(N, Leaf("var", S.pos))
       [] Peek(S) \in Atoms -> Ret(N, Leaf("atom", S.pos))
       [] OTHER -> Ret(S, Null)

parser__parse_atom(S) ==
  CASE Peek(S) = "^w" /\ S.sq = 0 -> parser__error(parser__advance(S), S.pos)
    [] Peek(S) = "^w" /\ S.sq > 0 -> Ret(parser__advance(S), Leaf("caret", S.pos))
    [] Peek(S) = "v" -> Ret(parser__advance(S), Leaf("var", S.pos))
    [] Peek(S) \in Atoms -> Ret(parser__advance(S), Leaf("atom", S.pos))
    [] OTHER -> Ret(S, Null)

\* expr->field, again and again: each wraps what came before.
RECURSIVE parser__maybe_arrow_access(_)
ArrowField(R, N) ==
  IF Peek(N) \in Words \cup {"i", "v"}
  THEN parser__maybe_arrow_access(Ret(parser__advance(N),
         Tree("cmd", R.n.a, N.pos, <<R.n, Leaf("atom", R.s.pos), Leaf("atom", N.pos)>>)))
  ELSE parser__error(N, R.s.pos)
parser__maybe_arrow_access(R) ==
  IF Peek(R.s) # "->" THEN R ELSE ArrowField(R, parser__advance(R.s))

\* Past the parenthesis that matches one just read, or to the end of the line.
RECURSIVE SkipParens(_, _, _)
SkipParens(S, depth, lines) ==
  LET N == [S EXCEPT !.pos = @ + 1]
  IN CASE Peek(S) = "eof" \/ (Peek(S) = "nl" /\ ~lines) -> S
       [] Peek(S) = "(" -> SkipParens(N, depth + 1, lines)
       [] Peek(S) = ")" -> IF depth = 1 THEN N ELSE SkipParens(N, depth - 1, lines)
       [] OTHER -> SkipParens(N, depth, lines)

\* The procedures that call one another, by name: "expr", "block" and "cmd" stand for
\* parser__parse_expr, parser__parse_block and parser__parse_cmd_expr.
RECURSIVE Parse(_, _)

\* Mutant: a quoted expression ends where its quote does.
MutWrapped(S, k, R) ==
  IF IsNull(R) THEN parser__error([R.s EXCEPT !.sq = S.sq], S.pos)
  ELSE Ret([R.s EXCEPT !.sq = S.sq], Tree(k, S.pos, S.pos, <<R.n>>))

\* What a prefix token at S applies to was read; the quote depth is as before it.
Wrapped(S, k, R) ==
  IF IsNull(R) THEN parser__error([R.s EXCEPT !.sq = S.sq], S.pos)
  ELSE Ret([R.s EXCEPT !.sq = S.sq], Tree(k, S.pos, R.n.b, <<R.n>>))

\* A prefix token and the expression it applies to, read at quote depth d.
Prefixed(S, k, d) == Wrapped(S, k, Parse("expr", [parser__advance(S) EXCEPT !.sq = d]))

\* `..expr`: an error when no expression follows.
parser__parse_spread(S) == Prefixed(S, "spread", S.sq)

\* What ends the arguments, by where they stand.
ArgsEnd(S, mode) ==
  CASE mode = "brackets" -> Peek(S) \in {"eof", "]"}
    [] mode = "interp" -> Peek(S) \in {"eof", "xe"}
    [] mode = "operand" -> parser__is_operand_end(S)
    [] mode = "shell" -> parser__is_shell_cmd_end(S)
    [] OTHER -> parser__is_shell_cmd_end(S) \/ Peek(S) = "]"

\* Arguments up to their end: [s, args, fail], fail an error node or Null.  In brackets
\* newlines are read only when the closing bracket follows them.
RECURSIVE Collect(_, _, _)
Spreads(S, mode) == Peek(S) = ".." /\ mode # "interp" /\ ~(mode = "operand" /\ parser__dotdot_is_bare(S))
Args(S, args, fail) == [s |-> S, args |-> args, fail |-> fail]
ToClosing(S, L) == IF Peek(L) = "]" THEN L ELSE S
WithArg(R, args, mode, spread) ==
  IF spread /\ IsErr(R) THEN Args(R.s, args, R.n)
  ELSE IF IsNull(R) THEN Args(R.s, args, Null)
  ELSE Collect(R.s, Append(args, R.n), mode)
Collect(S, args, mode) ==
  CASE ArgsEnd(S, mode) -> Args(S, args, Null)
    [] ~ArgsEnd(S, mode) /\ Peek(S) = "nl" /\ mode = "brackets" -> Args(ToClosing(S, Skip(S, {"nl"})), args, Null)
    [] ~ArgsEnd(S, mode) /\ Peek(S) = "nl" /\ mode = "interp" -> Collect(parser__advance(S), args, mode)
    [] OTHER -> WithArg(IF Spreads(S, mode) THEN parser__parse_spread(S) ELSE Parse("expr", S), args, mode, Spreads(S, mode))

\* The node R closed by a ] that must come next.
Closed(R, open) ==
  IF IsErr(R) THEN Panics(R)
  ELSE IF Peek(R.s) # "]" THEN Panics(parser__error(R.s, open))
  ELSE Ret(parser__advance(R.s), R.n)

\* Commands up to a }; what starts no command is passed over without a word.
RECURSIVE BlockCommands(_, _)
AfterCommand(R, cmds) ==
  IF IsNull(R) THEN BlockCommands(parser__advance(R.s), cmds) ELSE BlockCommands(R.s, Append(cmds, R.n))
BlockFrom(L, cmds) ==
  IF Peek(L) \in {"eof", "}"} THEN Args(L, cmds, Null) ELSE AfterCommand(Parse("cmd", L), cmds)
BlockCommands(S, cmds) == BlockFrom(Skip(S, Seps), cmds)
\* A semicolon among the separators before the }: the block has no value.
TrailingSemi(S, e) == \E p \in S.pos + 1 .. e - 1 : S.t[p] = ";" /\ \A q \in p .. e - 1 : S.t[q] \in Seps
BlockClosed(S, B) ==
  IF Peek(B.s) # "}" THEN parser__error(B.s, S.pos)
  ELSE Ret(parser__advance(B.s), Tree(IF TrailingSemi(S, B.s.pos) THEN "block;" ELSE "block", S.pos, B.s.pos, B.args))
parser__parse_block(S) == BlockClosed(S, BlockCommands(parser__advance(S), <<>>))

\* The pieces of an interpolated string, to its end or to a token that has no place in it.
RECURSIVE Segments(_, _)
PastExpr(S) == IF Peek(S) = "xe" THEN parser__advance(S) ELSE S
WithExpr(S, C, segs) == Segments(PastExpr(C.s), Append(segs, Tree("cmd", S.pos, C.s.pos, C.args)))
ExprSegment(S, H, segs) ==
  IF IsNull(H) THEN Segments(PastExpr(Skip([H.s EXCEPT !.errs = @ + 1], Range(S.t) \ {"xe"})), Append(segs, Leaf("err", S.pos)))
  ELSE WithExpr(S, Collect(H.s, <<H.n>>, "interp"), segs)
Segments(S, segs) ==
  CASE Peek(S) = "iv" -> Segments(parser__advance(S), Append(segs, Leaf("atom", S.pos)))
    [] Peek(S) = "sp" -> Segments(parser__advance(S), segs)
    [] Peek(S) = "xs" -> ExprSegment(S, Parse("expr", parser__advance(S)), segs)
    [] Peek(S) = "$(" -> Segments(SkipParens(parser__advance([S EXCEPT !.errs = @ + 1]), 1, TRUE), Append(segs, Leaf("err", S.pos)))
    [] OTHER -> [s |-> IF Peek(S) = "se" THEN parser__advance(S) ELSE S, segs |-> segs, b |-> S.pos]
InterpOf(S, G) == Ret(G.s, Tree("interp", S.pos, G.b, G.segs))
parser__parse_interp_string(S) == InterpOf(S, Segments(parser__advance(S), <<>>))

-----------------------------------------------------------------------------
(* Commands and the forms that start with a keyword *)

\* `!cmd args`, in brackets up to the closing one; & runs it in the background.
ShellOf(S, C) ==
  IF C.fail # Null THEN Ret(C.s, C.fail)
  ELSE IF Peek(C.s) = "&" THEN Ret(parser__advance(C.s), Tree("shell", S.pos, C.s.pos, C.args))
  ELSE Ret(C.s, Tree("shell", S.pos, Last(C.args).b, C.args))
ShellFrom(S, N, H, inBrackets) ==
  IF Peek(N) \notin Words \cup Strs \cup {"sb", "v", "$["} THEN parser__error(N, N.pos)
  ELSE IF IsNull(H) THEN parser__error(H.s, S.pos)
  ELSE ShellOf(S, Collect(H.s, <<H.n>>, IF inBrackets THEN "shellbr" ELSE "shell"))
parser__parse_shell_cmd(S, inBrackets) ==
  ShellFrom(S, parser__advance(S), Parse("expr", parser__advance(S)), inBrackets)

ParamElem(S) == IF Peek(S) = "[" THEN Parse("expr", S) ELSE parser__parse_atom(S)

\* {type name, ...}: all words of all slots in one list.
RECURSIVE ParamSlots(_, _)
WithElem(R, elems) ==
  IF IsNull(R) THEN Args([R.s EXCEPT !.errs = @ + 1], elems, Leaf("err", R.s.pos))
  ELSE ParamSlots(R.s, Append(elems, R.n))
SlotFrom(L, elems) == IF Peek(L) \in {"}", "eof"} THEN Args(L, elems, Null) ELSE WithElem(ParamElem(L), elems)
ParamSlots(S, elems) ==
  SlotFrom(IF elems # <<>> /\ Peek(S) \notin {",", "nl", "}", "eof"} THEN S ELSE Skip(S, Seps), elems)
ParamsClosed(S, P) ==
  IF P.fail # Null THEN Ret(P.s, P.fail)
  ELSE IF Peek(P.s) # "}" THEN parser__error(P.s, S.pos)
  ELSE Ret(parser__advance(P.s), Tree("cmd", S.pos, P.s.pos, P.args))
parser__parse_proc_params(S) == ParamsClosed(S, ParamSlots(parser__advance(S), <<>>))

NameOrStruct(S) == Peek(S) \in Words \cup {"struct"}
\* A type: a word or a bracketed one.
TypeOr(R) == IF IsNull(R) \/ IsErr(R) THEN parser__error(R.s, R.s.pos) ELSE R
RetType(S) == TypeOr(ParamElem(S))
StartsType(S) == NameOrStruct(S) \/ Peek(S) = "["

\* The parts of a form so far, as a node from its head to the last of them.
With(parts, R) == Ret(R.s, Tree("cmd", parts[1].a, R.n.b, Append(parts, R.n)))

\* A form goes on with a block.
BlockEnds(parts, R) == IF IsErr(R) THEN R ELSE With(parts, R)
ThenBlock(S, parts) ==
  IF Peek(S) # "{" THEN parser__error(S, S.pos) ELSE BlockEnds(parts, Parse("block", S))

ProcTyped(parts, T) == IF IsErr(T) THEN T ELSE ThenBlock(T.s, Append(parts, T.n))
ProcAfterParams(parts, P) ==
  IF IsErr(P) THEN P
  ELSE IF Peek(P.s) = "{" THEN ThenBlock(P.s, Append(parts, P.n))
  ELSE IF ~StartsType(P.s) THEN parser__error(P.s, P.s.pos)
  ELSE ProcTyped(Append(parts, P.n), RetType(P.s))
ProcNamed(parts, S) ==
  IF Peek(S) # "{" THEN parser__error(S, S.pos) ELSE ProcAfterParams(parts, parser__parse_proc_params(S))
parser__parse_proc_form(S, head) ==
  IF NameOrStruct(S) THEN ProcNamed(<<head, Leaf("atom", S.pos)>>, parser__advance(S)) ELSE ProcNamed(<<head>>, S)

ExternTyped(parts, T) == IF IsErr(T) THEN T ELSE With(parts, T)
ExternParams(parts, P) ==
  IF IsErr(P) THEN P
  ELSE IF StartsType(P.s) THEN ExternTyped(Append(parts, P.n), RetType(P.s)) ELSE With(parts, P)
ExternNamed(parts, S) ==
  IF Peek(S) # "{" THEN parser__error(S, S.pos) ELSE ExternParams(parts, parser__parse_proc_params(S))
parser__parse_extern_form(S, head) ==
  IF ~NameOrStruct(S) THEN parser__error(S, S.pos)
  ELSE ExternNamed(<<head, Leaf("atom", S.pos)>>, parser__advance(S))

\* Mutant: the newlines after a then-block are gone even when no else follows.
MutAfterThen(S) == Skip(S, {"nl"})

\* Newlines before elif or else belong to the if; others end it.
AfterThen(S) == LET L == Skip(S, {"nl"}) IN IF Peek(L) \in {"elif", "else"} THEN L ELSE S

\* The condition of an if or a while and the block that must follow it.
ConditionOf(head, C) ==
  IF IsNull(C) THEN parser__error(C.s, C.s.pos)
  ELSE IF IsErr(C) THEN C ELSE ThenBlock(C.s, <<head, C.n>>)
Conditional(S, head) == ConditionOf(head, Parse("expr", S))

RECURSIVE parser__parse_if_form(_, _)
ElseOf(R, L) ==
  CASE Peek(L) = "elif" -> BlockEnds(R.n.kids, parser__parse_if_form(parser__advance(L), Leaf("atom", L.pos)))
    [] Peek(L) \in {"else", "{"} -> ThenBlock(IF Peek(L) = "else" THEN Skip(parser__advance(L), {"nl"}) ELSE L, R.n.kids)
    [] OTHER -> Ret(L, R.n)
IfThen(R) == IF IsErr(R) THEN R ELSE ElseOf(R, AfterThen(R.s))
parser__parse_if_form(S, head) == IfThen(Conditional(S, head))

parser__parse_while_form(S, head) == Conditional(S, head)

\* break or return, with a value unless the operand ends here; continue has none.
JumpWith(kw, R) ==
  IF IsNull(R) THEN Ret(R.s, Tree("jump", kw.a, kw.a, <<kw>>)) ELSE Ret(R.s, Tree("jump", kw.a, R.n.b, <<kw, R.n>>))
JumpFrom(kw, N) == JumpWith(kw, IF parser__is_operand_end(N) THEN Ret(N, Null) ELSE Parse("expr", N))
Jump(S) ==
  IF Peek(S) = "continue" THEN JumpWith(Leaf("atom", S.pos), Ret(parser__advance(S), Null))
  ELSE JumpFrom(Leaf("atom", S.pos), parser__advance(S))

\* [head args]: the forms that may stand in brackets, and commands.
CommandClosed(S, C) ==
  IF C.fail # Null THEN Panics(Ret(C.s, C.fail))
  ELSE IF Peek(C.s) # "]" THEN Panics(parser__error(C.s, S.pos))
  ELSE Ret(parser__advance(C.s), Tree("cmd", S.pos, C.s.pos, C.args))
CommandOf(S, t, H) ==
  CASE IsNull(H) \/ (t = "proc" /\ Peek(H.s) # "{") \/ t = "extern" \/ (t = "." /\ H.n.k = "atom") ->
         Panics(parser__error(H.s, S.pos))
    [] t = "proc" /\ ~IsNull(H) /\ Peek(H.s) = "{" -> Closed(parser__parse_proc_form(H.s, H.n), S.pos)
    [] OTHER -> CommandClosed(S, Collect(H.s, <<H.n>>, "brackets"))
CommandFrom(S, N) ==
  CASE Peek(N) = "]" -> Ret(parser__advance(N), Tree("cmd", S.pos, N.pos, <<>>))
    [] Peek(N) = "!" -> Closed(parser__parse_shell_cmd(N, TRUE), S.pos)
    [] OTHER -> CommandOf(S, Peek(N), Parse("expr", N))
parser__parse_command(S) == CommandFrom(S, parser__advance(S))

MaybeArrow(R) == IF IsNull(R) \/ IsErr(R) THEN R ELSE parser__maybe_arrow_access(R)
parser__parse_expr(S) ==
  LET t == Peek(S)
  IN MaybeArrow(
       CASE t = "[" -> parser__parse_command(S)
         [] t = "(" -> Ret(SkipParens(parser__advance([S EXCEPT !.errs = @ + 1]), 1, FALSE), Leaf("err", S.pos))
         [] t = "{" -> parser__parse_block(S)
         [] t = "sb" -> parser__parse_interp_string(S)
         [] t \in {"quote", "synq"} -> Prefixed(S, t, IF t = "synq" THEN S.sq + 1 ELSE S.sq)
         [] t \in {"~", "~@"} /\ S.sq = 1 -> Prefixed(S, IF t = "~" THEN "unq" ELSE "unqs", 0)
         [] t = "err" \/ (t = "~@" /\ S.sq = 0) -> parser__error(parser__advance(S), S.pos)
         [] OTHER -> parser__parse_atom(S))

\* An operand of command mode: a command with its arguments, or a form.
OperandOf(t, H, C) ==
  CASE C.fail # Null -> Ret(C.s, C.fail)
    [] C.fail = Null /\ C.args = <<>> -> Ret(C.s, IF t \in Words THEN Tree("cmd", H.n.a, H.n.b, <<H.n>>) ELSE H.n)
    [] OTHER -> Ret(C.s, Tree("cmd", H.n.a, Last(C.args).b, <<H.n>> \o C.args))
OperandFrom(t, H) ==
  IF IsNull(H) \/ IsErr(H) THEN H
  ELSE IF t = "proc" /\ Peek(H.s) \in Words \cup {"[", "{"} THEN parser__parse_proc_form(H.s, H.n)
  ELSE IF t = "extern" /\ StartsType(H.s) THEN parser__parse_extern_form(H.s, H.n)
  ELSE IF t = "if" /\ ~parser__is_operand_end(H.s) THEN parser__parse_if_form(H.s, H.n)
  ELSE IF t = "while" /\ ~parser__is_operand_end(H.s) THEN parser__parse_while_form(H.s, H.n)
  ELSE IF t = "ds" /\ H.n.k = "atom" THEN parser__error(H.s, H.s.pos - 1)
  ELSE OperandOf(t, H, Collect(H.s, <<>>, "operand"))
parser__parse_cmd_operand(S) ==
  CASE Peek(S) = "ctx" -> parser__error(parser__advance(S), S.pos)
    [] Peek(S) \in {"break", "continue", "return"} -> Jump(S)
    [] Peek(S) = "!" -> parser__parse_shell_cmd(S, FALSE)
    [] OTHER -> OperandFrom(Peek(S), Parse("expr", S))

\* operand op operand op ...: from the left, no precedence.
RECURSIVE OperatorLoop(_, _, _)

\* Mutant: an operator with nothing after it is passed over.
MutRightOperand(R, O) ==
  IF IsNull(O) THEN Ret(O.s, R.n)
  ELSE IF IsErr(O) THEN O
  ELSE Ret(O.s, Tree("cmd", R.n.a, O.n.b, <<R.n, Leaf("atom", R.s.pos), O.n>>))

\* R op O, the operator standing after R; with nothing to apply it to, what O is.
RightOperand(R, O) ==
  IF IsNull(O) \/ IsErr(O) THEN O
  ELSE Ret(O.s, Tree("cmd", R.n.a, O.n.b, <<R.n, Leaf("atom", R.s.pos), O.n>>))
Operators(R) ==
  IF IsNull(R) \/ IsErr(R) \/ ~parser__is_operator(Peek(R.s)) THEN R ELSE OperatorLoop(parser__advance(R.s), R, TRUE)
OperatorLoop(S, R, more) ==
  Operators(IF more THEN RightOperand(R, parser__parse_cmd_operand(S)) ELSE parser__parse_cmd_operand(S))
parser__parse_cmd_expr(S) == OperatorLoop(S, Ret(S, Null), FALSE)

Parse(what, S) ==
  CASE what = "expr" -> parser__parse_expr(S)
    [] what = "block" -> parser__parse_block(S)
    [] what = "cmd" -> parser__parse_cmd_expr(S)

-----------------------------------------------------------------------------
(* Declarations of the top level *)

RECURSIVE UseNames(_, _)
UseNames(S, names) ==
  IF Peek(S) \in {"}", "eof"} THEN Ret(S, Tree("names", S.pos, S.pos, names))
  ELSE IF Peek(S) \notin Words THEN parser__error(S, S.pos)
  ELSE UseNames([S EXCEPT !.pos = @ + (IF PeekNext(S) = "," THEN 2 ELSE 1)], Append(names, Leaf("atom", S.pos)))

UseClosed(M, head, U) ==
  IF IsErr(U) THEN U
  ELSE IF Peek(U.s) # "}" THEN parser__error(U.s, M.pos)
  ELSE Ret(parser__advance(U.s), Tree("use", head[1].a, U.s.pos, head \o U.n.kids))
UseFrom(M, head) ==
  CASE Peek(M) \in Words -> Ret(parser__advance(M), Tree("bind", head[1].a, M.pos, Append(head, Leaf("atom", M.pos))))
    [] Peek(M) = "{" /\ PeekNext(M) = "}" -> parser__error([M EXCEPT !.pos = @ + 2], M.pos + 1)
    [] Peek(M) = "{" /\ PeekNext(M) # "}" -> UseClosed(M, head, UseNames(parser__advance(M), <<>>))
    [] OTHER -> parser__error(M, M.pos)
parser__parse_use(S) ==
  IF PeekNext(S) \notin Strs THEN parser__error(parser__advance(S), S.pos + 1)
  ELSE UseFrom([S EXCEPT !.pos = @ + 2], <<Leaf("atom", S.pos), Leaf("atom", S.pos + 1)>>)

IsStructType(S) == Peek(S) = "[" /\ PeekNext(S) = "struct"

\* [struct [type name, ...]] of a field: [s, kids, ok].
RECURSIVE parser__parse_inline_struct_type(_)
Typed(S, kids) == [s |-> S, kids |-> kids, ok |-> TRUE]
Bad(S) == [s |-> [S EXCEPT !.errs = @ + 1], kids |-> <<>>, ok |-> FALSE]
WordType(S) == IF Peek(S) \in Words THEN Typed(parser__advance(S), <<Leaf("atom", S.pos)>>) ELSE Bad(S)
\* A field's name after its type.
FieldNamed(kids, T) ==
  IF ~T.ok THEN T
  ELSE IF Peek(T.s) \notin Words THEN Bad(T.s)
  ELSE IF Len(kids \o T.kids) >= InlineRoom THEN Bad(parser__advance(T.s))
  ELSE Typed(parser__advance(T.s), kids \o T.kids \o <<Leaf("atom", T.s.pos)>>)
InlineField(S, kids) ==
  FieldNamed(kids, IF IsStructType(S) THEN parser__parse_inline_struct_type(S) ELSE WordType(S))
RECURSIVE InlineFields(_, _)
InlineFields(I, first) ==
  IF ~I.ok \/ Peek(I.s) \in {"]", "eof"} THEN I
  ELSE IF ~first /\ Peek(I.s) # "," THEN Bad(I.s)
  ELSE InlineFields(InlineField(IF first THEN I.s ELSE parser__advance(I.s), I.kids), FALSE)
InlineClosed(I) ==
  IF ~I.ok THEN I
  ELSE IF Peek(I.s) # "]" THEN Bad(I.s)
  ELSE IF PeekNext(I.s) # "]" THEN Bad(parser__advance(I.s))
  ELSE [I EXCEPT !.s.pos = @ + 2]
InlineFrom(S, kids) ==
  IF Peek(S) # "[" THEN Bad(S) ELSE InlineClosed(InlineFields(Typed(parser__advance(S), kids), TRUE))
parser__parse_inline_struct_type(S) == InlineFrom([S EXCEPT !.pos = @ + 2], <<Leaf("atom", S.pos + 1)>>)

\* [Buf N T]; the word Buf is u.  N is positive: 0 is a token of its own.  A name too
\* long for the 128 bytes the type is put together in is an error that is left out.
RECURSIVE BufFrom(_, _)
BufWants == <<{"u"}, {"i"}, Words, {"]"}>>
BufFrom(S, k) ==
  IF k > 4 THEN Typed(S, [i \in 1 .. 3 |-> Leaf("atom", S.pos - 5 + i)])
  ELSE IF Peek(S) \notin BufWants[k] THEN Bad(S) ELSE BufFrom(parser__advance(S), k + 1)
parser__parse_buf_field_type(S) == BufFrom(parser__advance(S), 1)

\* A struct's fields: type name, separated; names holds the names' tokens.
RECURSIVE StructFields(_, _, _, _)
FieldType(S) ==
  IF IsStructType(S) THEN parser__parse_inline_struct_type(S)
  ELSE IF Peek(S) = "[" THEN parser__parse_buf_field_type(S) ELSE WordType(S)
StructField(F, T, kids, names, kw) ==
  IF ~T.ok THEN parser__error(T.s, F.pos)
  ELSE IF Peek(T.s) \notin Words THEN parser__error(T.s, T.s.pos)
  ELSE IF Len(names) >= DEFSTRUCT_MAX_FIELDS THEN parser__error(parser__advance(T.s), kw)
  ELSE IF Peek(T.s) \in Range(names) THEN parser__error(parser__advance(T.s), T.s.pos)
  ELSE StructFields(parser__advance(T.s), kids \o T.kids \o <<Leaf("atom", T.s.pos)>>, Append(names, Peek(T.s)), kw)
StructFieldAt(F, kids, names, kw) ==
  IF Peek(F) \notin Words \cup {"["} THEN parser__error(F, F.pos)
  ELSE StructField(F, FieldType(F), kids, names, kw)
StructFieldsFrom(L, kids, names, kw) ==
  IF Peek(L) \in {"}", "eof"} THEN Ret(L, Tree("fields", L.pos, L.pos, kids))
  ELSE StructFieldAt(IF Peek(L) = "mut" THEN parser__advance(L) ELSE L, kids, names, kw)
StructFields(S, kids, names, kw) == StructFieldsFrom(Skip(S, Seps), kids, names, kw)

StructClosed(S, F) ==
  IF IsErr(F) THEN F
  ELSE IF Peek(F.s) # "}" THEN parser__error(F.s, S.pos + 2)
  ELSE IF F.n.kids = <<>> THEN parser__error(parser__advance(F.s), S.pos + 1)
  ELSE Ret(parser__advance(F.s),
           Tree("struct", S.pos, F.s.pos, <<Leaf("atom", S.pos), Leaf("atom", S.pos + 1)>> \o F.n.kids))
StructFrom(S, M) ==
  IF Peek(M) # "{" THEN parser__error(M, S.pos + 1)
  ELSE StructClosed(S, StructFields(parser__advance(M), <<>>, <<>>, S.pos))
parser__parse_defstruct(S) ==
  IF PeekNext(S) \notin Words THEN parser__error(parser__advance(S), S.pos + 1)
  ELSE StructFrom(S, [S EXCEPT !.pos = @ + 2])

RECURSIVE parser__is_constant_expr(_)
parser__is_constant_expr(n) ==
  \/ n.k = "atom"
  \/ n.k = "cmd" /\ \A i \in 2 .. Len(n.kids) : parser__is_constant_expr(n.kids[i])

CtxDefault(parts, D, E) ==
  IF IsNull(E) THEN parser__error(D, D.pos)
  ELSE IF IsErr(E) THEN E
  ELSE IF ~parser__is_constant_expr(E.n) THEN parser__error(E.s, D.pos)
  ELSE Ret(E.s, Tree("ctx", parts[1].a, E.n.b, Append(parts, E.n)))
CtxFrom(parts, D) == CtxDefault(parts, D, IF parser__is_command_end(D) THEN Ret(D, Null) ELSE Parse("expr", D))
CtxTyped(S, T) ==
  IF Peek(T) \notin Words THEN parser__error(T, T.pos)
  ELSE IF PeekNext(T) \notin Words THEN parser__error(parser__advance(T), T.pos + 1)
  ELSE CtxFrom(<<Leaf("atom", S.pos), Leaf("atom", T.pos), Leaf("atom", T.pos + 1)>>, [T EXCEPT !.pos = @ + 2])
parser__parse_ctx_decl(S) == CtxTyped(S, IF PeekNext(S) = "mut" THEN [S EXCEPT !.pos = @ + 2] ELSE parser__advance(S))

\* A macro's parameters: words, the last of them perhaps after `..`.
RECURSIVE MacroParams(_, _, _)
MacroFull(names) == Len(names) >= DEFMACRO_MAX_PARAMS
ParamsAre(S, names) == Ret(S, Tree("params", S.pos, S.pos, names))
RestParamEnds(R, names, kw) == IF Peek(R) # "}" THEN parser__error(R, kw) ELSE ParamsAre(R, names)
\* The parameter N stands at, after `..`.
RestParam(N, names, kw) ==
  IF Peek(N) \notin Words THEN parser__error(N, N.pos)
  ELSE IF MacroFull(names) THEN parser__error(parser__advance(N), kw)
  ELSE RestParamEnds(Skip(parser__advance(N), Seps), Append(names, Leaf("atom", N.pos)), kw)
MacroParamsFrom(L, names, kw) ==
  CASE Peek(L) \in {"}", "eof"} -> ParamsAre(L, names)
    [] Peek(L) = ".." -> RestParam(parser__advance(L), names, kw)
    [] Peek(L) \in Words ->
         IF MacroFull(names) THEN parser__error(parser__advance(L), kw)
         ELSE IF Peek(L) \in {L.t[n.a] : n \in Range(names)} THEN parser__error(parser__advance(L), L.pos)
         ELSE MacroParams(parser__advance(L), Append(names, Leaf("atom", L.pos)), kw)
    [] OTHER -> parser__error(L, L.pos)
MacroParams(S, names, kw) == MacroParamsFrom(Skip(S, Seps), names, kw)

MacroOf(R) == IF IsErr(R) THEN R ELSE Ret(R.s, [R.n EXCEPT !.k = "macro"])
MacroBody(S, P) ==
  IF IsErr(P) THEN P
  ELSE IF Peek(P.s) # "}" THEN parser__error(P.s, S.pos + 2)
  ELSE MacroOf(ThenBlock(Skip(parser__advance(P.s), {"nl"}), <<Leaf("atom", S.pos), Leaf("atom", S.pos + 1)>> \o P.n.kids))
MacroFrom(S, M) ==
  IF Peek(M) # "{" THEN parser__error(M, M.pos) ELSE MacroBody(S, MacroParams(parser__advance(M), <<>>, S.pos))
parser__parse_defmacro(S) ==
  IF PeekNext(S) \notin Words \cup {"+", ".", "bs", "|", "!", "&", "..", "&&", "~"}
  THEN parser__error(parser__advance(S), S.pos + 1) ELSE MacroFrom(S, [S EXCEPT !.pos = @ + 2])

-----------------------------------------------------------------------------
(* Validation of the use declarations *)

IsUse(n) == n.k \in {"use", "bind"}
ParseFailed(n) == [n EXCEPT !.k = "err", !.kids = <<>>]
Path(t, n) == t[n.kids[2].a]
Imported(t, n) == IF n.k = "use" THEN {t[n.kids[i].a] : i \in 3 .. Len(n.kids)} ELSE {}

\* The items with those at bad turned into errors.
Refused(items, bad) == [i \in DOMAIN items |-> IF i \in bad THEN ParseFailed(items[i]) ELSE items[i]]
Before(i) == 1 .. i - 1

\* Mutant: only the declaration right before is compared.
MutValidated(t, items) ==
  LET late == {i \in DOMAIN items : IsUse(items[i]) /\ \E j \in Before(i) : items[j].k # "err" /\ ~IsUse(items[j])}
      one == Refused(items, late)
      same == {i \in DOMAIN one : IsUse(one[i]) /\ i > 1 /\ IsUse(one[i - 1]) /\ Path(t, one[i]) = Path(t, one[i - 1])}
  IN [items |-> Refused(one, same), errs |-> Cardinality(late) + Cardinality(same)]

\* A use after another statement, of a path used before, or importing a name imported before.
RECURSIVE NamesRefused(_, _, _)
NamesRefused(t, items, i) ==
  IF i > Len(items) THEN {}
  ELSE LET dup == {j \in i + 1 .. Len(items) : Imported(t, items[i]) \cap Imported(t, items[j]) # {}}
       IN dup \cup NamesRefused(t, Refused(items, dup), i + 1)
Validated(t, items) ==
  LET late == {i \in DOMAIN items : IsUse(items[i]) /\ \E j \in Before(i) : items[j].k # "err" /\ ~IsUse(items[j])}
      one == Refused(items, late)
      same == {i \in DOMAIN one : IsUse(one[i]) /\ \E j \in Before(i) : IsUse(one[j]) /\ Path(t, one[i]) = Path(t, one[j])}
      two == Refused(one, same)
      names == NamesRefused(t, two, 1)
  IN [items |-> Refused(two, names), errs |-> Cardinality(late) + Cardinality(same) + Cardinality(names)]

-----------------------------------------------------------------------------
(* parser_parse *)

ToksOf(kinds, n) == UNION {[1 .. k -> kinds] : k \in 0 .. n}
Wrap(pre, cores, post) == {pre \o c \o post : c \in cores}

\* Token texts over the alphabets where forms meet, and inside the forms.
TokenTexts ==
  ToksOf({"w", "[", "]", "nl", "->", "+", ".."}, ParseLen)
  \cup ToksOf({"w", "{", "}", "+", ";", "("}, ParseLen)
  \cup ToksOf({"synq", "~", "~@", "^w", "quote", "[", "]"}, ParseLen)
  \cup ToksOf({"!", "w", "&", "|", "[", "]", ".."}, ParseLen)
  \cup ToksOf({"err", ")", "!", "$[", "v", "bs", "ds", "return", "continue", "ctx", "nl"}, 3)
  \cup Wrap(<<"{">>, ToksOf({"w", "+", ";", "[", "]", "}"}, ParseLen), <<"}">>)
  \cup Wrap(<<"{">>, ToksOf({"w", ")", "}"}, 3), <<"}">>)
  \cup Wrap(<<"if", "v">>, ToksOf({"{", "}", "nl", "elif", "else", "w"}, ParseLen), <<"{", "}", "nl", "+", "w">>)
  \cup Wrap(<<"while">>, ToksOf({"{", "}", "w"}, 3), <<>>)
  \cup Wrap(<<"proc">>, ToksOf({"w", "{", "}", "["}, ParseLen), <<"]", "{", "}">>)
  \cup Wrap(<<"[", "proc", "{">>, ToksOf({"w", "{", "}", "]"}, ParseLen), <<>>)
  \cup Wrap(<<"extern", "w", "{">>, ToksOf({"w", "}", "[", "]", "struct"}, ParseLen), <<>>)
  \cup Wrap(<<"struct", "w", "{">>, ToksOf({"w", "u", "mut", ",", "}"}, ParseLen), <<"w", "u", "}">>)
  \cup Wrap(<<"struct", "w", "{", "[">>, ToksOf({"struct", "[", "w", "u", "i", "0", "]"}, ParseLen), <<"]", "u", "}">>)
  \cup Wrap(<<"struct", "w", "{", "[", "struct", "[">>, ToksOf({"w", "u", ","}, ParseLen + 1), <<"]", "]", "u", "}">>)
  \cup Wrap(<<"defmacro", "w", "{">>, ToksOf({"w", "u", "..", ",", "}"}, ParseLen), <<"}", "{", "w", "}">>)
  \cup Wrap(<<"ctx">>, ToksOf({"mut", "w", "i", "v", "[", "]"}, ParseLen), <<>>)
  \cup Wrap(<<"use">>, ToksOf({"s", "w", "u", "{", "}", ","}, ParseLen), <<>>)
  \cup Wrap(<<"use", "s">>, ToksOf({"w", "nl", "use", "t"}, ParseLen), <<"nl", "use", "s", "w">>)
  \cup Wrap(<<"use", "s", "{", "w", "}", "nl", "use", "t", "{">>, ToksOf({"w", "u", "}"}, 3), <<"nl", "use", "s", "u">>)
  \cup Wrap(<<"sb">>, ToksOf({"iv", "xs", "xe", "w", "se", "nl", "$(", ")"}, ParseLen), <<"se">>)

ParseStart(toks) == [t |-> toks, pos |-> 1, errs |-> 0, sq |-> 0]
ParseInit ==
  /\ ptoks \in TokenTexts
  /\ pst = ParseStart(ptoks)
  /\ pitems = <<>>
  /\ pstage = "items"

At0 == Skip(pst, Seps)
\* An item that is no command is one error, and one token is passed over.
ItemOr(R) == IF IsNull(R) THEN Ret(parser__advance([R.s EXCEPT !.errs = @ + 1]), Leaf("err", R.s.pos)) ELSE R
Item(R) ==
  \E F \in {ItemOr(R)} :
     /\ pstage = "items" /\ Peek(At0) # "eof"
     /\ pst' = F.s
     /\ pitems' = Append(pitems, F.n)
     /\ UNCHANGED <<ptoks, pstage>>
Decls == {"use", "struct", "defmacro", "ctx"}

ParseUse    == Peek(At0) = "use" /\ Item(parser__parse_use(At0))
ParseStruct == Peek(At0) = "struct" /\ Item(parser__parse_defstruct(At0))
ParseMacro  == Peek(At0) = "defmacro" /\ Item(parser__parse_defmacro(At0))
ParseCtx    == Peek(At0) = "ctx" /\ Item(parser__parse_ctx_decl(At0))
ParseCmd    == Peek(At0) \notin Decls /\ Item(Parse("cmd", At0))
ParseEnds ==
  /\ pstage = "items" /\ Peek(At0) = "eof"
  /\ \E V \in {Validated(ptoks, pitems)} :
       pitems' = V.items /\ pst' = [At0 EXCEPT !.errs = @ + V.errs]
  /\ pstage' = "done"
  /\ UNCHANGED ptoks

ParseNext == ParseUse \/ ParseStruct \/ ParseMacro \/ ParseCtx \/ ParseCmd \/ ParseEnds
ParseSpec == ParseInit /\ [][ParseNext]_parserVars

-----------------------------------------------------------------------------
(* Properties *)

Accepted == pstage = "done" /\ pst.errs = 0

\* The tokens of a node's leaves, in the order of its parts.
RECURSIVE Leaves(_)
Leaves(n) ==
  IF n.k \in {"atom", "var", "caret"} THEN <<n.a>>
  ELSE FlattenSeq([i \in DOMAIN n.kids |-> Leaves(n.kids[i])])

\* Tokens that may be punctuation: their place in the tree is that of a form.
Marks == Seps \cup {"[", "]", "{", "}", "(", ")", "->", "..", "!", "&", "quote", "synq", "~", "~@", "else", "mut",
                    "sb", "sp", "se", "xs", "xe", "$("}
ContentOf(ps, t) == SelectSeq(ps, LAMBDA p : t[p] \notin Marks)
CountOf(c, t) == Cardinality({p \in DOMAIN t : t[p] = c})
Balanced(t) == CountOf("[", t) = CountOf("]", t) /\ CountOf("{", t) = CountOf("}", t)

\* An operator that nothing follows it could apply to.
Dangling(t, p) == parser__is_operator(t[p]) /\ (p = Len(t) \/ t[p + 1] \in Seps \cup {"}", "]", ")", "->"})
\* A text that has a block in which the parser passes over what it cannot start a
\* command with (parser.c:2242-2244): in blocks nothing is reported.
PassesOver(t) == "{" \in Range(t) /\ \E p \in DOMAIN t : Dangling(t, p)

\* Of a text parsed without errors every word, literal, variable and operator is in the
\* tree, once and in order, and its brackets match.  A block is excepted twice: an
\* operator without its second operand is dropped from it, with what stands before
\* the operator, and a ] too many is passed over, neither with a word.  No other bracket
\* is, and none that is missing.
NothingDropped ==
  (Accepted /\ ~PassesOver(ptoks)) =>
    /\ ContentOf(FlattenSeq([i \in DOMAIN pitems |-> Leaves(pitems[i])]), ptoks)
         = ContentOf([p \in DOMAIN ptoks |-> p], ptoks)
    /\ CountOf("{", ptoks) = CountOf("}", ptoks) /\ CountOf("[", ptoks) <= CountOf("]", ptoks)
    /\ "{" \notin Range(ptoks) => Balanced(ptoks)

\* In a tree without errors every node lies inside the node around it.
RECURSIVE Nests(_)
Nests(n) == \A i \in DOMAIN n.kids : n.a <= n.kids[i].a /\ n.kids[i].b <= n.b /\ Nests(n.kids[i])
SpansNest == Accepted => \A i \in DOMAIN pitems : Nests(pitems[i])

\* Every ^name stands inside a syntax-quote, every ~ and ~@ directly inside exactly one.
RECURSIVE Levels(_, _)
Levels(n, d) ==
  /\ n.k = "caret" => d > 0
  /\ n.k \in {"unq", "unqs"} => d = 1
  /\ \A i \in DOMAIN n.kids :
       Levels(n.kids[i], CASE n.k = "synq" -> d + 1 [] n.k \in {"unq", "unqs"} -> d - 1 [] OTHER -> d)
QuoteLevels == \A i \in DOMAIN pitems : Levels(pitems[i], 0)

\* Blocks open before p among the tokens from a on.
OpenBlocks(t, a, p) ==
  Cardinality({q \in a .. p - 1 : t[q] = "{"}) > Cardinality({q \in a .. p - 1 : t[q] = "}"})
\* A newline that a form reads on purpose: before or after else, before a macro's body.
ReadByForm(t, p) ==
  \E a \in 1 .. p - 1, b \in p + 1 .. Len(t) + 1 :
    /\ \A q \in a + 1 .. b - 1 : t[q] = "nl"
    /\ t[a] = "else" \/ (b \in DOMAIN t /\ t[b] \in {"elif", "else"}) \/ (t[1] = "defmacro" /\ t[a] = "}")

\* A failed item ends on its line: the newlines it reads past stand inside brackets that
\* are closed or in a block that is open, are read by its form, or are the one token
\* skipped where no item starts.  Excepted are items with an interpolation, which may
\* span lines, and those with an operator right before a }: recovery in the block
\* passes over the block's own } and reads the lines after it (parser.c:2242-2244),
\* where :145-151 takes care not to consume an enclosing one.
ErrorStaysOnLine ==
  [][(Len(pitems') > Len(pitems) /\ Last(pitems').k = "err"
       /\ \A p \in At0.pos .. pst'.pos - 1 : ptoks[p] # "sb" /\ ~(ptoks[p] = "}" /\ p > 1 /\ parser__is_operator(ptoks[p - 1]))) =>
     \A p \in At0.pos .. pst'.pos - 2 : ptoks[p] = "nl" =>
       \/ OpenBlocks(ptoks, At0.pos, p)
       \/ ReadByForm(ptoks, p)
       \/ \E a \in At0.pos .. p - 1, b \in p + 1 .. pst'.pos - 1 :
            /\ ptoks[a] = "[" /\ ptoks[b] = "]"
            /\ \A q \in p .. b - 1 : ptoks[q] = "nl"]_parserVars

\* A statement that starts on a line of its own is not read as part of the if before it.
IfEndsAtNewline ==
  Accepted => \A i \in DOMAIN pitems : \A p \in pitems[i].a + 1 .. pitems[i].b :
    (ptoks[p] = "+" /\ ptoks[p - 1] = "nl") => ~(p - 2 \in DOMAIN ptoks /\ ptoks[p - 2] = "}" /\ Balanced(SubSeq(ptoks, 1, p - 1)))

\* The use declarations that survive come first, name different modules, and import
\* different names.
UsesDistinct ==
  pstage = "done" =>
    /\ \A i, j \in DOMAIN pitems : (i < j /\ IsUse(pitems[j]) /\ pitems[i].k # "err") => IsUse(pitems[i])
    /\ \A i, j \in DOMAIN pitems : (i < j /\ IsUse(pitems[i]) /\ IsUse(pitems[j])) =>
         /\ Path(ptoks, pitems[i]) # Path(ptoks, pitems[j])
         /\ Imported(ptoks, pitems[i]) \cap Imported(ptoks, pitems[j]) = {}

\* The tree accounts for every token, nests as they do, and an error stays on its line,
\* with the exceptions of blocks that NothingDropped and ErrorStaysOnLine name
\* (parser.c).
ParseSound ==
  /\ [](NothingDropped /\ SpansNest /\ QuoteLevels /\ IfEndsAtNewline /\ UsesDistinct)
  /\ ErrorStaysOnLine
=============================================================================
