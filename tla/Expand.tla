------------------------------- MODULE Expand -------------------------------
(***************************************************************************)
(* Macro expansion: ast_expand_macros and its walk over the program         *)
(* (src/syntax.c), the two ways a macro body is given its arguments and its *)
(* result taken back (the syntax objects of src/syntax.c for the bytecode   *)
(* VM, the byte wire of codegen/selfhost/macro_staging for a body staged on *)
(* the engine), and the template construction of codegen.c.  A session is   *)
(* one line after another over one macro table, as the shell keeps it.      *)
(* Running a body is the engine's work and external: a body is a template,  *)
(* or one of the ways a body fails.                                         *)
(***************************************************************************)
EXTENDS Integers, Sequences, FiniteSets, SequencesExt

CONSTANTS
  Builds,            \* subset of {"staged", "legacy", "bare"}: hook installed, VM linked, neither
  ExpandDepth,       \* the depth limit of expand__node (256)
  EXPAND_FRAME_MAX,  \* frames the chain holds (256)
  MACRO_TABLE_MAX,   \* entries of the macro table (64)
  MaxLines           \* lines of a session

ASSUME ExpandAssumption ==
  /\ Builds \subseteq {"staged", "legacy", "bare"} /\ Builds # {}
  /\ {ExpandDepth, EXPAND_FRAME_MAX, MACRO_TABLE_MAX, MaxLines} \subseteq Nat \ {0}

VARIABLES
  build,   \* how this process expands
  macros,  \* the macro table: a sequence of entries
  prog,    \* the line's items
  given,   \* the items as the parser produced them (ghost)
  es,      \* ExpandState, the process's expansion counter, the macros used
  phase,   \* [at, i]: where ast_expand_macros is
  lineNo   \* lines begun

expandVars == <<build, macros, prog, given, es, phase, lineNo>>

(***************************************************************************)
(* AST nodes: kind, value, children, scope mark, flags (is_caret +          *)
(* 2 is_gensym) and position.  A command's children are its head and        *)
(* arguments and its value the head id.  A var-ref's value is its name with *)
(* a ghost, the <<expansion, number>> that minted it.                       *)
(***************************************************************************)
Node(k, v, c, p) == [k |-> k, v |-> v, c |-> c, m |-> 0, f |-> 0, p |-> p]
SpecialForms == {"if"}
HeadId(head) == IF head.k = "str" /\ head.v \in SpecialForms THEN head.v ELSE "none"
Str(s, p) == Node("str", s, <<>>, p)
IntLit(n, big, p) == Node("int", [val |-> n, big |-> big], <<>>, p)
Var(s, p) == Node("var", [name |-> <<s>>, mint |-> <<>>], <<>>, p)
Cmd(s, args, p) == Node("cmd", HeadId(Str(s, p)), <<Str(s, p)>> \o args, p)
ErrorNode == Node("error", "none", <<>>, 0)

LeafKinds == {"int", "str", "var", "continue"}
ListKinds == {"cmd", "block", "interp", "shell"}
ChildKinds == {"quote", "synq", "unq", "unqs", "spread"}
OptKinds == {"break", "return"}
WireKinds == LeafKinds \cup ListKinds \cup ChildKinds \cup OptKinds

Upto(s, n) == SubSeq(s, 1, IF Len(s) < n THEN Len(s) ELSE n)

RECURSIVE Nodes(_)
Nodes(n) == {n} \cup UNION {Nodes(n.c[i]) : i \in DOMAIN n.c}

-----------------------------------------------------------------------------
(* syntax_from_ast / syntax_to_ast.  A syntax object x holds the kind's     *)
(* values; names are strings with a flag for the ".." a rest name is given. *)
Dotted(s) == [dots |-> TRUE, s |-> s]
Plain(s) == [dots |-> FALSE, s |-> s]
Nil == <<>>
Syn(k, x, n) == <<[k |-> k, x |-> x, m |-> n.m, f |-> n.f, p |-> n.p]>>

\* The declarations and the patterns keep their names in one sequence.
FromDeclaration(n, kids) ==
  CASE n.k = "use" -> Syn("use", <<n.v.path>> \o n.v.names, n)
    [] n.k = "defstruct" -> Syn("defstruct", <<n.v.name>> \o n.v.fields, n)
    [] OTHER -> Syn("defmacro", [items |-> <<n.v.name>> \o n.v.params, body |-> kids[1]], n)
FromPattern(n) ==
  Syn(n.k, [i \in DOMAIN n.v.names |-> Plain(n.v.names[i])]
           \o [i \in DOMAIN n.v.rest |-> Dotted(n.v.rest[i])], n)
FromShell(n, kids) == Syn("cmd", <<Syn("str", "exec", Str("exec", n.p))>> \o kids, n)

RECURSIVE syntax_from_ast(_)
syntax_from_ast(n) ==
  LET kids == [i \in DOMAIN n.c |-> syntax_from_ast(n.c[i])] IN
  CASE n.k = "int" -> Syn("int", n.v.val, n)
    [] n.k \in {"str", "var"} -> Syn(n.k, n.v, n)
    [] n.k \in {"use", "defstruct", "defmacro"} -> FromDeclaration(n, kids)
    [] n.k \in {"dvec", "dnamed"} -> FromPattern(n)
    [] n.k = "shell" -> FromShell(n, kids)
    [] n.k \in {"ctx", "error"} -> Nil
    [] OTHER -> Syn(n.k, kids, n)

\* The node of s with value v and children c: what its kind does not hold is
\* left at its zero value.
AstFrom(s, v, c) == [k |-> s.k, v |-> v, c |-> c, m |-> s.m, f |-> s.f, p |-> s.p]
ToDeclaration(s, body) ==
  CASE s.k = "use" -> AstFrom(s, [path |-> Head(s.x), names |-> Tail(s.x), binding |-> ""], <<>>)
    [] s.k = "defstruct" -> AstFrom(s, [name |-> Head(s.x), fields |-> Tail(s.x), mut |-> FALSE], <<>>)
    [] OTHER -> AstFrom(s, [name |-> Head(s.x.items), params |-> Tail(s.x.items), variadic |-> FALSE], <<body>>)
ToPattern(s) ==
  LET Named == SelectSeq(s.x, LAMBDA nm : ~nm.dots)
      Rest == SelectSeq(s.x, LAMBDA nm : nm.dots)
  IN AstFrom(s, [names |-> [i \in DOMAIN Named |-> Named[i].s],
                 rest |-> [i \in DOMAIN Rest |-> Rest[i].s], types |-> FALSE], <<>>)

RECURSIVE syntax_to_ast(_)
syntax_to_ast(sv) ==
  IF sv = Nil THEN ErrorNode
  ELSE LET s == sv[1]
           kids == [i \in DOMAIN s.x |-> syntax_to_ast(s.x[i])]
       IN CASE s.k = "int" -> AstFrom(s, [val |-> s.x, big |-> FALSE], <<>>)
            [] s.k \in {"str", "var"} -> AstFrom(s, s.x, <<>>)
            [] s.k \in {"use", "defstruct"} -> ToDeclaration(s, ErrorNode)
            [] s.k = "defmacro" -> ToDeclaration(s, syntax_to_ast(s.x.body))
            [] s.k \in {"dvec", "dnamed"} -> ToPattern(s)
            [] s.k = "cmd" -> AstFrom(s, HeadId(kids[1]), kids)
            [] OTHER -> AstFrom(s, "none", kids)

\* Kinds whose syntax object does not hold all of the node.
LosesSome(n) ==
  \/ n.k \in {"shell", "ctx", "error"}
  \/ n.k = "block" /\ n.v = "semi"
  \/ n.k = "int" /\ n.v.big
  \/ n.k = "use" /\ n.v.binding # ""
  \/ n.k = "defstruct" /\ n.v.mut
  \/ n.k = "defmacro" /\ n.v.variadic
  \/ n.k \in {"dvec", "dnamed"} /\ n.v.types
Survives(n) == \A x \in Nodes(n) : ~LosesSome(x)

-----------------------------------------------------------------------------
(* syn_wire.c: an argument becomes a run of fields, with a handle per node  *)
(* into the table of positions kept on this side.                           *)
RECURSIVE w_node(_, _), w_nodes(_, _)
w_nodes(ns, w) == IF ns = <<>> THEN w ELSE w_nodes(Tail(ns), w_node(Head(ns), w))
w_node(n, w) ==
  LET hd == [w EXCEPT !.tab = Append(@, n.p),
                      !.b = @ \o <<n.k, n.m, n.f, Len(w.tab) + 1>>]
      Put(x) == [hd EXCEPT !.b = @ \o x]
  IN CASE w.bad -> w
       [] ~w.bad /\ (n.k \notin WireKinds \/ (n.k = "int" /\ n.v.big)) -> [w EXCEPT !.bad = TRUE]
       [] OTHER ->
            CASE n.k = "int" -> Put(<<n.v.val>>)
              [] n.k \in {"str", "var"} -> Put(<<n.v>>)
              [] n.k = "continue" -> hd
              [] n.k \in ChildKinds -> w_node(n.c[1], hd)
              [] n.k \in OptKinds -> w_nodes(n.c, Put(<<Len(n.c)>>))
              [] OTHER -> w_nodes(n.c, Put(<<n.v, Len(n.c)>>))

synw_encode_args(args) == w_nodes(args, [b |-> <<>>, tab |-> <<>>, bad |-> FALSE])

(* Both readers walk the same fields; Make builds the node of their side.   *)
(* syn_rt.c's is the vector [kind, mark, flags, handle, payload...].        *)
RECURSIVE r_node(_, _), r_nodes(_, _, _)
r_joined(v, more) == [v |-> <<v>> \o more.v, at |-> more.at]
r_more(one, b, n) == r_joined(one.v, r_nodes(b, one.at, n))
r_nodes(b, at, n) ==
  IF n = 0 THEN [v |-> <<>>, at |-> at]
  ELSE r_more(r_node(b, at), b, n - 1)
r_node(b, at) ==
  LET k == b[at]
      header == SubSeq(b, at, at + 3)
      List(from, n) == LET l == r_nodes(b, from, n) IN [v |-> header \o SubSeq(b, at + 4, from - 2) \o l.v, at |-> l.at]
  IN CASE k \in {"int", "str", "var"} -> [v |-> header \o <<b[at + 4]>>, at |-> at + 5]
       [] k = "continue" -> [v |-> header, at |-> at + 4]
       [] k \in ChildKinds -> List(at + 4, 1)
       [] k \in OptKinds -> List(at + 5, b[at + 4])
       [] OTHER -> List(at + 6, b[at + 5])

(* syn_rt.c's writer: what the body returned may be any value, so it must   *)
(* have the header, or the macro is told that it returned no syntax.        *)
HeaderLen == 4
Payload(k) == IF k \in ListKinds THEN 5 ELSE HeaderLen
RECURSIVE rt_w_node(_), rt_w_nodes(_)
rt_w_nodes(vs) == IF vs = <<>> THEN <<>> ELSE rt_w_node(Head(vs)) \o rt_w_nodes(Tail(vs))
rt_w_node(v) ==
  LET k == v[1]
      rest == SubSeq(v, Payload(k) + 1, Len(v))
      header == SubSeq(v, 1, HeaderLen)
  IN CASE k \in {"int", "str", "var"} -> header \o <<v[5]>>
       [] k = "continue" -> header
       [] k \in ChildKinds -> header \o rt_w_nodes(rest)
       [] k \in OptKinds -> header \o <<Len(rest)>> \o rt_w_nodes(rest)
       [] OTHER -> header \o <<v[5], Len(rest)>> \o rt_w_nodes(rest)
IsSyntax(v) == Len(v) >= HeaderLen

(* syn_wire.c's reader: a node with a handle gets its own position back,    *)
(* one the macro made the call's; a gensym of this run gets its number.     *)
MutWhere(tab, h, callPos) == IF h + 1 \in 1..Len(tab) THEN tab[h + 1] ELSE callPos
r_where(tab, h, callPos) == IF h \in 1..Len(tab) THEN tab[h] ELSE callPos
MutNameGensym(v, h, f, exp) == IF f < 2 THEN v ELSE [v EXCEPT !.name = Append(@, exp)]
r_name_gensym(v, h, f, exp) == IF h # 0 \/ f < 2 THEN v ELSE [v EXCEPT !.name = Append(@, exp)]
MutHeadIdOf(id, h, head) == id
HeadIdOf(id, h, head) == IF h = 0 /\ id = "none" THEN HeadId(head) ELSE id

RECURSIVE AstOf(_, _, _, _)
AstOf(v, tab, callPos, exp) ==
  LET k == v[1]
      kids == [i \in 1..(Len(v) - Payload(k)) |-> AstOf(v[Payload(k) + i], tab, callPos, exp)]
      Ast(x, c) == [k |-> k, v |-> x, c |-> c, m |-> v[2], f |-> v[3], p |-> r_where(tab, v[4], callPos)]
  IN CASE k = "int" -> Ast([val |-> v[5], big |-> FALSE], <<>>)
       [] k = "str" -> Ast(v[5], <<>>)
       [] k = "var" -> Ast(r_name_gensym(v[5], v[4], v[3], exp), <<>>)
       [] k = "cmd" -> Ast(HeadIdOf(v[5], v[4], kids[1]), kids)
       [] k \in ListKinds -> Ast(v[5], kids)
       [] OTHER -> Ast("none", kids)

-----------------------------------------------------------------------------
(* Macro bodies.  A template is an AST whose "hole" is an unquoted          *)
(* parameter, "splice" the spliced rest parameter and "mint" a gensym the   *)
(* body minted.  "raise" is a body that calls syntax-error, "junk" one that *)
(* returns something else than syntax.                                      *)
Hole(i) == Node("hole", i, <<>>, 0)
Mint(i) == Node("mint", i, <<>>, 0)
Splice == Node("splice", 0, <<>>, 0)

\* compile_synquote and syn_rt.c's make-syntax: the value a staged body builds.
RECURSIVE compile_synquote(_, _, _), syn_push_items(_, _, _)
syn_push_items(items, args, exp) ==
  IF items = <<>> THEN <<>>
  ELSE (IF Head(items).k = "splice" THEN args.rest ELSE <<compile_synquote(Head(items), args, exp)>>)
       \o syn_push_items(Tail(items), args, exp)
compile_synquote(t, args, exp) ==
  CASE t.k = "hole" -> args.fixed[t.v]
    [] t.k = "junk" -> <<"junk">>
    [] t.k = "mint" -> <<"var", 0, 2, 0, [name |-> <<"g", t.v>>, mint |-> <<exp, t.v>>]>>
    [] t.k = "int" -> <<"int", t.m, t.f, 0, t.v.val>>
    [] t.k \in {"str", "var"} -> <<t.k, t.m, t.f, 0, t.v>>
    [] t.k \in ListKinds -> <<t.k, t.m, t.f, 0, t.v>> \o syn_push_items(t.c, args, exp)
    [] OTHER -> <<t.k, t.m, t.f, 0>> \o syn_push_items(t.c, args, exp)

\* The bytecode VM's run of the same body: what it makes carries the call's
\* mark, and its gensyms the next numbers of the state's counter.
RECURSIVE VmBuild(_, _, _, _, _), VmItems(_, _, _, _, _)
VmItems(items, args, mark, g, exp) ==
  IF items = <<>> THEN <<>>
  ELSE (IF Head(items).k = "splice" THEN args.rest ELSE <<VmBuild(Head(items), args, mark, g, exp)>>)
       \o VmItems(Tail(items), args, mark, g, exp)
VmBuild(t, args, mark, g, exp) ==
  LET at == [m |-> mark, f |-> t.f, p |-> 0] IN
  CASE t.k = "hole" -> args.fixed[t.v]
    [] t.k = "mint" -> Syn("var", [name |-> <<"g", g + t.v>>, mint |-> <<exp, t.v>>], [at EXCEPT !.f = 2])
    [] t.k = "int" -> Syn("int", t.v.val, at)
    [] t.k \in {"str", "var"} -> Syn(t.k, t.v, at)
    [] OTHER -> Syn(t.k, VmItems(t.c, args, mark, g, exp), at)
Mints(t) == Cardinality({x \in Nodes(t) : x.k = "mint"})

-----------------------------------------------------------------------------
(* The macro table and the expansion of one node.                           *)
Entry(n, builtin) ==
  [name |-> n.v.name, params |-> Len(n.v.params), variadic |-> n.v.variadic,
   builtin |-> builtin, body |-> n.c[1], closure |-> <<>>]
Found(tab, name) == {i \in DOMAIN tab : tab[i].name = name}
macro_table_lookup(tab, name) == CHOOSE i \in Found(tab, name) : \A j \in Found(tab, name) : i <= j
MinArgs(e) == IF e.variadic /\ e.params > 0 THEN e.params - 1 ELSE e.params
ArityOk(e, argc) == IF e.variadic THEN argc >= MinArgs(e) ELSE argc = e.params
Split(e, seq) == [fixed |-> SubSeq(seq, 1, MinArgs(e)), rest |-> SubSeq(seq, MinArgs(e) + 1, Len(seq))]

\* The message keeps four frames at either end of a long chain.
Shown(chain) == IF Len(chain) <= 8 THEN chain
                ELSE SubSeq(chain, 1, 4) \o SubSeq(chain, Len(chain) - 3, Len(chain))
NoErr == [why |-> "", at |-> 0, chain |-> <<>>, live |-> <<>>]
expand__set_error(st, why, at, live) ==
  [st EXCEPT !.err = [why |-> why, at |-> at, chain |-> Shown(st.frames), live |-> live]]
Failed(st) == st.err.why # ""

\* The staging hook: encode, run, take the result back.
NoExpansion(st, why, at) == [st |-> st, n |-> ErrorNode, why |-> why, at |-> at]
TakeBack(v, tab, call, st) ==
  IF ~IsSyntax(v) THEN NoExpansion(st, "not syntax", call.p)
  ELSE [st |-> st, n |-> AstOf(r_node(rt_w_node(v), 1).v, tab, call.p, st.exps), why |-> "", at |-> 0]
RunBody(e, call, st, tab, args) ==
  IF e.body.k = "raise"
  THEN NoExpansion(st, "raised", IF e.params = 0 \/ e.variadic THEN call.p
                                 ELSE r_where(tab, args.fixed[1][4], call.p))
  ELSE TakeBack(compile_synquote(e.body, args, st.exps), tab, call, st)
Staged(e, call, st, w) ==
  IF w.bad THEN NoExpansion(st, "argument", call.p)
  ELSE RunBody(e, call, st, w.tab, Split(e, r_nodes(w.b, 1, Len(call.c) - 1).v))
jacl_macro_stage_hook(e, call, st) ==
  Staged(e, call, [st EXCEPT !.exps = @ + 1], synw_encode_args(Tail(call.c)))

\* The VM path: a fresh mark, the arguments as syntax objects.
MutFreshMark(st) == [st EXCEPT !.scope = 1]
FreshMark(st) == [st EXCEPT !.scope = @ + 1]
VmResult(st, ast, at) == [st |-> st, n |-> ast, why |-> IF ast = ErrorNode THEN "invalid" ELSE "", at |-> at]
RunClosure(t, args, call, st) ==
  CASE t.k = "raise" -> NoExpansion(st, "raised", call.p)
    [] t.k = "junk"  -> NoExpansion(st, "not syntax", call.p)
    [] OTHER -> VmResult([st EXCEPT !.gens = @ + Mints(t), !.exps = @ + 1],
                         syntax_to_ast(VmBuild(t, args, st.scope, st.gens, st.exps)), call.p)
jacl_ctx_run_closure(e, call, st) ==
  IF e.closure = <<>> THEN NoExpansion(st, "no closure", call.p)
  ELSE RunClosure(e.closure[1],
         Split(e, [i \in 1..(Len(call.c) - 1) |-> syntax_from_ast(call.c[i + 1])]), call, FreshMark(st))

MutPush(st, name) == [st EXCEPT !.frames = Append(@, name)]
expand__push_frame(st, name) ==
  IF Len(st.frames) >= EXPAND_FRAME_MAX THEN st ELSE [st EXCEPT !.frames = Append(@, name)]
MutPop(st) == st
expand__pop_frame(st) == IF st.frames = <<>> THEN st ELSE [st EXCEPT !.frames = Front(@)]

\* Walk n in place.  live names the expansions the walk is inside of (ghost).
RECURSIVE expand__node(_, _, _, _, _, _), ExpandAll(_, _, _, _, _, _)
Consed(n, more) == [c |-> <<n>> \o more.c, st |-> more.st]
AfterOne(one, ns, tab, b, depth, live) == Consed(one.n, ExpandAll(ns, tab, b, one.st, depth, live))
ExpandAll(ns, tab, b, st, depth, live) ==
  IF ns = <<>> \/ Failed(st) THEN [c |-> ns, st |-> st]
  ELSE AfterOne(expand__node(Head(ns), tab, b, st, depth, live), Tail(ns), tab, b, depth, live)
MutDescends(n) == n.k = "block"
Descends(n) == n.k \in {"cmd", "block"}
IsCall(n, tab) == n.k = "cmd" /\ n.c[1].k = "str" /\ Found(tab, n.c[1].v) # {}
WithKids(n, kids) == [n |-> [n EXCEPT !.c = kids.c], st |-> kids.st]

\* The engine the build has.
RunMacro(b, e, call, st) ==
  CASE b = "staged" -> jacl_macro_stage_hook(e, call, st)
    [] b = "legacy" -> jacl_ctx_run_closure(e, call, st)
    [] OTHER -> [st |-> st, n |-> ErrorNode, why |-> "no engine", at |-> call.p]
Used(st, e, b) == [st EXCEPT !.used = @ \cup {<<e.name, IF b = "legacy" THEN e.closure ELSE <<e.body>> >>}]

\* What a macro returned is expanded in its place, one frame deeper.
Unframed(in) == [n |-> in.n, st |-> expand__pop_frame(in.st)]
Reexpand(r, n, name, tab, b, depth, live) ==
  IF r.why # "" THEN [n |-> n, st |-> expand__set_error(r.st, r.why, r.at, live)]
  ELSE Unframed(expand__node(r.n, tab, b, expand__push_frame(r.st, name), depth + 1, Append(live, name)))
ExpandCall(n, e, tab, b, st, depth, live) ==
  IF ~ArityOk(e, Len(n.c) - 1) THEN [n |-> n, st |-> expand__set_error(st, "arity", n.p, live)]
  ELSE Reexpand(RunMacro(b, e, n, Used(st, e, b)), n, e.name, tab, b, depth, live)
expand__node(n, tab, b, st, depth, live) ==
  CASE depth > ExpandDepth -> [n |-> n, st |-> expand__set_error(st, "depth", n.p, live)]
    [] depth <= ExpandDepth /\ IsCall(n, tab) ->
         ExpandCall(n, tab[macro_table_lookup(tab, n.c[1].v)], tab, b, st, depth, live)
    [] depth <= ExpandDepth /\ ~IsCall(n, tab) /\ Descends(n) ->
         WithKids(n, ExpandAll(n.c, tab, b, st, depth, live))
    [] OTHER -> [n |-> n, st |-> st]

-----------------------------------------------------------------------------
(* The lines of a session.                                                   *)
Def(name, params, variadic, body) ==
  Node("defmacro", [name |-> name, params |-> params, variadic |-> variadic], <<body>>, 1)
Bodies ==
  { Cmd("f", <<Str("t", 0), Mint(0), Hole(1)>>, 0),
    Cmd("f", <<Mint(0), Cmd("n", <<Mint(0)>>, 0)>>, 0),
    Cmd("f", <<Str("t", 0), Cmd("n", <<Str("t", 0)>>, 0)>>, 0),
    Node("block", "none", <<Cmd("m", <<Hole(1)>>, 0)>>, 0),
    Hole(1), Cmd("n", <<Hole(1)>>, 0),
    Node("cmd", "none", <<Hole(1)>>, 0),
    Node("raise", "", <<>>, 0), Node("junk", "", <<>>, 0) }
Defs == {Def(nm, <<"a">>, FALSE, t) : nm \in {"m", "n"}, t \in Bodies}
        \cup {Def("m", <<"rest">>, TRUE, Cmd("f", <<Splice>>, 0)),
              Def("and", <<"a">>, FALSE, Cmd("f", <<Str("t", 0), Mint(0), Hole(1)>>, 0)),
              Def("if", <<"a">>, FALSE, Hole(1))}
Arguments ==
  { Str("if", 2), IntLit(7, FALSE, 2), IntLit(0, TRUE, 2), Var("x", 2), Cmd("n", <<Var("x", 3)>>, 2),
    Node("block", "semi", <<Cmd("f", <<>>, 3)>>, 2), Node("block", "none", <<Cmd("n", <<IntLit(7, FALSE, 4)>>, 3)>>, 2),
    Node("interp", "none", <<Str("s", 3), Var("x", 4)>>, 2), Node("quote", "none", <<Cmd("m", <<Var("x", 4)>>, 3)>>, 2),
    Node("return", "none", <<Var("x", 3)>>, 2), Node("break", "none", <<>>, 2), Node("continue", "none", <<>>, 2),
    Node("shell", "bg", <<Str("ls", 3), Var("x", 4)>>, 2),
    Node("dnamed", [names |-> <<"a">>, rest |-> <<"r">>, types |-> FALSE], <<>>, 2),
    Node("use", [path |-> "p", names |-> <<"a", "b">>, binding |-> ""], <<>>, 2),
    Node("defstruct", [name |-> "S", fields |-> <<"i32", "x">>, mut |-> FALSE], <<>>, 2), ErrorNode }
Calls ==
  {Cmd("m", <<a>>, 1) : a \in Arguments}
  \cup { Cmd("m", <<>>, 1), Cmd("m", <<Var("x", 2), IntLit(7, FALSE, 3)>>, 1),
         Cmd("f", <<Cmd("m", <<Var("x", 3)>>, 2), Cmd("n", <<Var("x", 5)>>, 4)>>, 1),
         Cmd("and", <<Var("x", 2)>>, 1), Node("return", "none", <<Cmd("m", <<Var("x", 3)>>, 2)>>, 1) }
PreludeBody == Cmd("if", <<Hole(1)>>, 0)
Prelude == <<[Entry(Def("and", <<"a">>, FALSE, PreludeBody), TRUE) EXCEPT !.closure = <<PreludeBody>>]>>
Lines == {<<c>> : c \in Calls} \cup {<<d, c>> : d \in Defs, c \in Calls}
         \cup {<<d, c, x>> : d \in Defs, c \in Calls, x \in Defs}

ExpandInit ==
  /\ build \in Builds /\ macros = <<>> /\ prog = <<>> /\ given = <<>>
  /\ es = [frames |-> <<>>, scope |-> 0, gens |-> 0, exps |-> 0, err |-> NoErr, used |-> {}]
  /\ phase = [at |-> "idle", i |-> 0] /\ lineNo = 0

\* A line arrives: expand_macros_into gives it an expansion state of its own, all zero
\* (the expansion number is the process's), over the session's one table, and the prelude
\* is registered where it is not skipped.
BeginLine ==
  /\ phase.at \in {"idle", "failed"} /\ lineNo < MaxLines
  /\ \E line \in IF lineNo = 0 THEN Lines ELSE {given} \cup {<<c>> : c \in Calls} :
       prog' = line /\ given' = line
  /\ es' = [es EXCEPT !.frames = <<>>, !.err = NoErr, !.scope = 0, !.gens = 0, !.used = {}]
  /\ macros' = IF build = "legacy" THEN Upto(macros \o Prelude, MACRO_TABLE_MAX) ELSE macros
  /\ lineNo' = lineNo + 1 /\ phase' = [at |-> "register", i |-> 1] /\ UNCHANGED build

Advance(next) == phase' = IF phase.i < Len(prog) THEN [phase EXCEPT !.i = @ + 1] ELSE [at |-> next, i |-> 1]
Refuse(why) ==
  /\ es' = [es EXCEPT !.err = [NoErr EXCEPT !.why = why, !.at = prog[phase.i].p]]
  /\ phase' = [phase EXCEPT !.at = "failed"] /\ UNCHANGED macros

MutOverride(old, new) == [new EXCEPT !.closure = old.closure]
Override(old, new) == new
Register ==
  LET n == prog[phase.i]
      there == Found(macros, n.v.name)
      at == macro_table_lookup(macros, n.v.name)
  IN /\ phase.at = "register"
     /\ \/ /\ n.k # "defmacro" /\ Advance("compile") /\ UNCHANGED <<macros, es>>
        \/ n.k = "defmacro" /\ n.v.name \in SpecialForms /\ Refuse("special form")
        \/ /\ n.k = "defmacro" /\ n.v.name \notin SpecialForms /\ there # {} /\ ~macros[at].builtin
           /\ Refuse("already defined")
        \/ /\ n.k = "defmacro" /\ n.v.name \notin SpecialForms /\ there # {} /\ macros[at].builtin
           /\ macros' = [macros EXCEPT ![at] = Override(macros[at], Entry(n, FALSE))]
           /\ Advance("compile") /\ UNCHANGED es
        \/ /\ n.k = "defmacro" /\ n.v.name \notin SpecialForms /\ there = {}
           /\ Len(macros) >= MACRO_TABLE_MAX /\ Refuse("too many")
        \/ /\ n.k = "defmacro" /\ n.v.name \notin SpecialForms /\ there = {}
           /\ Len(macros) < MACRO_TABLE_MAX
           /\ macros' = Append(macros, Entry(n, FALSE)) /\ Advance("compile") /\ UNCHANGED es
     /\ UNCHANGED <<build, prog, given, lineNo>>

\* Phase 2: compile what has no closure, unless bodies are staged.
Compile ==
  /\ phase.at = "compile"
  /\ macros' = <<>> \o [i \in DOMAIN macros |->
                  IF build # "legacy" \/ macros[i].closure # <<>> THEN macros[i]
                  ELSE [macros[i] EXCEPT !.closure = <<macros[i].body>>]]
  /\ IF build = "bare" /\ macros # <<>>
     THEN /\ es' = [es EXCEPT !.err = [NoErr EXCEPT !.why = "no compiler"]]
          /\ phase' = [phase EXCEPT !.at = "failed"]
     ELSE phase' = [at |-> "expand", i |-> 1] /\ UNCHANGED es
  /\ UNCHANGED <<build, prog, given, lineNo>>

\* Phase 3: one item.
ExpandItem ==
  LET n == prog[phase.i]
      r == expand__node(n, macros, build, es, 0, <<>>)
  IN /\ phase.at = "expand"
     /\ IF n.k = "defmacro" THEN Advance("idle") /\ UNCHANGED <<prog, es>>
        ELSE /\ prog' = [prog EXCEPT ![phase.i] = r.n] /\ es' = r.st
             /\ IF Failed(r.st) THEN phase' = [phase EXCEPT !.at = "failed"] ELSE Advance("idle")
     /\ UNCHANGED <<build, macros, given, lineNo>>

ExpandNext == BeginLine \/ Register \/ Compile \/ ExpandItem
ExpandSpec == ExpandInit /\ [][ExpandNext]_expandVars

-----------------------------------------------------------------------------
Done == phase.at = "idle" /\ prog # <<>>
Result == {prog[i] : i \in {j \in DOMAIN prog : prog[j].k # "defmacro"}}
AllNodes == UNION {Nodes(n) : n \in Result}

RECURSIVE Reached(_)
Reached(n) == {n} \cup (IF n.k \in {"cmd", "block"} THEN UNION {Reached(n.c[i]) : i \in DOMAIN n.c} ELSE {})

\* After a line has expanded, no call of a macro is left in a command, an
\* argument or a block, at whatever depth an expansion put it (expand__node
\* re-expands what a macro returned, with every macro of the line registered
\* first).
CallsExpanded ==
  Done => \A n \in UNION {Reached(x) : x \in Result} :
            n.k = "cmd" /\ n.c[1].k = "str" => Found(macros, n.c[1].v) = {}

\* A gensym has one name wherever the expansions carried it, and no two
\* gensyms share one: r_name_gensym names what its run minted and leaves what
\* came in as an argument.
GensymsApart ==
  Done => LET gs == {n \in AllNodes : n.k = "var" /\ n.f >= 2} IN
          \A x \in gs, y \in gs : (x.v.mint = y.v.mint) <=> (x.v.name = y.v.name)

\* What a macro introduces carries the mark of its own expansion, also after
\* passing through another macro as an argument; what the source wrote has
\* none (the VM path; a staged body marks nothing).
MarksKept ==
  Done /\ build = "legacy" =>
    /\ \A n \in AllNodes : n.k = "str" /\ n.v = "t" => n.m # 0
    /\ \A n \in AllNodes : n.k = "var" /\ n.f < 2 => n.m = 0
    /\ \A x \in AllNodes, y \in AllNodes :
         x.k = "cmd" /\ y.k = "cmd" /\ Len(x.c) = 4 /\ Len(y.c) = 4 =>
           ((x.c[2].m = y.c[2].m) <=> (x.c[3].v.mint = y.c[3].v.mint))

\* An error's chain names the expansions the failing node is inside of,
\* outermost first, and none that ended before it (expand__push_frame,
\* expand__pop_frame), up to the frames the state holds.
ChainExact ==
  phase.at = "failed" =>
    es.err.chain = Shown(Upto(es.err.live, EXPAND_FRAME_MAX))

\* A macro the line defines is the one its calls use, also where it replaces
\* one of the prelude and wherever in the line it stands.
UserWins ==
  phase.at \in {"idle", "failed"} =>
    \A u \in es.used : \A i \in DOMAIN given :
      given[i].k = "defmacro" /\ given[i].v.name = u[1] => u[2] = <<given[i].c[1]>>

\* A macro that returns its argument leaves it as it was, position included:
\* through the wire anything it accepts, through a syntax object every kind
\* that object holds (LosesSome names the rest).
ReturnsItsArgument ==
  /\ Done \/ phase.at = "failed"
  /\ Len(given) = 2 /\ given[1].k = "defmacro" /\ given[1].c[1] = Hole(1) /\ given[1].v.name = "m"
  /\ given[2].k = "cmd" /\ given[2].c[1].v = "m" /\ Len(given[2].c) = 2
  /\ \A i \in DOMAIN macros : macros[i].name \in {"m", "and"}
Crosses(a) == \A x \in Nodes(a) : x.k \in WireKinds /\ ~(x.k = "int" /\ x.v.big)
IdentityKeeps ==
  ReturnsItsArgument =>
    LET a == given[2].c[2]
        kept == IF build = "staged" THEN Crosses(a) ELSE Survives(a)
    IN \/ Done /\ (prog[2] = a \/ (build = "legacy" /\ ~kept))
       \/ phase.at = "failed" /\ ~kept
       \/ phase.at = "failed" /\ es.err.why \in {"already defined", "no compiler"}

\* Every command of an expansion has the head id the parser would have given
\* it, which is what the code generator dispatches on.
HeadsKnown ==
  Done => \A n \in AllNodes : n.k = "cmd" => n.v = HeadId(n.c[1])

\* No call of a macro is left anywhere outside a quotation.  It does not
\* hold: expand__node walks commands and blocks alone, so a call inside a
\* returned value, an interpolated string or a spread stays a call.
RECURSIVE Unquoted(_)
Unquoted(n) == {n} \cup (IF n.k \in {"quote", "synq"} THEN {} ELSE UNION {Unquoted(n.c[i]) : i \in DOMAIN n.c})
EveryCallExpanded ==
  Done => \A n \in UNION {Unquoted(x) : x \in Result} :
            n.k = "cmd" /\ n.c[1].k = "str" => Found(macros, n.c[1].v) = {}

\* Expansion leaves no call behind where it looks, keeps user names and macro names
\* apart, and its error chain is the chain of calls (syntax.c).
ExpandSound ==
  /\ CallsExpanded /\ GensymsApart /\ MarksKept /\ ChainExact
  /\ UserWins /\ IdentityKeeps /\ HeadsKnown
=============================================================================
