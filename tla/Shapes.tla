------------------------------- MODULE Shapes -------------------------------
(***************************************************************************)
(* The type-shape registry (src/src/shapes.c) and the typer's reading of   *)
(* type annotations (src/src/typer.c).  Every type the typer handles is    *)
(* one number: below TYPER_MAX_STRUCTS a struct of the program, from there *)
(* to the sentinel base an interned compound shape, from the base on a     *)
(* scalar.  A pass registers the structs, then the procs, then walks the   *)
(* program; annotations intern shapes all along.                           *)
(***************************************************************************)
EXTENDS Integers, Sequences, FiniteSets, SequencesExt

CONSTANTS
  TYPER_MAX_STRUCTS,        \* struct table size, and the first shape index
  TYPER_MAX_STRUCT_FIELDS,
  TYPER_MAX_PROC_PARAMS,
  TYPER_MAX_PROCS,
  STRUCT_REGISTRY_INIT_CAP,
  SHAPES_SCALAR_VEC_BASE,   \* the first scalar sentinel
  ChainLimit,               \* the arrow chain's fixed arrays
  ShapeSteps                \* bound: annotations and references per pass

ASSUME ShapesAssumption ==
  /\ TYPER_MAX_STRUCTS \in Nat /\ TYPER_MAX_STRUCTS > 2
  /\ STRUCT_REGISTRY_INIT_CAP \in Nat \ {0}
  /\ SHAPES_SCALAR_VEC_BASE > TYPER_MAX_STRUCTS + STRUCT_REGISTRY_INIT_CAP

VARIABLES
  tprog,      \* the program: its imported names, structs, ctx fields and procs
  tstage,     \* "structs", "procs", "walk"
  structs,    \* the struct table; index i is structs[i + 1]
  treg,       \* the shape registry
  procs,      \* the proc table
  thandled,   \* procs of the program walked so far
  tyAsked,    \* annotations read: form, expression and what the typer made of it
  tyConf      \* closures returned where a [Proc ..] is declared, and the verdict

shapeVars == <<tprog, tstage, structs, treg, procs, thandled, tyAsked, tyConf>>

UINT32_MAX == SHAPES_SCALAR_VEC_BASE + 1000

-----------------------------------------------------------------------------
(* Type expressions, as the parser hands them over. *)

TyWord(w)   == [kind |-> "word", name |-> w, num |-> 0, args |-> <<>>]
TyInt(n)    == [kind |-> "int", name |-> "", num |-> n, args |-> <<>>]
TyCmd(h, a) == [kind |-> "cmd", name |-> h, num |-> 0, args |-> a]
TyList(a)   == [kind |-> "list", name |-> "", num |-> 0, args |-> a]

IsTyCmd(e, h) == e.kind = "cmd" /\ e.name = h

JaclType ==
  <<"dyn", "bool", "nil", "i32", "i64", "u32", "u64", "f32", "f64", "str", "vec", "map",
    "closure", "struct", "stream", "typed-vec", "typed-map", "future", "ptr", "box",
    "buf", "i8", "u8", "i16", "u16", "arr", "typed-arr">>

type_keyword_table ==
  {"i8", "u8", "i16", "u16", "i32", "i64", "u32", "u64", "f32", "f64", "str", "vec",
   "map", "dyn", "bool", "stream"}

JACL_SCALAR_TYPE_IDX(t) ==
  SHAPES_SCALAR_VEC_BASE + (CHOOSE i \in DOMAIN JaclType : JaclType[i] = t) - 1
JACL_IS_SCALAR_TYPE_IDX(i) ==
  i >= SHAPES_SCALAR_VEC_BASE /\ i < SHAPES_SCALAR_VEC_BASE + 256
JACL_TYPE_IDX_TO_SCALAR(i) == JaclType[i - SHAPES_SCALAR_VEC_BASE + 1]

LeastOf(S) == CHOOSE i \in S : \A j \in S : i <= j

\* The index of the struct named n; the first one registered wins.
typer__struct_index(ss, n) ==
  LET at == {i \in DOMAIN ss : n # "" /\ ss[i].name = n}
  IN IF at = {} THEN UINT32_MAX ELSE LeastOf(at) - 1

\* A keyword is its sentinel, a known struct its index.
typer__resolve_typename_idx(ss, e) ==
  IF e.kind # "word" THEN UINT32_MAX
  ELSE IF e.name \in type_keyword_table THEN JACL_SCALAR_TYPE_IDX(e.name)
  ELSE typer__struct_index(ss, e.name)

-----------------------------------------------------------------------------
(* The registry.  Its first TYPER_MAX_STRUCTS slots are reserved and empty, *)
(* so slot i holds ents[i - TYPER_MAX_STRUCTS + 1].                          *)

struct_registry__init_at_offset ==
  [cap |-> TYPER_MAX_STRUCTS + STRUCT_REGISTRY_INIT_CAP, ents |-> <<>>, pool |-> <<>>]

RegCount(r)  == TYPER_MAX_STRUCTS + Len(r.ents)
ShapeAt(r, i) == r.ents[i - TYPER_MAX_STRUCTS + 1]

\* An index that names a parametric entry, told by the entry and not by a range.
typer__is_shape_idx(r, i) == i >= TYPER_MAX_STRUCTS /\ i < RegCount(r)

MutGrow(r) == [ok |-> TRUE, reg |-> [r EXCEPT !.cap = IF RegCount(r) < @ THEN @ ELSE 2 * @]]

\* Doubles the capacity, and refuses to reach the sentinels.
struct_registry__grow(r) ==
  LET twice == 2 * r.cap
      ncap == IF twice < STRUCT_REGISTRY_INIT_CAP THEN STRUCT_REGISTRY_INIT_CAP ELSE twice
  IN CASE RegCount(r) < r.cap            -> [ok |-> TRUE, reg |-> r]
       [] RegCount(r) >= r.cap
          /\ ncap >= SHAPES_SCALAR_VEC_BASE -> [ok |-> FALSE, reg |-> r]
       [] OTHER                          -> [ok |-> TRUE, reg |-> [r EXCEPT !.cap = ncap]]

\* A registry and the index made in it.
Indexed(r, i) == [reg |-> r, idx |-> i]
NoShape(r) == Indexed(r, UINT32_MAX)

\* A new entry, with its parameters in the side pool; no index when there is no room.
Added(g, s, ps) ==
  IF ~g.ok THEN NoShape(g.reg)
  ELSE Indexed([g.reg EXCEPT !.ents = Append(@, s), !.pool = @ \o ps], RegCount(g.reg))

\* The first of the entries that are the same shape, or a new one.
FoundOr(r, same, s, ps) ==
  IF same # {} THEN Indexed(r, TYPER_MAX_STRUCTS + LeastOf(same) - 1)
  ELSE Added(struct_registry__grow(r), s, ps)

Interned(r, s) == FoundOr(r, {i \in DOMAIN r.ents : r.ents[i] = s}, s, <<>>)

TypeShape(k, a, b) == [kind |-> k, a |-> a, b |-> b, n |-> 0]

type_shape_intern_typed_vec(r, e)    == Interned(r, TypeShape("typed-vec", e, 0))
type_shape_intern_typed_arr(r, e)    == Interned(r, TypeShape("typed-arr", e, 0))

MutInternMap(r, k, v) ==
  FoundOr(r, {i \in DOMAIN r.ents : r.ents[i].kind = "typed-map" /\ r.ents[i].b = v},
          TypeShape("typed-map", k, v), <<>>)
type_shape_intern_typed_map(r, k, v) == Interned(r, TypeShape("typed-map", k, v))
type_shape_intern_buf(r, n, e)       == Interned(r, TypeShape("buf", e, n))
type_shape_intern_ptr(r, e)          == Interned(r, TypeShape("ptr", e, 0))
type_shape_intern_future(r, e)       == Interned(r, TypeShape("future", e, 0))
type_shape_intern_box(r, e)          == Interned(r, TypeShape("box", e, 0))

ProcParams(r, s) == SubSeq(r.pool, s.b + 1, s.b + s.n)

\* A signature: its parameters lie in the side pool, the entry holds where.
type_shape_intern_proc(r, ps, ret) ==
  FoundOr(r, {i \in DOMAIN r.ents : /\ r.ents[i].kind = "closure" /\ r.ents[i].n = Len(ps)
                                    /\ r.ents[i].a = ret /\ ProcParams(r, r.ents[i]) = ps},
          [kind |-> "closure", a |-> ret, b |-> Len(r.pool), n |-> Len(ps)], ps)

-----------------------------------------------------------------------------
(* Reading annotations.  A recogniser that interns returns the registry.     *)

\* [H T] with one type name; an unknown name is still recognised, as dyn.
NamedElem(ss, e, h) ==
  LET is == IsTyCmd(e, h) /\ Len(e.args) = 1 /\ e.args[1].kind = "word"
  IN [is |-> is,
      idx |-> IF is THEN typer__resolve_typename_idx(ss, e.args[1]) ELSE UINT32_MAX]

typer__future_type(ss, e) == NamedElem(ss, e, "Future")
typer__box_type(ss, e)    == NamedElem(ss, e, "Box")
typer__arr_type(ss, e)    == NamedElem(ss, e, "Arr")
typer__stream_type(ss, e) ==
  [NamedElem(ss, e, "Stream") EXCEPT !.idx = IF @ = JACL_SCALAR_TYPE_IDX("dyn") THEN UINT32_MAX ELSE @]

\* Read only with type names inside: 1 for [Vec T], 3 for [Map K V].
typer__typed_collection_kind(e) ==
  CASE IsTyCmd(e, "Vec") /\ Len(e.args) = 1 /\ e.args[1].kind = "word" -> 1
    [] IsTyCmd(e, "Map") /\ Len(e.args) = 2
       /\ e.args[1].kind = "word" /\ e.args[2].kind = "word"           -> 3
    [] OTHER                                                           -> 0

\* The removed [Map V], which every place that resolves a type reports.
typer__map_v_form(e) == IsTyCmd(e, "Map") /\ Len(e.args) = 1

\* What an encoding is: its JaclType, and the encodings of its value and its key.
typer__buf_elem_decode(r, enc) ==
  LET D(t, v, k) == [type |-> t, v |-> v, k |-> k]
  IN CASE enc = UINT32_MAX              -> D("dyn", UINT32_MAX, UINT32_MAX)
       [] JACL_IS_SCALAR_TYPE_IDX(enc)  ->
            D(JACL_TYPE_IDX_TO_SCALAR(enc), UINT32_MAX, UINT32_MAX)
       [] typer__is_shape_idx(r, enc)   ->
            (LET s == ShapeAt(r, enc)
             IN IF s.kind = "typed-map" THEN D("typed-map", s.b, s.a)
                ELSE D(s.kind, s.a, UINT32_MAX))
       [] OTHER                         -> D("struct", UINT32_MAX, UINT32_MAX)

DynKey(k) == IF k = JACL_SCALAR_TYPE_IDX("dyn") THEN UINT32_MAX ELSE k

RECURSIVE typer__nested_elem_shape(_, _, _), typer__buf_type_full(_, _, _)

\* An argument of a compound element: a name, or a compound of its own.
ElemArg(ss, r, a) ==
  IF a.kind = "cmd" THEN typer__nested_elem_shape(ss, r, a)
  ELSE Indexed(r, typer__resolve_typename_idx(ss, a))

WithElemIdx(st, x) == [reg |-> x.reg, got |-> Append(st.got, x.idx), bad |-> x.idx = UINT32_MAX]

\* The arguments, up to the first that is no type.
RECURSIVE ElemArgs(_, _, _)
ElemArgs(ss, st, args) ==
  IF st.bad \/ args = <<>> THEN st
  ELSE ElemArgs(ss, WithElemIdx(st, ElemArg(ss, st.reg, Head(args))), Tail(args))

\* The collection of these elements.
CollectionOf(st, h, n) ==
  CASE h = "Vec" /\ n = 1 /\ ~st.bad -> type_shape_intern_typed_vec(st.reg, st.got[1])
    [] h = "Arr" /\ n = 1 /\ ~st.bad -> type_shape_intern_typed_arr(st.reg, st.got[1])
    [] h = "Map" /\ n = 2 /\ ~st.bad ->
         type_shape_intern_typed_map(st.reg, DynKey(st.got[1]), st.got[2])
    [] OTHER                         -> NoShape(st.reg)

\* One slot of a signature: its encoding, or none when it is not supported.
typer__proc_sig_elem(ss, r, e) == ElemArg(ss, r, e)

WithSlot(st, x) ==
  [st EXCEPT !.reg = x.reg, !.ps = Append(@, x.idx), !.sup = @ /\ x.idx # UINT32_MAX]

\* The parameter list is read whole even when a slot is not supported, unless it is longer
\* than the table.
RECURSIVE SigSlots(_, _, _)
SigSlots(ss, st, args) ==
  IF args = <<>> \/ st.stop THEN st
  ELSE IF Len(st.ps) >= TYPER_MAX_PROC_PARAMS THEN [st EXCEPT !.stop = TRUE, !.sup = FALSE]
  ELSE SigSlots(ss, WithSlot(st, typer__proc_sig_elem(ss, st.reg, Head(args))), Tail(args))

SigReturn(st, x) == [st EXCEPT !.reg = x.reg, !.ret = x.idx, !.sup = @ /\ x.idx # UINT32_MAX]

WithReturn(ss, st, args) ==
  IF st.stop \/ Len(args) = 1 THEN st
  ELSE SigReturn(st, typer__proc_sig_elem(ss, st.reg, args[2]))

\* [Proc [P ..] R].
typer__proc_type(ss, r, e) ==
  IF Len(e.args) \notin {1, 2} \/ e.args[1].kind # "list"
  THEN [reg |-> r, ps |-> <<>>, sup |-> FALSE, stop |-> TRUE, ret |-> JACL_SCALAR_TYPE_IDX("dyn")]
  ELSE WithReturn(ss, SigSlots(ss, [reg |-> r, ps |-> <<>>, sup |-> TRUE, stop |-> FALSE,
                                    ret |-> JACL_SCALAR_TYPE_IDX("dyn")], e.args[1].args), e.args)

SigShape(p) == IF p.sup THEN type_shape_intern_proc(p.reg, p.ps, p.ret) ELSE NoShape(p.reg)

typer__intern_proc_shape(ss, r, e) == SigShape(typer__proc_type(ss, r, e))

\* [Vec T], [Arr T], [Map K V] or [Proc ..] as an element, at any depth.
typer__nested_elem_shape(ss, r, e) ==
  IF e.kind # "cmd" THEN NoShape(r)
  ELSE IF e.name = "Proc" THEN typer__intern_proc_shape(ss, r, e)
  ELSE CollectionOf(ElemArgs(ss, [reg |-> r, got |-> <<>>, bad |-> FALSE],
                             SubSeq(e.args, 1, IF Len(e.args) < 2 THEN Len(e.args) ELSE 2)),
                    e.name, Len(e.args))

MutBufShape(b) == Indexed(b.reg, b.idx)

\* A buffer read as an element: a shape, if its length and its element are right.
BufShape(b) ==
  IF b.len > 0 /\ b.idx # UINT32_MAX THEN type_shape_intern_buf(b.reg, b.len, b.idx)
  ELSE NoShape(b.reg)

PtrTo(is, x) == [is |-> is, reg |-> x.reg, idx |-> x.idx]

\* [Ptr T]: a name, or a buffer passed as a slice; anything else points at dyn.
typer__ptr_type(ss, r, e) ==
  IF ~IsTyCmd(e, "Ptr") \/ Len(e.args) # 1 THEN PtrTo(FALSE, NoShape(r))
  ELSE PtrTo(TRUE,
         CASE e.args[1].kind = "word"    -> Indexed(r, typer__resolve_typename_idx(ss, e.args[1]))
           [] IsTyCmd(e.args[1], "Buf")  -> BufShape(typer__buf_type_full(ss, r, e.args[1]))
           [] OTHER                      -> NoShape(r))

\* The collection of names a buffer holds.
CollectionOfNames(r, ids) ==
  IF UINT32_MAX \in {ids[k] : k \in DOMAIN ids} THEN NoShape(r)
  ELSE IF Len(ids) = 1 THEN type_shape_intern_typed_vec(r, ids[1])
  ELSE type_shape_intern_typed_map(r, DynKey(ids[1]), ids[2])

\* The element of a buffer that is a [Vec T] or a [Map K V] of names.
BufCollection(ss, r, t) ==
  CollectionOfNames(r, [k \in 1..Len(t.args) |-> typer__resolve_typename_idx(ss, t.args[k])])

PointerOr(r, p, f, b) ==
  CASE p.is            -> type_shape_intern_ptr(p.reg, p.idx)
    [] ~p.is /\ f.is   -> type_shape_intern_future(r, f.idx)
    [] ~p.is /\ b.is   -> type_shape_intern_box(r, b.idx)
    [] OTHER           -> NoShape(r)

\* The element of a buffer that is a pointer, a future or a box.
BufReference(ss, r, t) ==
  PointerOr(r, typer__ptr_type(ss, r, t), typer__future_type(ss, t), typer__box_type(ss, t))

\* The element of a buffer that is a buffer.
BufNested(ss, r, t) == BufShape(typer__buf_type_full(ss, r, t))

BufOf(is, x, n) == [is |-> is, reg |-> x.reg, idx |-> x.idx, len |-> n]

BufElem(ss, r, t) ==
  CASE t.kind = "word"                           -> Indexed(r, typer__resolve_typename_idx(ss, t))
    [] IsTyCmd(t, "Buf")                         -> BufNested(ss, r, t)
    [] typer__typed_collection_kind(t) # 0       -> BufCollection(ss, r, t)
    [] t.kind = "cmd" /\ t.name # "Buf"
       /\ typer__typed_collection_kind(t) = 0    -> BufReference(ss, r, t)
    [] OTHER                                     -> NoShape(r)

\* [Buf N T]: recognised by its head alone; length 0 and UINT32_MAX say what is wrong.
typer__buf_type_full(ss, r, e) ==
  IF ~IsTyCmd(e, "Buf") \/ Len(e.args) # 2 THEN BufOf(IsTyCmd(e, "Buf"), NoShape(r), 0)
  ELSE BufOf(TRUE, BufElem(ss, r, e.args[2]),
             IF e.args[1].kind = "int" /\ e.args[1].num > 0 THEN e.args[1].num ELSE 0)

-----------------------------------------------------------------------------
(* Parameters and return types.                                              *)

\* A str or dyn element selects the plain collection; str leaves its stamp.
Erased(t, i) ==
  LET ref == i = JACL_SCALAR_TYPE_IDX("str") \/ i = JACL_SCALAR_TYPE_IDX("dyn")
      plain == CASE t = "typed-vec" -> "vec" [] t = "typed-map" -> "map"
                 [] t = "typed-arr" -> "arr" [] OTHER -> t
  IN IF ref THEN [type |-> plain, idx |-> IF i = JACL_SCALAR_TYPE_IDX("dyn") THEN UINT32_MAX ELSE i]
     ELSE [type |-> t, idx |-> i]

TyParam(t, i, s) == [type |-> t, sidx |-> i, shape |-> s]

PtrParam(p) == [early |-> p.reg, late |-> p.reg, par |-> TyParam("ptr", p.idx, p.idx)]

SigParam(q) ==
  [early |-> q.reg, late |-> q.reg,
   par |-> IF q.idx # UINT32_MAX THEN TyParam("closure", q.idx, q.idx)
           ELSE TyParam("dyn", UINT32_MAX, UINT32_MAX)]

CollectionParam(r, er, s) ==
  [early |-> r, late |-> s.reg,
   par |-> TyParam(er.type, er.idx, IF s.idx # UINT32_MAX THEN s.idx ELSE er.idx)]

\* The type and element a collection annotation gives: a map's values, not its keys.
CollectionType(ss, e) ==
  CASE typer__typed_collection_kind(e) = 1 -> Erased("typed-vec", typer__resolve_typename_idx(ss, e.args[1]))
    [] typer__typed_collection_kind(e) = 3 -> Erased("typed-map", typer__resolve_typename_idx(ss, e.args[2]))
    [] typer__arr_type(ss, e).is           -> Erased("typed-arr", typer__arr_type(ss, e).idx)
    [] OTHER                               -> Erased("dyn", UINT32_MAX)

\* A parameter's compound type, before its name is seen: a pointer and a signature
\* are interned at once, a collection only when its name follows.
CompoundParam(ss, r, e) ==
  IF IsTyCmd(e, "Ptr") /\ Len(e.args) = 1 THEN PtrParam(typer__ptr_type(ss, r, e))
  ELSE IF IsTyCmd(e, "Proc") THEN SigParam(typer__intern_proc_shape(ss, r, e))
  ELSE CollectionParam(r, CollectionType(ss, e), typer__nested_elem_shape(ss, r, e))

Awaiting(st, c, full) ==
  [st EXCEPT !.pend = TRUE, !.reg = c.early, !.par = c.par, !.late = IF full THEN c.late ELSE c.early]
AwaitingName(st, par) == [st EXCEPT !.pend = TRUE, !.late = st.reg, !.par = par]

\* The word of a parameter that is no compound type; i is what it resolves to.
WordParam(st, e, i) ==
  CASE e.name \in type_keyword_table                       -> AwaitingName(st, TyParam(e.name, UINT32_MAX, i))
    [] e.name \notin type_keyword_table /\ i # UINT32_MAX  -> AwaitingName(st, TyParam("struct", i, i))
    [] i = UINT32_MAX /\ e.name # "..."                    ->
         [st EXCEPT !.out = Append(@, TyParam("dyn", UINT32_MAX, JACL_SCALAR_TYPE_IDX("dyn")))]
    [] OTHER                                               -> st

ParamStep(ss, st, e, full) ==
  CASE Len(st.out) >= TYPER_MAX_PROC_PARAMS /\ ~st.pend -> st
    [] st.pend /\ e.kind = "word"  -> [st EXCEPT !.pend = FALSE, !.reg = st.late, !.out = Append(@, st.par)]
    [] st.pend /\ e.kind # "word"  -> [st EXCEPT !.pend = FALSE]
    [] ~st.pend /\ e.kind = "cmd"  -> Awaiting(st, CompoundParam(ss, st.reg, e), full)
    [] ~st.pend /\ e.kind = "word" -> WordParam(st, e, typer__resolve_typename_idx(ss, e))
    [] OTHER                       -> st

RECURSIVE ParamsFrom(_, _, _, _)
ParamsFrom(ss, st, flat, full) ==
  IF flat = <<>> THEN st ELSE ParamsFrom(ss, ParamStep(ss, st, Head(flat), full), Tail(flat), full)

\* The flat list {T x U y z}: a type takes the word after it as its name, a word that is
\* no type is a dyn parameter.  A type followed by no word is dropped.  full: the caller
\* wants the parameters' shapes, so a collection is interned.
typer__parse_params(ss, r, flat, full) ==
  ParamsFrom(ss, [reg |-> r, out |-> <<>>, pend |-> FALSE, late |-> r,
                  par |-> TyParam("dyn", UINT32_MAX, UINT32_MAX)], flat, full)

MutReturnKey(ss, e) == typer__resolve_typename_idx(ss, e.args[2])

\* The key of a [Map K V] return.
ReturnKey(ss, e) == DynKey(typer__resolve_typename_idx(ss, e.args[1]))

ReturnAs(rg, t, i, k) == [reg |-> rg, type |-> t, sidx |-> i, kidx |-> k]
NoReturn(rg) == ReturnAs(rg, "dyn", UINT32_MAX, UINT32_MAX)
RetOf(r, er) == ReturnAs(r, er.type, er.idx, UINT32_MAX)
RetIf(t, x) == IF x.idx = UINT32_MAX THEN NoReturn(x.reg) ELSE ReturnAs(x.reg, t, x.idx, UINT32_MAX)
RetPtr(p) == ReturnAs(p.reg, "ptr", p.idx, UINT32_MAX)
RetName(r, e, i) ==
  IF e.name \in type_keyword_table THEN ReturnAs(r, e.name, UINT32_MAX, UINT32_MAX)
  ELSE RetIf("struct", Indexed(r, i))

\* A return annotation as (type, element index, key index).
typer__resolve_return_type(ss, r, e) ==
  CASE e.kind = "word"            -> RetName(r, e, typer__resolve_typename_idx(ss, e))
    [] IsTyCmd(e, "Proc")         -> RetIf("closure", typer__intern_proc_shape(ss, r, e))
    [] IsTyCmd(e, "Ptr") /\ Len(e.args) = 1 -> RetPtr(typer__ptr_type(ss, r, e))
    [] typer__future_type(ss, e).is -> ReturnAs(r, "future", typer__future_type(ss, e).idx, UINT32_MAX)
    [] typer__box_type(ss, e).is  -> ReturnAs(r, "box", typer__box_type(ss, e).idx, UINT32_MAX)
    [] typer__stream_type(ss, e).is -> ReturnAs(r, "stream", typer__stream_type(ss, e).idx, UINT32_MAX)
    [] typer__arr_type(ss, e).is \/ typer__typed_collection_kind(e) = 1
                                  -> RetOf(r, CollectionType(ss, e))
    [] typer__typed_collection_kind(e) = 3
                                  -> ReturnAs(r, "typed-map", typer__resolve_typename_idx(ss, e.args[2]), ReturnKey(ss, e))
    [] IsTyCmd(e, "Vec") /\ Len(e.args) = 1 /\ e.args[1].kind = "cmd"
                                  -> RetIf("vec", typer__nested_elem_shape(ss, r, e.args[1]))
    [] OTHER                      -> NoReturn(r)

\* Types a sentinel can carry in a signature.
typer__proc_shape_portable_scalar(t) ==
  t \notin {"struct", "vec", "typed-vec", "map", "typed-map", "arr", "typed-arr",
            "closure", "ptr", "box", "future", "stream", "buf"}

\* A slot of a registered proc as one index, UINT32_MAX when none can carry it.
typer__encode_proc_slot(r, t, i) ==
  CASE t \in {"struct", "closure"}             -> [reg |-> r, idx |-> i]
    [] t = "typed-vec" /\ i # UINT32_MAX       -> type_shape_intern_typed_vec(r, i)
    [] t = "typed-arr" /\ i # UINT32_MAX       -> type_shape_intern_typed_arr(r, i)
    [] typer__proc_shape_portable_scalar(t)    -> [reg |-> r, idx |-> JACL_SCALAR_TYPE_IDX(t)]
    [] OTHER                                   -> [reg |-> r, idx |-> UINT32_MAX]

\* The shape a parameter of a registered proc has, made now if it has none.
ParamSlot(r, q) ==
  IF q.shape # UINT32_MAX THEN Indexed(r, q.shape) ELSE typer__encode_proc_slot(r, q.type, q.sidx)

ReturnSlot(r, p) ==
  IF p.rtype = "typed-map" /\ p.rsidx # UINT32_MAX THEN type_shape_intern_typed_map(r, p.rkey, p.rsidx)
  ELSE typer__encode_proc_slot(r, p.rtype, p.rsidx)

RECURSIVE GlobalSlots(_, _)
GlobalSlots(st, ps) ==
  IF st.bad \/ ps = <<>> THEN st
  ELSE GlobalSlots(WithElemIdx(st, ParamSlot(st.reg, Head(ps))), Tail(ps))

SigWith(ps, x) == IF x.idx = UINT32_MAX THEN x ELSE type_shape_intern_proc(x.reg, ps, x.idx)
SlotsThenReturn(st, p) == IF st.bad THEN NoShape(st.reg) ELSE SigWith(st.got, ReturnSlot(st.reg, p))

\* The signature of a registered proc, interned for a reference to it as a value; a slot
\* that cannot be encoded leaves the reference dyn.
typer__intern_global_proc_shape(r, p) ==
  SlotsThenReturn(GlobalSlots([reg |-> r, got |-> <<>>, bad |-> FALSE], p.params), p)

\* The encoding of a literal's slot: scalars and structs only.
LiteralSlot(t, i) ==
  IF t = "struct" /\ i # UINT32_MAX THEN i
  ELSE IF typer__proc_shape_portable_scalar(t) THEN JACL_SCALAR_TYPE_IDX(t) ELSE UINT32_MAX

LiteralSig(ps, rt) ==
  IF LiteralSlot(rt.type, rt.sidx) = UINT32_MAX THEN NoShape(rt.reg)
  ELSE type_shape_intern_proc(rt.reg, ps, LiteralSlot(rt.type, rt.sidx))

\* The return type, read after the parameters.
ReturnOrDyn(ss, r, ret) == IF ret = <<>> THEN NoReturn(r) ELSE typer__resolve_return_type(ss, r, ret[1])

LiteralFrom(ss, r, ps, ret) ==
  IF \E k \in DOMAIN ps : ps[k] = UINT32_MAX THEN NoShape(r) ELSE LiteralSig(ps, ReturnOrDyn(ss, r, ret))
LiteralOf(ss, p, ret) ==
  LiteralFrom(ss, p.reg, [k \in 1..Len(p.out) |-> LiteralSlot(p.out[k].type, p.out[k].sidx)], ret)

\* The signature of a proc literal.
typer__intern_proc_literal_shape(ss, r, flat, ret) ==
  LiteralOf(ss, typer__parse_params(ss, r, flat, FALSE), ret)

MutDecodedSlot(ss, r, i) ==
  LET d == typer__buf_elem_decode(r, i)
  IN CASE JACL_IS_SCALAR_TYPE_IDX(i) -> [type |-> JACL_TYPE_IDX_TO_SCALAR(i), idx |-> UINT32_MAX]
       [] ~JACL_IS_SCALAR_TYPE_IDX(i) /\ i <= Len(ss) -> [type |-> "struct", idx |-> i]
       [] OTHER -> [type |-> d.type, idx |-> IF d.type = "closure" THEN i ELSE d.v]

\* A slot read back: its type, and the index a proc's own table would hold for it.
DecodedSlot(ss, r, i) ==
  LET d == typer__buf_elem_decode(r, i)
  IN CASE JACL_IS_SCALAR_TYPE_IDX(i) -> [type |-> JACL_TYPE_IDX_TO_SCALAR(i), idx |-> UINT32_MAX]
       [] ~JACL_IS_SCALAR_TYPE_IDX(i) /\ i < Len(ss) -> [type |-> "struct", idx |-> i]
       [] OTHER -> [type |-> d.type, idx |-> IF d.type = "closure" THEN i ELSE d.v]

typer__decode_proc_shape_ex(ss, r, i) ==
  LET s == ShapeAt(r, i)
      ps == ProcParams(r, s)
  IN [params |-> [k \in DOMAIN ps |-> DecodedSlot(ss, r, ps[k])],
      ret |-> DecodedSlot(ss, r, s.a),
      key |-> typer__buf_elem_decode(r, s.a).k]

\* Interning made equal signatures one index, so slots compare as numbers.
typer__proc_shapes_conform(r, i, j) ==
  /\ i # UINT32_MAX /\ j # UINT32_MAX
  /\ \/ i = j
     \/ /\ ShapeAt(r, i).kind = "closure" /\ ShapeAt(r, j).kind = "closure"
        /\ ShapeAt(r, i).a = ShapeAt(r, j).a
        /\ ProcParams(r, ShapeAt(r, i)) = ProcParams(r, ShapeAt(r, j))

Declared(rg, t, i, n) == [reg |-> rg, type |-> t, idx |-> i, len |-> n]

MutDefCollection(ss, r, e) ==
  Declared(r, CASE typer__typed_collection_kind(e) = 1 -> "typed-vec"
                [] typer__typed_collection_kind(e) = 3 -> "typed-map" [] OTHER -> "none",
           typer__resolve_typename_idx(ss, e.args[Len(e.args)]), 0)

DeclaredAs(r, er) == Declared(r, er.type, er.idx, 0)
DeclaredIf(t, x) == Declared(x.reg, IF x.idx = UINT32_MAX THEN "none" ELSE t, x.idx, 0)
DeclaredName(r, e, i) ==
  IF e.name \in type_keyword_table THEN Declared(r, e.name, UINT32_MAX, 0)
  ELSE DeclaredIf("struct", Indexed(r, i))
DeclaredBuf(b) == Declared(b.reg, "buf", b.idx, b.len)
DeclaredPtr(p) == Declared(p.reg, "ptr", p.idx, 0)

\* A collection annotation of a def: a str or dyn element, or a compound one, is the plain
\* collection with the element's stamp.
DefCollection(ss, r, e) ==
  CASE typer__typed_collection_kind(e) # 0 -> DeclaredAs(r, CollectionType(ss, e))
    [] e.name \in {"Vec", "Arr"} /\ Len(e.args) = 1 /\ e.args[1].kind = "cmd" ->
         DeclaredIf(IF e.name = "Arr" THEN "arr" ELSE "vec", typer__nested_elem_shape(ss, r, e.args[1]))
    [] OTHER                               -> Declared(r, "none", UINT32_MAX, 0)

\* The annotation of a def or mut; "none" leaves the form to the generic walk.
DeclaredType(ss, r, e) ==
  CASE e.kind = "word"                      -> DeclaredName(r, e, typer__resolve_typename_idx(ss, e))
    [] IsTyCmd(e, "Proc")                   -> Declared(typer__proc_type(ss, r, e).reg, "closure", UINT32_MAX, 0)
    [] typer__future_type(ss, e).is         -> Declared(r, "future", typer__future_type(ss, e).idx, 0)
    [] IsTyCmd(e, "Ptr") /\ Len(e.args) = 1 -> DeclaredPtr(typer__ptr_type(ss, r, e))
    [] typer__box_type(ss, e).is            -> Declared(r, "box", typer__box_type(ss, e).idx, 0)
    [] typer__arr_type(ss, e).is            -> DeclaredAs(r, CollectionType(ss, e))
    [] IsTyCmd(e, "Buf")                    -> DeclaredBuf(typer__buf_type_full(ss, r, e))
    [] OTHER                                -> DefCollection(ss, r, e)

\* A value of type v, with its index, given to a def declared d: dyn must be cast, another
\* type is refused, and so is a pointer to something else.
DefAccepts(d, v) ==
  d.type # "dyn" =>
    /\ v.type = d.type
    /\ (d.type = "ptr" /\ d.idx # UINT32_MAX /\ v.idx # UINT32_MAX) => d.idx = v.idx

\* A value of type v in tail position of a proc declared to return d.
ReturnAccepts(r, d, v) ==
  d.type \notin {"dyn", "stream"} =>
    /\ v.type = d.type
    /\ (d.type = "closure" /\ d.idx # UINT32_MAX /\ v.idx # UINT32_MAX)
         => typer__proc_shapes_conform(r, d.idx, v.idx)

-----------------------------------------------------------------------------
(* The struct pre-pass.  A field's type is a keyword, a buffer, a struct by  *)
(* name or an inline struct, which is registered under its own spelling.     *)

FieldKw(w)        == [kind |-> "kw", name |-> w, len |-> 0, fields |-> <<>>]
FieldName(w)      == [kind |-> "name", name |-> w, len |-> 0, fields |-> <<>>]
FieldBuf(n, w)    == [kind |-> "buf", name |-> w, len |-> n, fields |-> <<>>]
FieldInline(w, f) == [kind |-> "inline", name |-> w, len |-> 0, fields |-> f]

TyperField(t, i, n) == [type |-> t, sidx |-> i, len |-> n]

\* Struct 0 stands for dyn, struct 1 is reserved for ctx.
ReservedStructs == <<[name |-> "", fields |-> <<>>], [name |-> "", fields |-> <<>>]>>

\* Imported capitalised names stand in as structs without fields.
ImportedStructs(ss, names) ==
  FoldLeft(LAMBDA st, n : IF Len(st) >= TYPER_MAX_STRUCTS \/ typer__struct_index(st, n) # UINT32_MAX
                          THEN st ELSE Append(st, [name |-> n, fields |-> <<>>]),
           ss, names)

\* A struct's next field; me is the struct's place.
PutField(ss, me, tf) == [ss EXCEPT ![me].fields = Append(@, tf)]
InlineInner(st, me, in) ==
  IF in.idx = UINT32_MAX THEN [ss |-> in.ss, bad |-> TRUE]
  ELSE [st EXCEPT !.ss = PutField(in.ss, me, TyperField("struct", in.idx, 0))]
NamedInner(st, me, i) ==
  [st EXCEPT !.ss = PutField(@, me, TyperField(IF i = UINT32_MAX THEN "dyn" ELSE "struct", i, 0))]

RECURSIVE typer__register_inline_struct(_, _)
InlineField1(st, me, g) ==
  CASE st.bad \/ Len(st.ss[me].fields) >= TYPER_MAX_STRUCT_FIELDS -> st
    [] g.kind = "kw"     -> [st EXCEPT !.ss = PutField(@, me, TyperField(g.name, UINT32_MAX, 0))]
    [] g.kind = "inline" -> InlineInner(st, me, typer__register_inline_struct(st.ss, g))
    [] OTHER             -> NamedInner(st, me, typer__struct_index(st.ss, g.name))

RECURSIVE InlineFieldsFrom(_, _, _)
InlineFieldsFrom(st, me, gs) ==
  IF gs = <<>> THEN st ELSE InlineFieldsFrom(InlineField1(st, me, Head(gs)), me, Tail(gs))

InlineDone(st, me) == [ss |-> st.ss, idx |-> IF st.bad THEN UINT32_MAX ELSE me - 1]
InlineOr(ss, f, old) ==
  IF old # UINT32_MAX THEN [ss |-> ss, idx |-> old]
  ELSE IF Len(ss) >= TYPER_MAX_STRUCTS THEN [ss |-> ss, idx |-> UINT32_MAX]
  ELSE InlineDone(InlineFieldsFrom([ss |-> Append(ss, [name |-> f.name, fields |-> <<>>]), bad |-> FALSE],
                                   Len(ss) + 1, f.fields), Len(ss) + 1)

\* An inline struct, once per spelling; its own inline fields first.
typer__register_inline_struct(ss, f) == InlineOr(ss, f, typer__struct_index(ss, f.name))

\* A field as the first pass leaves it: a buffer's element only if it is already registered.
FirstPassField(st, f) ==
  CASE f.kind = "kw"  -> TyperField(f.name, UINT32_MAX, 0)
    [] f.kind = "buf" -> TyperField("buf", typer__resolve_typename_idx(st, TyWord(f.name)), f.len)
    [] OTHER          -> TyperField("struct", UINT32_MAX, 0)

FieldCount(d) == IF Len(d.fields) < TYPER_MAX_STRUCT_FIELDS THEN Len(d.fields) ELSE TYPER_MAX_STRUCT_FIELDS

Declare(st, d) ==
  IF Len(st) >= TYPER_MAX_STRUCTS THEN st
  ELSE Append(st, [name |-> d.name,
                   fields |-> [k \in 1..FieldCount(d) |->
                                 FirstPassField(Append(st, [name |-> d.name, fields |-> <<>>]), d.fields[k])]])

\* First pass: names and what can be resolved at once.
RECURSIVE StructPass1(_, _)
StructPass1(ss, decls) ==
  IF decls = <<>> THEN ss ELSE StructPass1(Declare(ss, Head(decls)), Tail(decls))

\* The struct a field names, registered on demand when it is written inline.
FieldStruct(ss, f) ==
  IF f.kind = "inline" THEN typer__register_inline_struct(ss, f)
  ELSE [ss |-> ss, idx |-> typer__struct_index(ss, f.name)]

MutPass2(ss, first, decls) == ss

\* A struct field gets its struct's index, if there is one.
Linked(s, k, x) == IF x.idx = UINT32_MAX THEN x.ss ELSE [x.ss EXCEPT ![s].fields[k].sidx = x.idx]

RECURSIVE LinkFields(_, _, _, _)
LinkFields(ss, s, d, k) ==
  IF k > Len(ss[s].fields) \/ k > Len(d.fields) THEN ss
  ELSE LinkFields(IF ss[s].fields[k].type # "struct" THEN ss ELSE Linked(s, k, FieldStruct(ss, d.fields[k])),
                  s, d, k + 1)

LinkStruct(ss, at, d) == IF at = {} THEN ss ELSE LinkFields(ss, LeastOf(at), d, 1)

\* Second pass: the struct-typed fields of each struct the first pass added.
RECURSIVE StructPass2(_, _, _)
StructPass2(ss, first, decls) ==
  IF decls = <<>> THEN ss
  ELSE StructPass2(LinkStruct(ss, {i \in DOMAIN ss : i > first /\ ss[i].name = Head(decls).name}, Head(decls)),
                   first, Tail(decls))

typer__register_structs(ss, decls) ==
  StructPass2(StructPass1(ss, decls), Len(ss), decls)

\* The ctx struct: pwd, then the program's ctx declarations.
typer__register_ctx_struct(ss, decls) ==
  LET Field1(fs, f) ==
        IF Len(fs) >= TYPER_MAX_STRUCT_FIELDS THEN fs
        ELSE Append(fs, IF f.kind = "kw" THEN TyperField(f.name, UINT32_MAX, 0)
                        ELSE TyperField("struct", typer__struct_index(ss, f.name), 0))
  IN [ss EXCEPT ![2] = [name |-> "ctx",
                        fields |-> FoldLeft(Field1, <<TyperField("str", UINT32_MAX, 0)>>, decls)]]

-----------------------------------------------------------------------------
(* Indexing buffers.                                                         *)

\* The encodings visible after 1, 2, .. arrows, down to the first that is no buffer.
RECURSIVE ShapesAfter(_, _)
ShapesAfter(r, enc) ==
  IF typer__is_shape_idx(r, enc) /\ ShapeAt(r, enc).kind = "buf"
  THEN <<enc>> \o ShapesAfter(r, ShapeAt(r, enc).a) ELSE <<enc>>

MutChainDim(r, len, after, k) == IF k = 1 THEN len ELSE ShapeAt(r, after[1]).b

\* The size of the dimension the k-th arrow steps into.
ChainDim(r, len, after, k) == IF k = 1 THEN len ELSE ShapeAt(r, after[k - 1]).b

\* What $b->i->j gives after k arrows, for a buffer (its element and length) or a pointer
\* to one; dyn says whether some index is not a literal.  A flat buffer, and a literal
\* chain into two dimensions, are left to the other handler.
typer__nested_buf_chain_result(r, b, k, dyn) ==
  LET sh == ShapeAt(r, b.idx)
      after == ShapesAfter(r, IF b.type = "buf" THEN b.idx ELSE sh.a)
      dims == Len(after)
      leaf == Last(after)
      scalar == JACL_TYPE_IDX_TO_SCALAR(leaf)
      no == [ok |-> FALSE, type |-> "dyn", sidx |-> UINT32_MAX, rest |-> UINT32_MAX, dim |-> 0]
      len == IF b.type = "buf" THEN b.len ELSE sh.b
      C(t, i, rs) == [ok |-> TRUE, type |-> t, sidx |-> i, rest |-> rs,
                      dim |-> ChainDim(r, len, after, k)]
  IN CASE k > ChainLimit \/ b.idx = UINT32_MAX -> no
       [] b.type = "ptr" /\ ~(typer__is_shape_idx(r, b.idx) /\ sh.kind = "buf") -> no
       [] dims > ChainLimit - 1 \/ k > dims -> no
       [] b.type = "buf" /\ (dims < 2 \/ (dims = 2 /\ ~dyn)) -> no
       [] k < dims -> C("ptr", UINT32_MAX, after[k])
       [] k = dims /\ JACL_IS_SCALAR_TYPE_IDX(leaf) ->
            C(IF scalar \in {"i8", "u8", "i16", "u16"} THEN "i32" ELSE scalar, UINT32_MAX, UINT32_MAX)
       [] OTHER -> C("struct", leaf, UINT32_MAX)

MutBufSet(r, enc, v) ==
  LET d == typer__buf_elem_decode(r, enc)
  IN \/ enc = UINT32_MAX \/ v.type = "dyn"
     \/ v.type = d.type /\ (d.v = UINT32_MAX \/ v.sidx = d.v)

\* May a value of a static type be stored in an element?  dyn always may.
typer__check_buf_set_value(r, enc, v) ==
  LET d == typer__buf_elem_decode(r, enc)
      Same(t) == v.type = t
  IN CASE enc = UINT32_MAX \/ v.type = "dyn" -> TRUE
       [] d.type \in {"i8", "u8", "i16", "u16", "i32", "u32"} -> v.type \in {"i32", "u32"}
       [] d.type = "i64"                 -> v.type \in {"i64", "i32"}
       [] d.type \in {"f32", "f64"}      -> v.type \in {"f32", "f64"}
       [] d.type \in {"typed-vec", "ptr", "future"} -> Same(d.type) /\ v.sidx = d.v
       [] d.type = "typed-map"           -> Same("typed-map") /\ v.sidx = d.v /\ v.kidx = d.k
       [] d.type = "struct"              -> Same("struct") /\ v.sidx = enc
       [] d.type = "vec"                 -> v.type \in {"vec", "typed-vec"}
       [] d.type = "map"                 -> v.type \in {"map", "typed-map"}
       [] d.type \in {"bool", "u64", "str", "stream", "closure", "box"} -> Same(d.type)
       [] OTHER                          -> TRUE

-----------------------------------------------------------------------------
(* The pass over a program.                                                  *)

ProcDecl(n, ps, ret, tail, yields) ==
  [name |-> n, ptypes |-> ps, ret |-> ret, tail |-> tail, yields |-> yields, inner |-> <<>>]

\* The same proc with procs declared in its body.
WithInner(d, ds) == [d EXCEPT !.inner = ds]

\* {T p1 U p2 p3}: an untyped parameter is its name alone.
FlatParams(d) ==
  FlattenSeq([k \in 1..Len(d.ptypes) |->
                IF d.ptypes[k] = TyWord("") THEN <<TyWord("p")>> ELSE <<d.ptypes[k], TyWord("p")>>])

\* The first proc of that name.
typer__find_proc(ps, n) == SelectSeq(ps, LAMBDA p : p.name = n)

EntryOf(d, rt, p) ==
  [reg |-> p.reg,
   entry |-> [name |-> d.name, params |-> p.out, rsidx |-> rt.sidx, rkey |-> rt.kidx,
              rtype |-> IF rt.type = "dyn" /\ d.yields THEN "stream" ELSE rt.type]]
ParamsAfter(ss, d, rt) == EntryOf(d, rt, typer__parse_params(ss, rt.reg, FlatParams(d), TRUE))

\* A declaration read: the return type first, then the parameters.
ReadDecl(ss, r, d) == ParamsAfter(ss, d, ReturnOrDyn(ss, r, d.ret))

\* A handled proc updates the first entry of its name: the return type and the parameters'
\* types, not the indices an entry already has.  A parameter past those the entry had keeps
\* whatever its slot of the table holds, which nothing has written: junk.
typer__register_proc(ps, e, junk) ==
  LET at == {i \in DOMAIN ps : ps[i].name = e.name}
      i == LeastOf(at)
      old == ps[i].params
  IN IF at = {} THEN IF Len(ps) >= TYPER_MAX_PROCS THEN ps
                     ELSE Append(ps, [e EXCEPT !.params =
                            [k \in DOMAIN @ |-> TyParam(@[k].type, UINT32_MAX, UINT32_MAX)]])
     ELSE [ps EXCEPT ![i] = [e EXCEPT !.params =
             [k \in DOMAIN @ |-> IF k \in DOMAIN old THEN TyParam(@[k].type, old[k].sidx, old[k].shape)
                                 ELSE TyParam(@[k].type, junk, junk)]]]

\* $f, no binding of that name: a closure with the proc's signature, or dyn.
typer__infer_var_ref(r, ps, n) ==
  LET found == typer__find_proc(ps, n)
  IN IF found = <<>> THEN [reg |-> r, idx |-> UINT32_MAX]
     ELSE typer__intern_global_proc_shape(r, Head(found))

RegisterStructs ==
  /\ tstage = "structs"
  /\ tstage' = "procs"
  /\ structs' = typer__register_ctx_struct(
                  typer__register_structs(ImportedStructs(ReservedStructs, tprog.uses), tprog.structs),
                  tprog.ctx)
  /\ UNCHANGED <<tprog, treg, procs, thandled, tyAsked, tyConf>>

WithEntry(st, x) == [reg |-> x.reg, procs |-> Append(st.procs, x.entry)]

\* Each declaration, then the ones in its body.  With no slot left the list ends there, the
\* return type of the first left out already read.
RECURSIVE RegisteredProcs(_, _, _)
RegisteredProcs(ss, st, ds) ==
  IF ds = <<>> THEN st
  ELSE IF Len(st.procs) >= TYPER_MAX_PROCS
       THEN [st EXCEPT !.reg = ReturnOrDyn(ss, @, Head(ds).ret).reg]
  ELSE RegisteredProcs(ss, RegisteredProcs(ss, WithEntry(st, ReadDecl(ss, st.reg, Head(ds))), Head(ds).inner),
                       Tail(ds))

\* The pre-pass over the program's procs, before any of them is walked.
typer__register_procs ==
  /\ tstage = "procs" /\ tstage' = "walk"
  /\ \E st \in {RegisteredProcs(structs, [reg |-> treg, procs |-> procs], tprog.procs)} :
       treg' = st.reg /\ procs' = st.procs
  /\ UNCHANGED <<tprog, structs, thandled, tyAsked, tyConf>>

\* The tail of a proc declared to return a signature: is v, the reference, of that one?
TailChecked(d, sig, v) ==
  [want |-> d.ret[1], proc |-> d.tail[1], ok |-> typer__proc_shapes_conform(v.reg, sig, v.idx)]

TailRead(st, d, e, v) ==
  [st EXCEPT !.reg = v.reg,
             !.conf = IF e.rtype # "closure" \/ e.rsidx = UINT32_MAX THEN @
                      ELSE @ \cup {TailChecked(d, e.rsidx, v)}]

\* A $f in tail position of a [Proc ..]-returning proc.
AfterBody(st, d, e) ==
  IF d.tail = <<>> THEN st ELSE TailRead(st, d, e, typer__infer_var_ref(st.reg, st.procs, d.tail[1]))

\* A proc is read again, its entry updated, and its body walked: the procs in it, then its
\* tail, checked against the declared signature.
RECURSIVE HandledAll(_, _, _, _)
HandledAs(ss, st, d, x, junk) ==
  AfterBody(HandledAll(ss, [st EXCEPT !.reg = x.reg, !.procs = typer__register_proc(@, x.entry, junk)],
                       d.inner, junk), d, x.entry)
HandledAll(ss, st, ds, junk) ==
  IF ds = <<>> THEN st
  ELSE HandledAll(ss, HandledAs(ss, st, Head(ds), ReadDecl(ss, st.reg, Head(ds)), junk), Tail(ds), junk)

\* The walk reaches the next proc of the program.
typer__handle_proc ==
  /\ tstage = "walk" /\ thandled < Len(tprog.procs)
  /\ \E junk \in {UINT32_MAX, JACL_SCALAR_TYPE_IDX("i64")} :
       \E st \in {HandledAll(structs, [reg |-> treg, procs |-> procs, conf |-> tyConf],
                             <<tprog.procs[thandled + 1]>>, junk)} :
         treg' = st.reg /\ procs' = st.procs /\ tyConf' = st.conf
  /\ thandled' = thandled + 1
  /\ UNCHANGED <<tprog, tstage, structs, tyAsked>>

\* What the walk makes of an annotation: a def's, the element of a collection constructor,
\* or the signature of a proc literal.
Annotated(form, e) ==
  CASE form = "def"  -> DeclaredType(structs, treg, e)
    [] form = "elem" -> DeclaredIf("", typer__nested_elem_shape(structs, treg, e))
    [] form = "lit"  -> DeclaredIf("", typer__intern_proc_literal_shape(structs, treg,
                          FlatParams(ProcDecl("", e.args[1].args, <<>>, <<>>, FALSE)), <<e.args[2]>>))

\* The walk reads an annotation.
Annotate(form, e) ==
  /\ tstage = "walk" /\ Cardinality(tyAsked) < ShapeSteps
  /\ \E x \in {Annotated(form, e)} :
       /\ treg' = x.reg
       /\ tyAsked' = tyAsked \cup {[form |-> form, e |-> e, type |-> x.type, idx |-> x.idx, len |-> x.len,
                                    full |-> ~struct_registry__grow(x.reg).ok]}
  /\ UNCHANGED <<tprog, tstage, structs, procs, thandled, tyConf>>

\* $f read anywhere in the walk.
ReferProc(n) ==
  /\ tstage = "walk"
  /\ treg' = typer__infer_var_ref(treg, procs, n).reg
  /\ UNCHANGED <<tprog, tstage, structs, procs, thandled, tyAsked, tyConf>>

-----------------------------------------------------------------------------
(* The programs and annotations of an instance.                              *)

TI == TyWord("i64")
TS == TyWord("str")
TP == TyWord("Pt")
TyVec(t) == TyCmd("Vec", <<t>>)
TyArr(t) == TyCmd("Arr", <<t>>)
TyMap(k, v) == TyCmd("Map", <<k, v>>)
TySig(ps, r) == TyCmd("Proc", <<TyList(ps), r>>)
TyBuf(n, t) == TyCmd("Buf", <<TyInt(n), t>>)
TyPtr(t) == TyCmd("Ptr", <<t>>)

SmallTypes == {TI, TS, TP, TyVec(TI), TyVec(TS), TyVec(TyVec(TI)), TyArr(TP), TyMap(TI, TI), TyMap(TS, TI),
               TyMap(TyWord("dyn"), TyVec(TI)), TySig(<<TI>>, TI), TySig(<<TyVec(TI)>>, TyMap(TI, TI))}

ManyTypes == TySig(<<TyVec(TS), TyArr(TI), TyMap(TI, TyVec(TP))>>,
                   TySig(<<TyArr(TS), TyMap(TP, TyArr(TP))>>, TyVec(TyArr(TS))))

ElemAnnotations == SmallTypes \cup {ManyTypes, TyVec(TyWord("Zz")), TyMap(TI, TyVec(TyWord("Zz")))}
BufAnnotations ==
  {TyBuf(2, t) : t \in {TI, TP, TyVec(TI), TyMap(TI, TI), TyMap(TS, TI), TyPtr(TI), TyPtr(TyBuf(2, TI)),
                        TyCmd("Future", <<TI>>), TyCmd("Box", <<TI>>), TyCmd("Box", <<TP>>), TyWord("i8")}}
  \cup {TyBuf(3, TyBuf(2, TI)), TyBuf(2, TyBuf(3, TyBuf(4, TyWord("i8")))), TyBuf(2, TyBuf(3, TyBuf(3, TP))),
        TyBuf(2, TyBuf(3, TyBuf(2, TyVec(TI))))}
PtrAnnotations == {TyPtr(TI), TyPtr(TP), TyPtr(TyBuf(2, TI)), TyPtr(TyBuf(3, TyBuf(2, TI)))}
DefAnnotations ==
  BufAnnotations \cup PtrAnnotations \cup SmallTypes
  \cup {TyCmd("Future", <<TI>>), TyCmd("Box", <<TP>>), TyArr(TS), TyMap(TI, TyWord("dyn")), TyMap(TI, TS),
        TyCmd("Map", <<TI>>), TyArr(TyVec(TI)), TyWord("Zz")}
LitAnnotations == {TySig(<<TI>>, TI), TySig(<<TP>>, TI), TySig(<<TyVec(TI)>>, TI), TySig(<<>>, TyVec(TI))}

Annotations ==
  {[form |-> "elem", e |-> e] : e \in ElemAnnotations} \cup {[form |-> "def", e |-> e] : e \in DefAnnotations}
  \cup {[form |-> "lit", e |-> e] : e \in LitAnnotations}

StructDecl(n, fs) == [name |-> n, fields |-> fs]
PtStruct == StructDecl("Pt", <<FieldKw("i64")>>)
LnStruct == StructDecl("Ln", <<FieldName("Pt"), FieldInline("In", <<FieldKw("str"), FieldName("Pt")>>)>>)

StructLists ==
  {<<PtStruct>>, <<PtStruct, LnStruct>>, <<LnStruct, PtStruct>>,
   <<StructDecl("Ln", <<FieldBuf(2, "Pt"), FieldName("Imp"), FieldName("No")>>), PtStruct>>,
   <<PtStruct, StructDecl("Aa", <<FieldName("Bb")>>), StructDecl("Bb", <<FieldName("Aa")>>)>>}

\* f has the signature asked of g, or another.
ProcLists ==
  {<<ProcDecl("g", <<>>, <<TySig(<<w>>, TI)>>, <<"f">>, FALSE),
     ProcDecl("f", <<h>>, <<TI>>, <<>>, FALSE)>> : w \in SmallTypes, h \in SmallTypes}
  \cup {<<ProcDecl("f", <<>>, IF h = TyWord("") THEN <<>> ELSE <<h>>, <<>>, h = TyWord("")),
          ProcDecl("g", <<>>, <<TySig(<<>>, w)>>, <<"f">>, FALSE)>> :
          w \in SmallTypes, h \in SmallTypes \cup {TyWord("")}}
  \cup {<<ProcDecl("f", <<TI, TyWord("")>>, <<TI>>, <<>>, FALSE),
          ProcDecl("g", <<>>, <<TySig(ps, TI)>>, <<"f">>, FALSE)>> :
          ps \in {<<TI, TyWord("dyn")>>, <<TyWord("dyn"), TI>>, <<TI>>}}
  \cup {<<ProcDecl("f", <<h>>, <<TI>>, <<>>, FALSE),
          ProcDecl("g", <<>>, <<TySig(<<TI>>, TI)>>, <<"f">>, FALSE)>> :
          h \in {TyPtr(TI), TyPtr(TyBuf(2, TI)), TyMap(TyWord("Zz"), TI)}}
  \cup {<<ProcDecl("f", <<TI>>, <<TI>>, <<>>, FALSE), ProcDecl("f", <<TS, TI>>, <<TI>>, <<>>, FALSE),
          ProcDecl("h", <<>>, <<>>, <<>>, FALSE),
          ProcDecl("g", <<>>, <<TySig(<<TI>>, TI)>>, <<"f">>, FALSE)>>}
  \cup {<<WithInner(ProcDecl("g", <<>>, <<TySig(<<w>>, TI)>>, <<"f">>, FALSE),
                 <<ProcDecl("f", <<h>>, <<TI>>, <<>>, FALSE)>>)>> : w \in SmallTypes, h \in {TI, TyVec(TI)}}
  \cup {<<WithInner(ProcDecl("h", <<>>, <<>>, <<>>, FALSE), <<ProcDecl("f", <<TI>>, <<TI>>, <<>>, FALSE)>>),
          ProcDecl("g", <<>>, <<TySig(<<TI>>, TI)>>, <<"f">>, FALSE), ProcDecl("k", <<>>, <<TyVec(TI)>>, <<>>, FALSE)>>}

TypedPrograms ==
  {[uses |-> <<"Imp">>, structs |-> s, ctx |-> <<FieldKw("i64"), FieldName("Pt")>>, procs |-> <<>>] :
     s \in StructLists}
  \cup {[uses |-> <<>>, structs |-> <<PtStruct>>, ctx |-> <<>>, procs |-> p] : p \in ProcLists}

ShapesStart ==
  /\ tstage = "structs"
  /\ structs = ReservedStructs /\ procs = <<>> /\ thandled = 0
  /\ treg = struct_registry__init_at_offset
  /\ tyAsked = {} /\ tyConf = {}
ShapesInit == tprog \in TypedPrograms /\ ShapesStart

\* The annotations are read in a program without procs: what they intern depends on the
\* structs alone.
ShapesNext ==
  \/ RegisterStructs
  \/ typer__register_procs
  \/ typer__handle_proc
  \/ \E a \in Annotations : tprog.procs = <<>> /\ Annotate(a.form, a.e)
  \/ \E n \in {"f", "g"} : ReferProc(n)

ShapesSpec == ShapesInit /\ [][ShapesNext]_shapeVars

-----------------------------------------------------------------------------
(* What the numbers stand for.                                               *)

\* The type expression an index was made from.
RECURSIVE Unfolded(_)
Unfolded(i) ==
  CASE i = UINT32_MAX             -> TyWord("dyn")
    [] JACL_IS_SCALAR_TYPE_IDX(i) -> TyWord(JACL_TYPE_IDX_TO_SCALAR(i))
    [] i < TYPER_MAX_STRUCTS      -> TyWord(structs[i + 1].name)
    [] OTHER ->
      (LET s == ShapeAt(treg, i)
           ps == ProcParams(treg, s)
       IN CASE s.kind = "typed-vec" -> TyVec(Unfolded(s.a))
            [] s.kind = "typed-arr" -> TyArr(Unfolded(s.a))
            [] s.kind = "typed-map" -> TyMap(Unfolded(s.a), Unfolded(s.b))
            [] s.kind = "buf"       -> TyBuf(s.b, Unfolded(s.a))
            [] s.kind = "ptr"       -> TyPtr(Unfolded(s.a))
            [] s.kind = "future"    -> TyCmd("Future", <<Unfolded(s.a)>>)
            [] s.kind = "box"       -> TyCmd("Box", <<Unfolded(s.a)>>)
            [] s.kind = "closure"   -> TySig([k \in DOMAIN ps |-> Unfolded(ps[k])], Unfolded(s.a)))

\* A def's annotation told back from its type and index.  A map's key and a signature are
\* not in them.
Meaning(a) ==
  LET u == Unfolded(a.idx)
  IN CASE a.form # "def"                  -> u
       [] a.type = "buf"                  -> TyBuf(a.len, u)
       [] a.type = "ptr"                  -> TyPtr(u)
       [] a.type = "future"               -> TyCmd("Future", <<u>>)
       [] a.type = "box"                  -> TyCmd("Box", <<u>>)
       [] a.type \in {"vec", "typed-vec"} -> TyVec(u)
       [] a.type \in {"arr", "typed-arr"} -> TyArr(u)
       [] a.type \in {"map", "typed-map"} -> TyMap(a.e.args[1], u)
       [] a.type = "struct"               -> u
       [] a.type \in {"closure", "none"}  -> a.e
       [] OTHER                           -> TyWord(a.type)

RECURSIVE NamesKnown(_)
NamesKnown(e) ==
  IF e.kind = "word"
  THEN e.name \in type_keyword_table \/ \E i \in DOMAIN structs : structs[i].name = e.name
  ELSE \A k \in DOMAIN e.args : NamesKnown(e.args[k])

ShapeIdxs == TYPER_MAX_STRUCTS..(RegCount(treg) - 1)

\* An index keeps standing for the annotation it was made from, whatever is interned after
\* it; an element whose names are all known is never refused while there is room; and a
\* type has one index, which is what lets the compiler compare types as numbers
\* (shapes.c, type_shape_intern_*; typer__nested_elem_shape, typer__buf_type_full).
ShapesTrue ==
  /\ \A a \in tyAsked :
       /\ (a.idx # UINT32_MAX \/ (a.form = "def" /\ a.type # "buf" /\ ~a.full)) => Meaning(a) = a.e
       /\ (a.form = "elem" /\ a.e.kind = "cmd" /\ ~a.full) => (a.idx # UINT32_MAX <=> NamesKnown(a.e))
  /\ \A i, j \in ShapeIdxs : Unfolded(i) = Unfolded(j) => i = j

\* A number is in one band only: no shape reaches the scalar sentinels however often the
\* table doubles, and an entry is built from registered structs, scalars and entries before
\* it, so no type contains itself (shapes.c:148-171, typer.c:641-656).
IndexBands ==
  /\ RegCount(treg) <= SHAPES_SCALAR_VEC_BASE
  /\ \A i \in ShapeIdxs :
       LET s == ShapeAt(treg, i)
           of == {s.a} \cup (IF s.kind = "typed-map" THEN {s.b} ELSE {})
                 \cup (IF s.kind = "closure" THEN Range(ProcParams(treg, s)) ELSE {})
       IN \A k \in of : \/ k < Len(structs) \/ JACL_IS_SCALAR_TYPE_IDX(k)
                        \/ k >= TYPER_MAX_STRUCTS /\ k < i
                        \/ k = UINT32_MAX /\ s.kind \in {"typed-map", "ptr", "future", "box"}

\* Every proc declared, those in bodies after the one they are in.
RECURSIVE AllProcs(_)
AllProcs(ds) ==
  IF ds = <<>> THEN <<>> ELSE <<Head(ds)>> \o AllProcs(Head(ds).inner) \o AllProcs(Tail(ds))

DeclaredOnce(n) == Len(SelectSeq(AllProcs(tprog.procs), LAMBDA p : p.name = n)) = 1

\* What a reference tells of a parameter's type.  Of a pointer it tells what is pointed at,
\* of a map whose key type is unknown its value type.
Seen(t) ==
  CASE t = TyWord("")                            -> TyWord("dyn")
    [] t.name = "Ptr"                            -> t.args[1]
    [] t.name = "Map" /\ ~NamesKnown(t.args[1])  -> t.args[2]
    [] OTHER                                     -> t

\* The signature of the proc a reference by that name finds, with each parameter as seen(_).
SignatureAs(n, seen(_)) ==
  LET d == Head(SelectSeq(AllProcs(tprog.procs), LAMBDA p : p.name = n))
      ret == IF d.ret # <<>> THEN d.ret[1] ELSE TyWord(IF d.yields THEN "stream" ELSE "dyn")
  IN TySig([k \in DOMAIN d.ptypes |-> seen(d.ptypes[k])], ret)

\* A closure passes where a signature is declared only if its own declared signature is that
\* one, slot by slot, and always then if the return is one a reference can carry
\* (typer__proc_shapes_conform, typer__intern_global_proc_shape, typer__resolve_return_type).
\* typer.c:2966-2973 says so of every signature; three cases fall outside.  A [Ptr T] parameter
\* passes for a T (typer.c:2573 stores the pointee's index where the parameter's shape
\* belongs), a [Map K V] one of unknown K for a V, and a proc whose name is declared twice has
\* the types of the last declaration with the indices of the first (typer.c:2943-2950).
ConformSound ==
  \A c \in tyConf : DeclaredOnce(c.proc) =>
    /\ c.ok => SignatureAs(c.proc, Seen) = c.want
    /\ (SignatureAs(c.proc, Seen) = c.want /\ c.want.args[2].kind = "word") => c.ok

\* What a call through a typed closure reads back of the signature (each slot's type, and
\* the index a proc's own entry would hold for it) is what was interned, also when the
\* struct table is full and ends where the shapes begin (typer__decode_proc_shape_ex).
\* Of the buffer that a [Ptr [Buf N T]] parameter leaves in its slot, the length is not told.
DecodeInverts ==
  \A i \in ShapeIdxs : ShapeAt(treg, i).kind = "closure" =>
    LET d == typer__decode_proc_shape_ex(structs, treg, i)
        ps == ProcParams(treg, ShapeAt(treg, i))
        Back(x, key) ==
          CASE x.type = "struct" -> IF x.idx + 1 \in DOMAIN structs THEN TyWord(structs[x.idx + 1].name)
                                    ELSE TyWord("no struct")
            [] x.type = "closure" -> Unfolded(x.idx)
            [] x.type = "typed-vec" -> TyVec(Unfolded(x.idx))
            [] x.type = "typed-arr" -> TyArr(Unfolded(x.idx))
            [] x.type = "typed-map" -> TyMap(key, Unfolded(x.idx))
            [] x.type = "buf" -> TyCmd("Buf", <<key, Unfolded(x.idx)>>)
            [] OTHER -> TyWord(x.type)
    IN /\ Back(d.ret, Unfolded(d.key)) = Unfolded(ShapeAt(treg, i).a)
       /\ \A k \in DOMAIN ps : LET u == Unfolded(ps[k])
                               IN Back(d.params[k], IF u.name \in {"Map", "Buf"} THEN u.args[1] ELSE u) = u

\* The field of a struct that names a struct, declared before or after it, imported or
\* written inline, holds that struct's index (typer__register_structs).
FieldsNamed ==
  tstage # "structs" =>
    \A d \in Range(tprog.structs) : \A k \in DOMAIN d.fields :
      LET i == typer__struct_index(structs, d.name)
          f == d.fields[k]
          at == typer__struct_index(structs, f.name)
      IN (f.kind \in {"name", "inline"} /\ i # UINT32_MAX /\ at # UINT32_MAX)
         => structs[i + 1].fields[k].sidx = at

\* The type of $b->i->j after each arrow, the layers of the buffer peeled off one by one.
RECURSIVE Peeled(_, _)
Peeled(e, k) == IF k = 0 THEN e ELSE Peeled(e.args[2], k - 1)

\* An arrow chain into a nested buffer steps through its dimensions in order: each gives
\* the size of its own, what is left is what the annotation says is left, and the last
\* gives the element: by its name for a scalar, by its index for anything else.  An element
\* that is a collection or a reference has the right index but is called a struct
\* (typer__nested_buf_chain_result, typer.c:922-925).
ChainsTyped ==
  \A a \in tyAsked : \A k \in 1..3, dyn \in BOOLEAN :
    LET b == [type |-> a.type, idx |-> a.idx, len |-> a.len]
        c == typer__nested_buf_chain_result(treg, b, k, dyn)
        e == IF a.type = "ptr" THEN a.e.args[1] ELSE a.e
        leaf == Peeled(e, k)
    IN (a.type \in {"buf", "ptr"} /\ e.name = "Buf" /\ c.ok) =>
         /\ c.dim = Peeled(e, k - 1).args[1].num
         /\ c.type = "ptr" => Unfolded(c.rest) = leaf
         /\ c.type = "struct" => Unfolded(c.sidx) = leaf
         /\ c.type \notin {"ptr", "struct"} =>
              TyWord(c.type) = IF leaf = TyWord("i8") THEN TyWord("i32") ELSE leaf

\* A value read from one buffer may be stored in another exactly when the element types are
\* the same, for elements that are structs, typed collections, pointers or futures; a box is
\* taken whatever is in it, so [Buf N [Box i64]] takes a [Box Pt]
\* (typer__check_buf_set_value, typer.c:1010; the comment at :960-963 is about such a gap).
SetsExact ==
  \A a, b \in tyAsked :
    LET d == typer__buf_elem_decode(treg, b.idx)
        v == [type |-> d.type, sidx |-> IF d.type = "struct" THEN b.idx ELSE d.v, kidx |-> d.k]
        to == typer__buf_elem_decode(treg, a.idx).type
    IN (a.type = "buf" /\ b.type = "buf" /\ a.idx # UINT32_MAX /\ b.idx # UINT32_MAX
        /\ to \in {"typed-vec", "typed-map", "ptr", "future", "struct", "box"})
       => (typer__check_buf_set_value(treg, a.idx, v)
           <=> a.e.args[2] = b.e.args[2] \/ (to = "box" /\ d.type = "box"))

\* The type a parameter declared e has in the body.
ParamType(e) ==
  LET p == Head(typer__parse_params(structs, treg, <<e, TyWord("p")>>, TRUE).out)
  IN [type |-> p.type, idx |-> p.sidx]

SiteAgrees(e) ==
  \A p \in {ParamType(e)}, r \in {typer__resolve_return_type(structs, treg, e)} :
    /\ DefAccepts(DeclaredType(structs, treg, e), p)
    /\ ReturnAccepts(r.reg, [type |-> r.type, idx |-> r.sidx], p)

Parametric == {e \in DefAnnotations : e.name \in {"Vec", "Arr", "Map", "Ptr"} /\ NamesKnown(e)
                                      /\ ~typer__map_v_form(e)}

\* A collection of names, and no map of references: the annotations every site reads alike.
ReadAlike(e) ==
  \/ e.name = "Ptr"
  \/ /\ \A k \in DOMAIN e.args : e.args[k].kind = "word"
     /\ ~(e.name = "Map" /\ e.args[2].name \in {"str", "dyn"})

\* One annotation means one type wherever it is written: a parameter declared [Map K V],
\* [Vec T], [Arr T] or [Ptr T] may be bound by a def of that annotation and returned from a
\* proc declared to return it.  It holds exactly of the annotations above: a [Map K str] or
\* [Map K dyn] parameter is a plain map and that return a typed one, and a parameter of a
\* compound element is dyn, so each is refused where it was declared the same
\* (typer__parse_params, typer__resolve_return_type, typer__handle_def_or_mut).
SitesAgree == tstage = "walk" => \A e \in Parametric : SiteAgrees(e) <=> ReadAlike(e)

\* Every index names the type it was made for, at each place an annotation may
\* stand (shapes.c, typer.c).
ShapesSound ==
  /\ ShapesTrue /\ IndexBands /\ ConformSound /\ DecodeInverts
  /\ FieldsNamed /\ ChainsTyped /\ SetsExact /\ SitesAgree
=============================================================================
