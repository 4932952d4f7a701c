------------------------------- MODULE Codec -------------------------------
(* runtime/value.c: a JACL value as a message between vats.  A frame holds   *)
(* the root's head at 0, then one 8-aligned segment per non-empty slot, in   *)
(* pre-order; encoding runs twice, once to size the frame and once to write  *)
(* it.  Memory is counted in units of 8 bytes, a scalar is its name, text is *)
(* a run of bytes that are all the same.  unir's schema verifier, which     *)
(* stands before the decoder, is external.                                   *)
EXTENDS Integers, Sequences, FiniteSets, SequencesExt

CONSTANTS
  JV_MAX_DEPTH,  \* steps from the root's head into the heads it contains: 128
  FrameCap,      \* units of the frame a value is encoded into
  FrameMax,      \* units a slot's offset can reach: 2^32 bytes
  TextLens,      \* lengths of the texts and of the byte buffers
  MaxNest        \* how often a value is wrapped

VARIABLES
  cv,            \* the value being built, then sent
  cvNest         \* how often it was wrapped

codecVars == <<cv, cvNest>>

Val(k, x, kids) == [k |-> k, x |-> x, kids |-> kids, flagged |-> FALSE]
JNil == Val("nil", 0, <<>>)
Scalars ==
  {JNil, Val("bool", 1, <<>>), Val("i32", 1, <<>>), Val("f32", 1, <<>>), Val("f64", 1, <<>>),
   Val("i64", 1, <<>>), Val("i64", 99, <<>>), Val("big", 150, <<>>), Val("big", 999, <<>>),
   Val("closure", 0, <<>>), [Val("i32", 1, <<>>) EXCEPT !.flagged = TRUE]}
  \cup {Val(k, 0, <<>>) : k \in {"vec", "map"}}
  \cup {Val(k, n, <<>>) : k \in {"text", "bytes"}, n \in TextLens}

\* x stands for an integer: 1 fits an i32, 99 an i64, 150 a u64, 999 nothing.
FitsU64(x) == x < 999
jacl_int_result_kind(x) == IF x = 1 THEN "i32" ELSE "i64"
jacl_big_from_u64_kind(x) == IF x = 150 THEN "big" ELSE jacl_int_result_kind(x)

JV_HEAD == 2     \* units
JV_ENTRY == 4
Units(bytes) == (bytes + 7) \div 8

-----------------------------------------------------------------------------
(* Encoding.  e: the length in units, why the value cannot cross, the memory  *)
(* written (empty while sizing), and whether a unit was written twice.        *)

NoErr == "none"
Enc0 == [len |-> JV_HEAD, err |-> NoErr, mem |-> <<>>, clash |-> FALSE]
Refuse(e, why) == IF e.err = NoErr THEN [e EXCEPT !.err = why] ELSE e

jv_put_le(e, at, cell) ==
  [e EXCEPT !.mem = [u \in DOMAIN e.mem \cup {at} |-> IF u = at THEN cell ELSE e.mem[u]],
            !.clash = @ \/ at \in DOMAIN e.mem]

\* Mutant: the slot counts units.
MutCountsUnits(e, at, n, count) ==
  LET grown == [e EXCEPT !.len = @ + n]
  IN IF n = 0 THEN [e |-> e, off |-> 0]
     ELSE [e |-> jv_put_le(IF grown.len > FrameMax THEN Refuse(grown, "large") ELSE grown, at, <<e.len, n>>),
           off |-> e.len]

\* Mutant: the next segment starts on this one's last unit.
MutSegment(e, at, n, count) ==
  LET grown == [e EXCEPT !.len = @ + n - 1]
  IN IF n = 0 THEN [e |-> e, off |-> 0]
     ELSE [e |-> jv_put_le(IF grown.len > FrameMax THEN Refuse(grown, "large") ELSE grown, at, <<e.len, count>>),
           off |-> e.len]

\* Places n units at the end of the frame and writes their slot at `at`.
jv_segment(e, at, n, count) ==
  LET grown == [e EXCEPT !.len = @ + n]
  IN IF n = 0 THEN [e |-> e, off |-> 0]
     ELSE [e |-> jv_put_le(IF grown.len > FrameMax THEN Refuse(grown, "large") ELSE grown, at, <<e.len, count>>),
           off |-> e.len]

jv_bytes(e, at, n) ==
  LET s == jv_segment(e, at, Units(n), n)
      Fill(r, i) == jv_put_le(r, s.off + i - 1, <<"bytes", i>>)
  IN FoldLeft(Fill, s.e, [i \in 1 .. Units(n) |-> i])

\* Mutant: a vector's elements are counted one step below it.
MutKidDepth(k) == IF k = "map" THEN 3 ELSE 1

\* Steps from a head into a head it contains: the payload, then each element.
KidDepth(k) == IF k = "map" THEN 3 ELSE 2

KidHeads(v) == [i \in DOMAIN v.kids |-> i]
\* A map's entry is two heads, its key's and its value's.
HeadsPer(k) == IF k = "map" THEN JV_ENTRY \div JV_HEAD ELSE 1

TooDeep(v, depth) == depth > JV_MAX_DEPTH \/ (depth = JV_MAX_DEPTH /\ v # JNil)

RECURSIVE jv_put(_, _, _, _)
jv_put(e, v, at, depth) ==
  LET tagged == jv_put_le(e, at, v.k)
      s == jv_segment(tagged, at + 1, Len(v.kids) * JV_HEAD, Len(v.kids) \div HeadsPer(v.k))
      Put(r, i) == IF r.err # NoErr THEN r
                   ELSE jv_put(r, v.kids[i], s.off + (i - 1) * JV_HEAD, depth + KidDepth(v.k))
  IN CASE e.err # NoErr -> e
       [] e.err = NoErr /\ TooDeep(v, depth) -> Refuse(e, "deep")
       [] e.err = NoErr /\ ~TooDeep(v, depth) /\ v.flagged -> Refuse(e, "flagged")
       [] OTHER ->
          CASE v.k = "nil" -> e
            [] v.k \in {"bool", "i32", "f32", "i64", "f64"} -> jv_put_le(tagged, at + 1, v.x)
            [] v.k = "big" -> IF FitsU64(v.x) THEN jv_put_le(jv_put_le(e, at, "u64"), at + 1, v.x)
                              ELSE Refuse(e, "wide")
            [] v.k \in {"text", "bytes"} -> jv_bytes(tagged, at + 1, v.x)
            [] v.k \in {"vec", "tvec", "map", "error"} ->
                 FoldLeft(Put, IF v.k = "tvec"
                               THEN [s.e EXCEPT !.mem[at] = "vec"] ELSE s.e, KidHeads(v))
            [] OTHER -> Refuse(e, "kind")

\* The size of the encoding, or 0; both passes walk the value the same way.
jv_size(v) == LET e == jv_put(Enc0, v, 0, 0) IN [len |-> IF e.err = NoErr THEN e.len ELSE 0, err |-> e.err]
jv_write(v) == jv_put(Enc0, v, 0, 0)

jv_encode_into(v, cap) ==
  LET n == jv_size(v)
  IN IF n.len = 0 THEN [len |-> 0, err |-> n.err, e |-> Enc0]
     ELSE IF n.len > cap THEN [len |-> 0, err |-> "frame", e |-> Enc0]
     ELSE [len |-> n.len, err |-> NoErr, e |-> jv_write(v)]

-----------------------------------------------------------------------------
(* Decoding a frame.  A unit nothing was written to reads as zero: nil. *)

At(mem, u) == IF u \in DOMAIN mem THEN mem[u] ELSE "zero"
Slot(mem, u) == IF u \in DOMAIN mem THEN mem[u] ELSE <<0, 0>>

\* An error's payload rides in a list of one.
jacl_error_new(v) == Val("error", 0, <<v>>)

\* Entries are keys and values in turn; an equal key's value is replaced.
KeysEqual(a, b) == a = b \/ ({a.k, b.k} = {"i32", "i64"} /\ a.x = b.x)
jacl_map_set(m, key, val) ==
  LET at == SelectInSeq([i \in 1 .. Len(m.kids) \div 2 |-> m.kids[2 * i - 1]], LAMBDA k : KeysEqual(k, key))
  IN CASE m.k = "error" -> m
       [] m.k # "error" /\ key.k = "error" -> key
       [] m.k # "error" /\ key.k # "error" /\ val.k = "error" -> val
       [] OTHER -> IF at = 0 THEN [m EXCEPT !.kids = @ \o <<key, val>>] ELSE [m EXCEPT !.kids[2 * at] = val]

\* A map built anew from entries in turn.
Rebuilt(kids) ==
  FoldLeft(LAMBDA m, i : jacl_map_set(m, kids[2 * i - 1], kids[2 * i]), Val("map", 0, <<>>),
           [i \in 1 .. Len(kids) \div 2 |-> i])

RECURSIVE jv_get(_, _)
jv_get(mem, at) ==
  LET k    == At(mem, at)
      slot == Slot(mem, at + 1)
      kids == [i \in 1 .. slot[2] * HeadsPer(k) |-> jv_get(mem, slot[1] + (i - 1) * JV_HEAD)]
  IN CASE k = "zero" -> JNil
       [] k \in {"i64", "u32"} -> Val(jacl_int_result_kind(mem[at + 1]), mem[at + 1], <<>>)
       [] k = "u64" -> Val(jacl_big_from_u64_kind(mem[at + 1]), mem[at + 1], <<>>)
       [] k \in {"bool", "i32", "f32", "f64"} -> Val(k, mem[at + 1], <<>>)
       [] k \in {"text", "bytes"} -> Val(k, slot[2], <<>>)
       [] k = "vec" -> Val(k, 0, kids)
       [] k = "map" -> Rebuilt(kids)
       [] OTHER -> IF slot[2] = 1 THEN jacl_error_new(kids[1]) ELSE jacl_error_new(JNil)

-----------------------------------------------------------------------------
(* The machine builds a value from the inside out. *)

CodecInit == cv \in Scalars /\ cvNest = 0

Beside == {<<>>, <<Val("big", 999, <<>>)>>, <<Val("text", 9, <<>>)>>}
InVec    == \E l \in Beside : cv' \in {Val("vec", 0, <<cv>> \o l), Val("tvec", 0, l \o <<cv>>)}
\* Two equal integers may be keys of one map: a boxed one is found by its cell.
InMap    == /\ cv.k # "error"   \* jacl_map_set answers with an error, it keeps none
            /\ \E key \in {Val("i32", 1, <<>>), Val("text", 9, <<>>)},
                  more \in {<<>>, <<JNil, JNil>>, <<Val("i64", 1, <<>>), JNil>>} :
                 cv' = Val("map", 0, <<key, cv>> \o more)
InError  == cv.k # "error" /\ cv' = jacl_error_new(cv)
CodecNext == cvNest < MaxNest /\ cvNest' = cvNest + 1 /\ (InVec \/ InMap \/ InError)
CodecSpec == CodecInit /\ [][CodecNext]_codecVars

-----------------------------------------------------------------------------
(* Properties *)

RECURSIVE Canon(_)
Canon(v) ==
  LET kids == [i \in DOMAIN v.kids |-> Canon(v.kids[i])]
      ints == {i \in DOMAIN kids : i % 2 = 1 /\ kids[i] = Val("i32", 1, <<>>)}
  IN CASE v.k = "map" /\ Cardinality(ints) > 1 -> Val("map", 0, <<kids[1], kids[4]>>)
       [] OTHER -> [v EXCEPT !.k = CASE v.k = "tvec" -> "vec" [] v.k = "i64" -> jacl_int_result_kind(v.x) [] OTHER -> v.k,
                             !.kids = kids]

\* What is decoded is what was encoded: the value in its canonical form, however its
\* segments fell, and every part is where its slot says.  A boxed integer arrives as
\* the inline one of its value, so that a map which held both as keys, as it can
\* (collections.c:84-86), arrives with one entry, the later one's value.
CodecRoundTrip ==
  \A out \in {jv_encode_into(cv, FrameCap)} :
    out.err = NoErr => jv_get(out.e.mem, 0) = Canon(cv)

\* Everything is written inside the size announced, and no unit twice.
FrameSound ==
  \A out \in {jv_encode_into(cv, FrameCap)} :
    out.err = NoErr => /\ ~out.e.clash
                        /\ \A u \in DOMAIN out.e.mem : u < out.len

RECURSIVE Parts(_)
Parts(v) == {v} \cup UNION {Parts(v.kids[i]) : i \in DOMAIN v.kids}

\* The heads of a value, each with the steps the verifier counts from the root's head
\* to it: a payload, and each element in it.
RECURSIVE Heads(_, _)
Heads(v, d) ==
  {<<v, d>>} \cup UNION {Heads(v.kids[i], d + (IF v.k = "map" THEN 3 ELSE 2)) : i \in DOMAIN v.kids}

\* A value is refused exactly when some part of it, however deep, has no encoding: a
\* flagged value, an integer past 64 bits, an object with identity, or a head deeper
\* than the verifier of the receiving side accepts (a nil, which has no payload, one
\* step deeper than any other); or when the whole does not fit 32 bits.
RefusedWhenUnsendable ==
  LET bad == \E p \in Parts(cv) : p.flagged \/ p.k = "closure" \/ (p.k = "big" /\ p.x = 999)
      deep == \E h \in Heads(cv, 0) : h[2] > JV_MAX_DEPTH - (IF h[1] = JNil THEN 0 ELSE 1)
      why == jv_size(cv).err
  IN /\ why \in {"flagged", "kind", "wide"} => bad
     /\ why = "deep" => deep
     /\ IF bad \/ deep THEN why # NoErr ELSE why \in {NoErr, "large"}

\* What is sent is read back, in a frame of the size announced, and only what cannot
\* be sent is refused (value.c).
CodecSound == CodecRoundTrip /\ FrameSound /\ RefusedWhenUnsendable
=============================================================================
