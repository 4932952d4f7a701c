------------------------------- MODULE Tower -------------------------------
(* runtime/bigint.c and the numbers of runtime/builtins.c: a dynamic integer *)
(* is an inline i32, a boxed i64 or a boxed bigint, chosen by magnitude.     *)
(* One register holds a value; each step works one operation of the runtime  *)
(* on it and keeps beside it what exact arithmetic gives.  Floats and values *)
(* that are not numbers are operands without a value: only the dispatch on   *)
(* them is modelled.                                                         *)
EXTENDS Integers, Sequences, FiniteSets, SequencesExt, FiniteSetsExt

CONSTANTS
  JW,          \* bits of a limb: 32; an i32 has JW bits and an i64 has 2 * JW
  JMaxLimbs,   \* JBIG_MAX_LIMBS
  JTen,        \* the base numbers are printed in: 10
  JChunk,      \* digits taken off by one division: 9
  JMags,       \* the magnitudes of the operands
  JSteps       \* operations worked on one value

VARIABLES
  tw,          \* the value
  twWant,      \* the integer it should be, the flags it must carry, whether it fails
  twAge        \* operations done

towerVars == <<tw, twWant, twAge>>

JBase == 2 ^ JW
I32 == -(JBase \div 2) .. (JBase \div 2) - 1
I64 == -((JBase * JBase) \div 2) .. ((JBase * JBase) \div 2) - 1

Nil0 == [tag |-> "nil", n |-> 0, sign |-> 1, limbs |-> <<>>, flags |-> {}, err |-> FALSE]
jaclrt_i32(n) == [Nil0 EXCEPT !.tag = "i32", !.n = n]
jacl_wide_new(n) == [Nil0 EXCEPT !.tag = "i64", !.n = n]
jacl_int_result(n) == IF n \in I32 THEN jaclrt_i32(n) ELSE jacl_wide_new(n)

\* jaclrt_set_error(jaclrt_i32(0)) and jaclrt_error().
DomainError == [jaclrt_i32(0) EXCEPT !.err = TRUE]
TypeError == [Nil0 EXCEPT !.err = TRUE]

\* Mutant: the second operand's flags are kept only when the first has none.
MutPropFlags(a, b, v) == [v EXCEPT !.flags = IF a.flags = {} THEN b.flags ELSE a.flags]

prop_flags(a, b, v) == [v EXCEPT !.flags = @ \cup a.flags \cup b.flags]

jacl_is_anyint(v) == v.tag \in {"i32", "i64", "big"}
jacl_is_anyfloat(v) == v.tag \in {"f32", "f64"}
AnyNumber(v) == jacl_is_anyint(v) \/ jacl_is_anyfloat(v)
jacl_is_num(v) == v.tag \in {"i32", "f32"}
Ints(a, b) == jacl_is_anyint(a) /\ jacl_is_anyint(b)
SomeBig(a, b) == Ints(a, b) /\ "big" \in {a.tag, b.tag}
SomeWide(a, b) == Ints(a, b) /\ "i64" \in {a.tag, b.tag}
SomeF64(a, b) == AnyNumber(a) /\ AnyNumber(b) /\ "f64" \in {a.tag, b.tag}

-----------------------------------------------------------------------------
(* Magnitudes: limbs, least significant first *)

JLimb(l, i) == IF i \in DOMAIN l THEN l[i] ELSE 0
RECURSIVE JTrim(_)
JTrim(l) == IF l # <<>> /\ Last(l) = 0 THEN JTrim(Front(l)) ELSE l

\* An i32 or an i64 is expanded into one limb or two.
jbig_read(v) ==
  IF v.tag = "big" THEN [sign |-> v.sign, l |-> v.limbs]
  ELSE LET u == IF v.n < 0 THEN -v.n ELSE v.n
       IN [sign |-> IF v.n < 0 THEN -1 ELSE 1,
           l    |-> IF u >= JBase THEN <<u % JBase, u \div JBase>> ELSE <<u>>]

\* Mutant: the smallest i64 is left a bigint.
MutDemotable(sign, l, x) == Len(l) <= 2 /\ x \in I64 /\ -x \in I64

\* Whether an i64 holds the limbs' value x.
Demotable(sign, l, x) == Len(l) <= 2 /\ x \in I64

\* The one constructor: trims, demotes what an i64 holds, refuses what is too long.
CanonAs(sign, l, x) ==
  IF l = <<>> THEN jaclrt_i32(0)
  ELSE IF Demotable(sign, l, x) THEN jacl_int_result(x)
  ELSE IF Len(l) > JMaxLimbs THEN DomainError
  ELSE [Nil0 EXCEPT !.tag = "big", !.sign = sign, !.limbs = l]
CanonTrimmed(sign, l) == CanonAs(sign, l, sign * (JLimb(l, 1) + JBase * JLimb(l, 2)))
jbig_canon(sign, l0) == CanonTrimmed(sign, JTrim(l0))

RECURSIVE MagCmpFrom(_, _, _)
MagCmpFrom(a, b, i) ==
  IF i = 0 THEN 0 ELSE IF a[i] # b[i] THEN (IF a[i] < b[i] THEN -1 ELSE 1) ELSE MagCmpFrom(a, b, i - 1)
TrimmedCmp(a, b) ==
  IF Len(a) # Len(b) THEN (IF Len(a) < Len(b) THEN -1 ELSE 1) ELSE MagCmpFrom(a, b, Len(a))
jbig_mag_cmp(a0, b0) == TrimmedCmp(JTrim(a0), JTrim(b0))

RECURSIVE MagAddFrom(_, _, _, _)
MagSumLimb(a, b, i, s) == <<s % JBase>> \o MagAddFrom(a, b, i + 1, s \div JBase)
MagAddFrom(a, b, i, carry) ==
  IF i > Len(a) /\ i > Len(b) THEN <<carry>> ELSE MagSumLimb(a, b, i, JLimb(a, i) + JLimb(b, i) + carry)
jbig_mag_add(a, b) == MagAddFrom(a, b, 1, 0)

RECURSIVE MagSubFrom(_, _, _, _)
MagDiffLimb(a, b, i, d) == <<d % JBase>> \o MagSubFrom(a, b, i + 1, IF d < 0 THEN 1 ELSE 0)
MagSubFrom(a, b, i, borrow) ==
  IF i > Len(a) THEN <<>> ELSE MagDiffLimb(a, b, i, a[i] - borrow - JLimb(b, i))

\* |a| >= |b|.
jbig_mag_sub(a, b) == JTrim(MagSubFrom(a, b, 1, 0))

\* One row of the product: out[i ..] plus b times the limb y, the carry stored on top.
RECURSIVE MulRow(_, _, _, _, _, _)
RowLimb(out, i, y, b, j, t) == MulRow([out EXCEPT ![i + j - 1] = t % JBase], i, y, b, j + 1, t \div JBase)
MulRow(out, i, y, b, j, carry) ==
  IF j > Len(b) THEN [out EXCEPT ![i + j - 1] = carry]
  ELSE RowLimb(out, i, y, b, j, y * b[j] + out[i + j - 1] + carry)

RECURSIVE MulRows(_, _, _, _)
MulRows(out, a, b, i) == IF i > Len(a) THEN out ELSE MulRows(MulRow(out, i, a[i], b, 1, 0), a, b, i + 1)
jbig_mag_mul(a, b) == JTrim(MulRows([i \in 1 .. Len(a) + Len(b) |-> 0], a, b, 1))

RECURSIVE SmallQuotient(_, _, _, _, _)
SmallQuotient(a, d, i, q, rem) ==
  IF i = 0 THEN [q |-> q, rem |-> rem]
  ELSE SmallQuotient(a, d, i - 1, <<(rem * JBase + a[i]) \div d>> \o q, (rem * JBase + a[i]) % d)
jbig_divmod_small(a, d) == SmallQuotient(a, d, Len(a), <<>>, 0)

\* Leading zeros of a limb: the halving tests of the code answer this.
jbig_clz32(x) == JW - (CHOOSE k \in 1 .. JW : x < 2 ^ k /\ x >= 2 ^ (k - 1))

\* Limb i of a << sh, from a window of two limbs.
jbig_shl_limb(a, i, sh) ==
  (((JLimb(a, i) * JBase + JLimb(a, i - 1)) * (2 ^ sh)) \div JBase) % JBase

\* D3: the digit estimated from two limbs, corrected down by the third.
RECURSIVE RefineDigit(_, _, _, _, _)
RefineDigit(q, r, v1, v2, u2) ==
  IF q < JBase /\ q * v2 <= r * JBase + u2 THEN q
  ELSE IF r + v1 >= JBase THEN q - 1 ELSE RefineDigit(q - 1, r + v1, v1, v2, u2)
EstimateDigit(un, vn, j, nb) ==
  LET top == un[j + nb] * JBase + un[j + nb - 1]
  IN RefineDigit(top \div vn[nb], top % vn[nb], vn[nb], vn[nb - 1], un[j + nb - 2])

\* D4: un[j ..] less qhat times the divisor, with what is left to borrow on top.
RECURSIVE MulSubFrom(_, _, _, _, _, _, _)
MulSubLimb(un, vn, j, qhat, i, carry, t) ==
  MulSubFrom([un EXCEPT ![i + j - 1] = t % JBase], vn, j, qhat, i + 1, carry, IF t < 0 THEN 1 ELSE 0)
MulSubFrom(un, vn, j, qhat, i, carry, borrow) ==
  IF i > Len(vn) THEN [un |-> [un EXCEPT ![i + j - 1] = (@ - carry - borrow) % JBase], under |-> un[i + j - 1] < carry + borrow]
  ELSE LET prod == qhat * vn[i] + carry
       IN MulSubLimb(un, vn, j, qhat, i, prod \div JBase, un[i + j - 1] - (prod % JBase) - borrow)
MulSub(un, vn, j, qhat) == MulSubFrom(un, vn, j, qhat, 1, 0, 0)

\* D6: the divisor added back.
RECURSIVE MulAddFrom(_, _, _, _, _)
MulAddFrom(un, vn, j, i, c) ==
  IF i > Len(vn) THEN [un EXCEPT ![i + j - 1] = (@ + c) % JBase]
  ELSE MulAddFrom([un EXCEPT ![i + j - 1] = (@ + vn[i] + c) % JBase], vn, j, i + 1, (un[i + j - 1] + vn[i] + c) \div JBase)
MulAddBack(un, vn, j) == MulAddFrom(un, vn, j, 1, 0)

\* Mutant: the estimate is taken as it is.
MutDivTaken(q, vn, j, qhat, sub) == [un |-> sub.un, q |-> <<qhat % JBase>> \o q]

DivTaken(q, vn, j, qhat, sub) ==
  IF sub.under THEN [un |-> MulAddBack(sub.un, vn, j), q |-> <<(qhat - 1) % JBase>> \o q]
  ELSE [un |-> sub.un, q |-> <<qhat % JBase>> \o q]

DivDigit(r, vn, j, qhat) == DivTaken(r.q, vn, j, qhat, MulSub(r.un, vn, j, qhat))
RECURSIVE DivDigits(_, _, _)
DivDigits(r, vn, j) ==
  IF j = 0 THEN r ELSE DivDigits(DivDigit(r, vn, j, EstimateDigit(r.un, vn, j, Len(vn))), vn, j - 1)

\* Knuth's algorithm D on na >= nb >= 2 limbs.
DivShifted(d, nb, sh) ==
  [q |-> d.q, r |-> [i \in 1 .. nb |-> ((d.un[i + 1] * JBase + d.un[i]) \div (2 ^ sh)) % JBase]]
DivBy(u, v, sh) ==
  DivShifted(DivDigits([un |-> [i \in 1 .. Len(u) + 1 |-> jbig_shl_limb(u, i, sh)], q |-> <<>>],
                       [i \in DOMAIN v |-> jbig_shl_limb(v, i, sh)], Len(u) - Len(v) + 1), Len(v), sh)
jbig_mag_divmod(u, v) == DivBy(u, v, jbig_clz32(Last(v)))

-----------------------------------------------------------------------------
(* The operations builtins.c hands to the bigint tier *)

MagDifference(a, b, sb, c) ==
  IF c = 0 THEN jaclrt_i32(0)
  ELSE IF c > 0 THEN jbig_canon(a.sign, jbig_mag_sub(a.l, b.l)) ELSE jbig_canon(sb, jbig_mag_sub(b.l, a.l))
MagAddSub(a, b, sb) ==
  IF a.sign = sb THEN jbig_canon(sb, jbig_mag_add(a.l, b.l)) ELSE MagDifference(a, b, sb, jbig_mag_cmp(a.l, b.l))
jbig_addsub(a, b, negate) == MagAddSub(a, b, IF negate THEN -b.sign ELSE b.sign)

jacl_big_add(a, b) == jbig_addsub(jbig_read(a), jbig_read(b), FALSE)
jacl_big_sub(a, b) == jbig_addsub(jbig_read(a), jbig_read(b), TRUE)
MagProduct(a, b) == jbig_canon(a.sign * b.sign, jbig_mag_mul(a.l, b.l))
jacl_big_mul(a, b) == MagProduct(jbig_read(a), jbig_read(b))

\* Mutant: the zero is ordered by the other side's sign the wrong way round.
MutSignedCmp(a, b) ==
  IF a.sign # b.sign THEN (IF a.sign < b.sign THEN -1 ELSE 1) ELSE jbig_mag_cmp(a.l, b.l)

SignedCmp(a, b) ==
  CASE a.l = <<0>> /\ b.l = <<0>> -> 0
    [] a.l = <<0>> /\ b.l # <<0>> -> IF b.sign > 0 THEN -1 ELSE 1
    [] a.l # <<0>> /\ b.l = <<0>> -> IF a.sign > 0 THEN 1 ELSE -1
    [] OTHER -> IF a.sign # b.sign THEN (IF a.sign < b.sign THEN -1 ELSE 1)
                ELSE a.sign * jbig_mag_cmp(a.l, b.l)
jacl_big_cmp(a, b) == SignedCmp(jbig_read(a), jbig_read(b))

\* The remainder as limbs, whichever division gave it.
OneLimbDivmod(d) == [q |-> d.q, r |-> <<d.rem>>]
DivmodCanon(a, b, wantRem, d) ==
  IF wantRem THEN jbig_canon(a.sign, d.r) ELSE jbig_canon(a.sign * b.sign, d.q)
MagDivmod(a, b, wantRem) ==
  CASE b.l = <<0>> -> DomainError
    [] Len(a.l) < Len(b.l) -> DivmodCanon(a, b, wantRem, [q |-> <<>>, r |-> a.l])
    [] OTHER -> DivmodCanon(a, b, wantRem,
                  IF Len(b.l) = 1 THEN OneLimbDivmod(jbig_divmod_small(a.l, b.l[1])) ELSE jbig_mag_divmod(a.l, b.l))
jacl_big_divmod(a, b, wantRem) == MagDivmod(jbig_read(a), jbig_read(b), wantRem)

jacl_big_from_u64(x) == jbig_canon(1, <<x % JBase, x \div JBase>>)
\* The word, or -1 where there is none.
jacl_big_to_u64(v) ==
  IF v.tag # "big" \/ v.sign < 0 \/ Len(v.limbs) > 2 THEN -1
  ELSE v.limbs[1] + JBase * JLimb(v.limbs, 2)

\* Digits, most significant first: chunks are peeled off, then the padding goes.
RECURSIVE PeelChunks(_)
PeeledThen(d) == [k \in 1 .. JChunk |-> (d.rem \div (JTen ^ (k - 1))) % JTen] \o PeelChunks(JTrim(d.q))
PeelChunks(limbs) == IF limbs = <<>> THEN <<>> ELSE PeeledThen(jbig_divmod_small(limbs, JTen ^ JChunk))

\* Mutant: a chunk's leading zeros are lost inside the number.
MutUnpadded(rev) == SelectSeq(rev, LAMBDA d : d # 0)

Unpadded(rev) == IF JTrim(rev) = <<>> THEN <<0>> ELSE JTrim(rev)
jacl_big_to_decimal(v) == [neg |-> v.sign < 0, digits |-> Reverse(Unpadded(PeelChunks(v.limbs)))]

\* limbs * JTen + digit, refused past the last limb.
RECURSIVE TakeDigitFrom(_, _, _)
TakeLimbOf(l, k, t) == <<t % JBase>> \o TakeDigitFrom(l, k + 1, t \div JBase)
TakeDigitFrom(l, k, carry) ==
  IF k > Len(l) THEN (IF carry = 0 THEN <<>> ELSE <<carry>>) ELSE TakeLimbOf(l, k, l[k] * JTen + carry)

RECURSIVE TakeDigits(_, _, _)
TakeDigits(neg, l, ds) ==
  IF Len(l) > JMaxLimbs THEN DomainError
  ELSE IF ds = <<>> THEN jbig_canon(IF neg THEN -1 ELSE 1, l)
  ELSE TakeDigits(neg, TakeDigitFrom(l, 1, ds[1]), Tail(ds))

jacl_big_from_decimal(neg, digits) == 
  IF digits = <<>> THEN (IF neg THEN TypeError ELSE DomainError) ELSE TakeDigits(neg, <<>>, digits)

-----------------------------------------------------------------------------
(* Arithmetic on dynamic values *)

Floated(tag, a, b) == prop_flags(a, b, [Nil0 EXCEPT !.tag = tag])

Exactly(op, x, y) == CASE op = "+" -> x + y [] op = "-" -> x - y [] op = "*" -> x * y
BigOp(op, a, b) ==
  CASE op = "+" -> jacl_big_add(a, b) [] op = "-" -> jacl_big_sub(a, b) [] op = "*" -> jacl_big_mul(a, b)

\* JACL_WIDE_OP: the machine result, or the bigint tier's when it overflows.
JACL_WIDE_OP(op, a, b) ==
  IF Exactly(op, a.n, b.n) \in I64 THEN jacl_int_result(Exactly(op, a.n, b.n)) ELSE BigOp(op, a, b)

\* The order of tests that jacl_add, jacl_sub and jacl_mul share.
DynOp(op, a, b) ==
  CASE a.err -> a
    [] b.err /\ ~a.err -> b
    [] OTHER ->
       IF a.tag = "i32" /\ b.tag = "i32" THEN prop_flags(a, b, jacl_int_result(Exactly(op, a.n, b.n)))
       ELSE IF SomeF64(a, b) THEN Floated("f64", a, b)
       ELSE IF SomeBig(a, b) THEN prop_flags(a, b, BigOp(op, a, b))
       ELSE IF SomeWide(a, b) THEN prop_flags(a, b, JACL_WIDE_OP(op, a, b))
       ELSE IF jacl_is_num(a) /\ jacl_is_num(b) THEN Floated("f32", a, b)
       ELSE TypeError

jacl_add(a, b) == DynOp("+", a, b)
jacl_sub(a, b) == DynOp("-", a, b)
jacl_mul(a, b) == DynOp("*", a, b)
jacl_neg(a) == jacl_sub(jaclrt_i32(0), a)

\* C's division: towards zero, the remainder with the dividend's sign.
Sgn(x) == IF x < 0 THEN -1 ELSE 1
Magn(x) == IF x < 0 THEN -x ELSE x
CDiv(x, y) == Sgn(x) * Sgn(y) * (Magn(x) \div Magn(y))
CMod(x, y) == x - y * CDiv(x, y)
MostNegative(T, x, y) == -x \notin T /\ y = -1

\* Mutant: the most negative i64 over -1 stays in the machine's width and wraps.
MutDivOfBig(a, b) == SomeBig(a, b)

\* Integers whose quotient the bigint tier works out.
DivOfBig(a, b) == SomeBig(a, b) \/ (SomeWide(a, b) /\ MostNegative(I64, a.n, b.n))

jacl_div(a, b) ==
  CASE a.err -> a
    [] b.err /\ ~a.err -> b
    [] OTHER ->
       IF SomeF64(a, b) THEN Floated("f64", a, b)
       ELSE IF Ints(a, b) /\ ~SomeBig(a, b) /\ b.n = 0 THEN prop_flags(a, b, DomainError)
       ELSE IF DivOfBig(a, b) THEN prop_flags(a, b, jacl_big_divmod(a, b, FALSE))
       ELSE IF Ints(a, b) THEN prop_flags(a, b, jacl_int_result(CDiv(a.n, b.n)))
       ELSE IF jacl_is_num(a) /\ jacl_is_num(b) THEN Floated("f32", a, b)
       ELSE TypeError

jacl_mod(a, b) ==
  CASE a.err -> a
    [] b.err /\ ~a.err -> b
    [] OTHER ->
       IF SomeBig(a, b) THEN prop_flags(a, b, jacl_big_divmod(a, b, TRUE))
       ELSE IF Ints(a, b) /\ b.n = 0 THEN prop_flags(a, b, DomainError)
       ELSE IF Ints(a, b) THEN prop_flags(a, b, jacl_int_result(CMod(a.n, b.n)))
       ELSE TypeError

\* The residue of x that a signed type T of m values holds.
Wrapped(T, m, x) == LET r == x % m IN IF r \in T THEN r ELSE r - m

\* +% -% *%: modulo the width of the operands; a bigint has none.
WrapOp(op, a, b) ==
  CASE a.err -> a
    [] b.err /\ ~a.err -> b
    [] OTHER ->
       IF a.tag = "i32" /\ b.tag = "i32"
       THEN prop_flags(a, b, jaclrt_i32(Wrapped(I32, JBase, Exactly(op, a.n, b.n))))
       ELSE IF Ints(a, b) /\ ~SomeBig(a, b)
       THEN prop_flags(a, b, jacl_int_result(Wrapped(I64, JBase * JBase, Exactly(op, a.n, b.n))))
       ELSE TypeError

jacl_wrap_add(a, b) == WrapOp("+", a, b)
jacl_wrap_sub(a, b) == WrapOp("-", a, b)
jacl_wrap_mul(a, b) == WrapOp("*", a, b)

-----------------------------------------------------------------------------
(* Comparison.  1, 0, -1: how two integers compare. *)

IntCmp(a, b) ==
  IF SomeBig(a, b) THEN jacl_big_cmp(a, b)
  ELSE IF a.n < b.n THEN -1 ELSE IF a.n > b.n THEN 1 ELSE 0

jacl_val_equal(a, b) == IF Ints(a, b) THEN IntCmp(a, b) = 0 ELSE a.tag = b.tag
jacl_lt(a, b) == IntCmp(a, b) < 0
jacl_le(a, b) == IntCmp(a, b) <= 0
jacl_gt(a, b) == IntCmp(a, b) > 0
jacl_ge(a, b) == IntCmp(a, b) >= 0

\* What a map's key hash mixes: a bigint's sign and limbs, else the bits of the
\* word, its flags with them; of a boxed i64 these are the address of its cell.
jmap_key_hash(v, cell) ==
  CASE v.tag = "big" -> <<"limbs", v.sign, v.limbs>>
    [] v.tag = "i64" -> <<"cell", cell, v.flags>>
    [] OTHER -> <<v.tag, v.n, v.flags>>

-----------------------------------------------------------------------------
(* Crossings between dynamic values and the typed words *)

jacl_flagged_refusal(v) == [DomainError EXCEPT !.flags = v.flags]

jacl_i64_box(x) == jacl_int_result(x)
jacl_u64_box(x) == IF x \in I64 THEN jacl_int_result(x) ELSE jacl_big_from_u64(x)
jacl_i64_unbox(v) == IF v.flags = {} /\ v.tag \in {"i32", "i64"} THEN v.n ELSE 0
jacl_u64_unbox(v) ==
  CASE v.flags # {} -> 0
    [] v.flags = {} /\ v.tag = "big" -> Max({0, jacl_big_to_u64(v)})
    [] v.flags = {} /\ v.tag \in {"i32", "i64"} -> Max({0, v.n})
    [] OTHER -> 0

\* Mutant: the guard reads a bigint's header as its value, which is never negative.
MutWidenTo(v, kind) ==
  CASE v.err -> v
    [] v.flags # {} /\ ~v.err -> jacl_flagged_refusal(v)
    [] OTHER ->
       IF kind = "u64" THEN (IF v.n < 0 THEN DomainError ELSE v)
       ELSE IF v.tag = "big" THEN DomainError
       ELSE IF v.tag = "i32" THEN jacl_wide_new(v.n) ELSE v

jacl_widen_to(v, kind) ==
  CASE v.err -> v
    [] v.flags # {} /\ ~v.err -> jacl_flagged_refusal(v)
    [] OTHER ->
       IF kind = "u64"
       THEN (IF v.tag = "big" THEN (IF jacl_big_to_u64(v) >= 0 THEN v ELSE DomainError)
             ELSE IF v.n < 0 THEN DomainError ELSE v)
       ELSE IF v.tag = "big" THEN DomainError
       ELSE IF v.tag = "i32" THEN jacl_wide_new(v.n) ELSE v

jacl_to_cast(v, type) ==
  CASE v.err -> v
    [] v.flags # {} /\ ~v.err -> jacl_flagged_refusal(v)
    [] OTHER ->
       IF ~jacl_is_anyint(v) THEN TypeError
       ELSE IF type = "u64"
       THEN (IF v.tag = "big" THEN (IF jacl_big_to_u64(v) >= 0 THEN v ELSE DomainError)
             ELSE IF v.n < 0 THEN DomainError ELSE jacl_u64_box(v.n))
       ELSE IF v.tag = "big" \/ (type = "i32" /\ v.n \notin I32) THEN DomainError
       ELSE IF type = "i32" THEN jaclrt_i32(v.n) ELSE jacl_wide_new(v.n)

-----------------------------------------------------------------------------
(* The machine *)

Want(n, flags, fails) == [n |-> n, flags |-> flags, fails |-> fails]
JTop == JBase ^ JMaxLimbs
U64 == 0 .. (JBase * JBase) - 1
Held(ty) == CASE ty = "i32" -> I32 [] ty = "i64" -> I64 [] ty = "u64" -> U64

RECURSIVE LimbsValue(_, _)
LimbsValue(l, i) == IF i > Len(l) THEN 0 ELSE l[i] + JBase * LimbsValue(l, i + 1)
IntOf(v) == IF v.tag # "big" THEN v.n ELSE v.sign * LimbsValue(v.limbs, 1)

\* The canonical value of an integer: what a literal or a computation gives.
RECURSIVE LimbsOf(_)
LimbsOf(n) == IF n = 0 THEN <<>> ELSE <<n % JBase>> \o LimbsOf(n \div JBase)
Canonical(n) ==
  IF n \in I64 THEN jacl_int_result(n)
  ELSE [Nil0 EXCEPT !.tag = "big", !.sign = Sgn(n), !.limbs = LimbsOf(Magn(n))]

JInts == JMags \cup {-m : m \in JMags}
Operands ==
  {Canonical(n) : n \in JInts} \cup {jacl_wide_new(n) : n \in JInts \cap I32}
NonInts == {[Nil0 EXCEPT !.tag = t] : t \in {"f64", "f32", "str"}} \cup {DomainError}

TowerInit ==
  /\ \E v \in Operands, f \in {{}, {"secret"}} :
       /\ tw = [v EXCEPT !.flags = f]
       /\ twWant = Want(IntOf(v), f, FALSE)
  /\ twAge = 0

More == twAge < JSteps /\ ~tw.err /\ jacl_is_anyint(tw)

\* The outcome exact arithmetic prescribes for an operation on the register.
Prescribed(v, n, flags, fails) ==
  /\ tw' = v
  /\ twWant' = Want(IF fails THEN 0 ELSE n, flags, fails)
  /\ twAge' = twAge + 1

Worked(op, a, b) ==
  CASE op = "/" -> jacl_div(a, b) [] op = "%" -> jacl_mod(a, b) [] OTHER -> DynOp(op, a, b)
WorkedExactly(op, x, y) ==
  CASE op = "/" -> CDiv(x, y) [] op = "%" -> CMod(x, y) [] OTHER -> Exactly(op, x, y)
NoValue(op, x, y) == IF op \in {"/", "%"} THEN y = 0 ELSE Magn(Exactly(op, x, y)) >= JTop

ArithOn(op, a, b, x, y, fails) ==
  Prescribed(Worked(op, a, b), IF fails THEN 0 ELSE WorkedExactly(op, x, y), a.flags \cup b.flags, fails)
Arith ==
  /\ More
  /\ \E b \in Operands, f \in {{}, {"tainted"}}, op \in {"+", "-", "*", "/", "%"} :
       \E ab \in {<<tw, [b EXCEPT !.flags = f]>>, <<[b EXCEPT !.flags = f], tw>>} :
         ArithOn(op, ab[1], ab[2], IntOf(ab[1]), IntOf(ab[2]), NoValue(op, IntOf(ab[1]), IntOf(ab[2])))

Negate == More /\ Prescribed(jacl_neg(tw), -IntOf(tw), tw.flags, FALSE)

WrapArith ==
  /\ More
  /\ \E b \in Operands :
       LET T == IF tw.tag = "i32" /\ b.tag = "i32" THEN I32 ELSE I64
           m == IF tw.tag = "i32" /\ b.tag = "i32" THEN JBase ELSE JBase * JBase
           none == SomeBig(tw, b)
       IN \E op \in {"+", "-", "*"} :
            Prescribed(WrapOp(op, tw, b), IF none THEN 0 ELSE Wrapped(T, m, Exactly(op, IntOf(tw), IntOf(b))),
                       IF none THEN {} ELSE tw.flags, none)

\* An error operand passes; a float takes the value out of the integers; a
\* remainder, and anything with a string, is a type error.
Mixed ==
  /\ More
  /\ \E b \in NonInts, op \in {"+", "-", "*", "/", "%"} : \E ab \in {<<tw, b>>, <<b, tw>>} :
       \E v \in {Worked(op, ab[1], ab[2])} :
         LET refused == b.err \/ b.tag = "str" \/ op = "%" \/ (b.tag = "f32" /\ tw.tag # "i32")
         IN Prescribed(v, 0, IF refused THEN {} ELSE tw.flags, refused)

Cross ==
  /\ More
  /\ LET x == IntOf(tw)
         flagged == tw.flags # {}
     IN \/ \E ty \in {"i64", "u64"} : Prescribed(jacl_widen_to(tw, ty), x, tw.flags, flagged \/ x \notin Held(ty))
        \/ \E ty \in {"i32", "i64", "u64"} : Prescribed(jacl_to_cast(tw, ty), x, tw.flags, flagged \/ x \notin Held(ty))
        \/ Prescribed(jacl_i64_box(jacl_i64_unbox(tw)), IF flagged \/ x \notin I64 THEN 0 ELSE x, {}, FALSE)
        \/ Prescribed(jacl_u64_box(jacl_u64_unbox(tw)), IF flagged \/ x \notin U64 THEN 0 ELSE x, {}, FALSE)

TowerNext == Arith \/ Negate \/ WrapArith \/ Mixed \/ Cross
TowerSpec == TowerInit /\ [][TowerNext]_towerVars

-----------------------------------------------------------------------------
(* Properties *)

\* Every operation of the tower answers with the exact integer, whatever the tiers of
\* its operands, and fails only where exact arithmetic prescribes it: a zero divisor,
\* more limbs than JMaxLimbs, wrapping a bigint, a crossing the target cannot hold.
TowerExact ==
  /\ tw.err <=> twWant.fails
  /\ (~tw.err /\ jacl_is_anyint(tw)) => IntOf(tw) = twWant.n

\* The bigint tier holds nothing an i64 could: whatever led to it, a bigint's value is
\* out of the i64 range, trimmed and within the limb bound (the invariant every other
\* tier's dispatch relies on).
BigOnlyWhenNeeded ==
  tw.tag = "big" => /\ IntOf(tw) \notin I64
                    /\ Len(tw.limbs) <= JMaxLimbs
                    /\ Last(tw.limbs) # 0

\* Comparison settles integers by value across the tiers.
TowerOrdered ==
  jacl_is_anyint(tw) /\ ~tw.err =>
    \A b \in Operands :
      LET x == IntOf(tw)
          y == IntOf(b)
      IN /\ jacl_val_equal(tw, b) <=> x = y
         /\ jacl_lt(tw, b) <=> x < y
         /\ jacl_le(tw, b) <=> x <= y
         /\ jacl_gt(tw, b) <=> x > y
         /\ jacl_ge(tw, b) <=> x >= y

\* A bigint read back from its decimal digits is the same value.
TowerDecimal ==
  tw.tag = "big" =>
    \A d \in {jacl_big_to_decimal(tw)} :
      jacl_big_from_decimal(d.neg, d.digits) = [tw EXCEPT !.flags = {}]

\* A result that carries a number carries the flags of every operand; a crossing into a
\* typed word, which has no bits for them, refuses a flagged value and keeps the flags.
TowerFlags == twWant.flags \subseteq tw.flags

\* A map finds an integer under any equal one: computed twice, each time without flags
\* and in cells 1 and 2, the two hash to one bucket.  An integer that is boxed as an i64
\* is left out on both sides, where collections.c:84-86 mixes the address of its cell:
\* of two equal ones each is a key of its own, although bigint.c:24-28 and
\* docs/TEMEN_NUMERICS.md:106-112 say that == and a map key agree across the tower.
KeysAgreeUnboxed ==
  (~tw.err /\ tw.tag \in {"i32", "big"} /\ tw.flags = {}) =>
    \A b \in Operands :
      (b.tag \in {"i32", "big"} /\ jacl_val_equal(tw, b)) => jmap_key_hash(tw, 1) = jmap_key_hash(b, 2)

\* The tower is integer arithmetic: exact, in one form per value, in order, equal
\* unboxed integers and bigints hash alike, and the flags of the operands reach the
\* result (bigint.c, builtins.c, collections.c).
TowerSound ==
  TowerExact /\ BigOnlyWhenNeeded /\ TowerOrdered /\ TowerDecimal /\ TowerFlags /\ KeysAgreeUnboxed
=============================================================================
