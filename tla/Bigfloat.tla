----------------------------- MODULE Bigfloat -----------------------------
(* lib/bignum/bigfloat.h: binary floating point of a chosen precision on the *)
(* integers of Bigint: sign, significand of exactly `precision` bits and      *)
(* exponent, or zero, infinity and NaN.  Each state holds one result and the  *)
(* exact value it should be the rounding of.                                  *)
EXTENDS Bigint

CONSTANTS
  OpPrecs,     \* the precisions of operands
  CtxPrecs,    \* the precisions a result may be asked in
  FloatExps, FloatBias, \* the exponents of operands, less FloatBias
  LogNum, LogDen,  \* the decimal digits of a bit, as estimated: 1233 / 4096
  FloatDigits  \* the digits a float is printed with

VARIABLES
  flt,         \* the last result
  fltWant,     \* its exact value
  fltCtx       \* the precision and rounding mode it was asked in

floatVars == <<flt, fltWant, fltCtx>>

Float(flags, sign, sig, exp, prec) == [flags |-> flags, sign |-> sign, sig |-> sig, exp |-> exp, prec |-> prec]
bigfloat_zero(sign, prec) == Float("zero", sign, bigint_zero, 0, prec)
bigfloat_inf(sign) == Float("inf", sign, bigint_zero, 0, 0)
bigfloat_nan == Float("nan", 0, bigint_zero, 0, 0)
Modes == {"even", "zero", "up", "down"}

\* Mutant: the lowest bit that is lost does not count.
MutSticky(sig, shift) == \E i \in 1 .. shift - 3 : bigint_test_bit(sig, i) = 1

\* Whether a bit below the guard and round bits is set.
Sticky(sig, shift) == \E i \in 0 .. shift - 3 : bigint_test_bit(sig, i) = 1

\* The significand brought to the precision asked, rounding what falls off.
RoundsUp(ctx, sign, guard, rest, odd) ==
  \/ ctx.mode = "even" /\ guard /\ (rest \/ odd)
  \/ ctx.mode = "up" /\ sign = 0 /\ (guard \/ rest)
  \/ ctx.mode = "down" /\ sign = 1 /\ (guard \/ rest)

\* A significand raised by one may have grown a bit.
Raised(ctx, sig, exp, sign) ==
  IF bigint_bit_len(sig) > ctx.prec THEN Float("normal", sign, bigint_shift_right(sig, 1), exp + 1, ctx.prec)
  ELSE Float("normal", sign, sig, exp, ctx.prec)

Rounded(ctx, sig, shifted, shift, exp, sign) ==
  IF RoundsUp(ctx, sign, bigint_test_bit(sig, shift - 1) = 1,
              (shift >= 2 /\ bigint_test_bit(sig, shift - 2) = 1) \/ Sticky(sig, shift), shifted.limbs[1] % 2 = 1)
  THEN Raised(ctx, bigint_add(shifted, bigint_from_u64(1)), exp + shift, sign)
  ELSE Float("normal", sign, shifted, exp + shift, ctx.prec)

Shifted(ctx, sig, shift, exp, sign) ==
  IF shift <= 0 THEN Float("normal", sign, bigint_shift_left(sig, -shift), exp + shift, ctx.prec)
  ELSE Rounded(ctx, sig, bigint_shift_right(sig, shift), shift, exp, sign)

_bigfloat_normalize(ctx, sig, exp, sign) ==
  IF bigint_is_zero(sig) THEN bigfloat_zero(sign, ctx.prec)
  ELSE Shifted(ctx, sig, bigint_bit_len(sig) - ctx.prec, exp, sign)

\* bigfloat_from_i64 and bigfloat_from_bigint
bigfloat_from_bigint(ctx, v) ==
  IF bigint_is_zero(v) THEN bigfloat_zero(0, ctx.prec)
  ELSE _bigfloat_normalize(ctx, bigint_abs(v), 0, v.sign)

\* Mutant: the exponents of negative numbers order them as of positive ones.
MutFloatCmp(a, b) ==
  IF a.exp # b.exp THEN (IF a.exp > b.exp THEN 1 ELSE -1)
  ELSE (IF a.sign = 1 THEN -1 ELSE 1) * bigint_cmp(a.sig, b.sig)

\* Two normal numbers of one sign.
SameSignCmp(a, b) ==
  (IF a.sign = 1 THEN -1 ELSE 1) *
    (IF a.exp # b.exp THEN (IF a.exp > b.exp THEN 1 ELSE -1) ELSE bigint_cmp(a.sig, b.sig))

bigfloat_cmp(a, b) ==
  LET Side(x) == IF x.sign = 1 THEN -1 ELSE 1
  IN CASE a.flags = "zero" /\ b.flags = "zero" -> 0
       [] a.flags = "inf" /\ b.flags = "inf" -> IF a.sign = b.sign THEN 0 ELSE Side(a)
       [] a.flags = "inf" /\ b.flags # "inf" -> Side(a)
       [] a.flags # "inf" /\ b.flags = "inf" -> -Side(b)
       [] a.flags = "zero" /\ b.flags = "normal" -> -Side(b)
       [] a.flags = "normal" /\ b.flags = "zero" -> Side(a)
       [] OTHER -> IF a.sign # b.sign THEN Side(a) ELSE SameSignCmp(a, b)

bigfloat_neg(x) == IF x.flags = "nan" THEN x ELSE [x EXCEPT !.sign = 1 - @]

-----------------------------------------------------------------------------
(* Arithmetic *)

CancelSign(ctx) == IF ctx.mode = "down" THEN 1 ELSE 0

\* Two normal numbers.  One too small to matter counts as one bit far below the
\* other's last; else the sum is exact before it is rounded.
Subtracted(ctx, a, b, diff, exp) ==
  IF bigint_is_zero(diff) THEN bigfloat_zero(CancelSign(ctx), ctx.prec)
  ELSE _bigfloat_normalize(ctx, bigint_abs(diff), exp, IF diff.sign = 1 THEN b.sign ELSE a.sign)

Aligned(ctx, a, b, base, less, exp) ==
  IF a.sign = b.sign THEN _bigfloat_normalize(ctx, bigint_add(base, less), exp, a.sign)
  ELSE Subtracted(ctx, a, b, bigint_sub(base, less), exp)

AddLarger(ctx, a, b, pa, es) ==
  IF a.exp - b.exp > Max({ctx.prec, pa, bigint_bit_len(b.sig)}) + 2
  THEN Aligned(ctx, a, b, bigint_shift_left(a.sig, es), bigint_from_u64(1), a.exp - es)
  ELSE Aligned(ctx, a, b, bigint_shift_left(a.sig, a.exp - b.exp), b.sig, b.exp)

ExtraBits(ctx, pa) == IF ctx.prec > pa THEN ctx.prec - pa + 3 ELSE 3

AddNormal(ctx, x, y) ==
  LET a == IF y.exp > x.exp THEN y ELSE x
  IN AddLarger(ctx, a, IF y.exp > x.exp THEN x ELSE y, bigint_bit_len(a.sig), ExtraBits(ctx, bigint_bit_len(a.sig)))

bigfloat_add(ctx, x, y) ==
  CASE "nan" \in {x.flags, y.flags} -> bigfloat_nan
    [] x.flags = "inf" /\ y.flags = "inf" -> IF x.sign = y.sign THEN bigfloat_inf(x.sign) ELSE bigfloat_nan
    [] x.flags = "inf" /\ y.flags \in {"zero", "normal"} -> bigfloat_inf(x.sign)
    [] x.flags \in {"zero", "normal"} /\ y.flags = "inf" -> bigfloat_inf(y.sign)
    [] x.flags = "zero" /\ y.flags = "zero" ->
         bigfloat_zero(IF x.sign = y.sign THEN x.sign ELSE CancelSign(ctx), ctx.prec)
    [] x.flags = "zero" /\ y.flags = "normal" -> _bigfloat_normalize(ctx, y.sig, y.exp, y.sign)
    [] x.flags = "normal" /\ y.flags = "zero" -> _bigfloat_normalize(ctx, x.sig, x.exp, x.sign)
    [] OTHER -> AddNormal(ctx, x, y)

bigfloat_sub(ctx, x, y) == bigfloat_add(ctx, x, bigfloat_neg(y))

bigfloat_mul(ctx, x, y) ==
  LET sign == (x.sign + y.sign) % 2
      kinds == {x.flags, y.flags}
  IN CASE "nan" \in kinds -> bigfloat_nan
       [] "nan" \notin kinds /\ "inf" \in kinds -> IF "zero" \in kinds THEN bigfloat_nan ELSE bigfloat_inf(sign)
       [] kinds = {"zero"} \/ kinds = {"zero", "normal"} -> bigfloat_zero(sign, ctx.prec)
       [] OTHER -> _bigfloat_normalize(ctx, bigint_mul(x.sig, y.sig), x.exp + y.exp, sign)

\* The last bit of a quotient stands for all that follow.
WithSticky(d) ==
  IF bigint_is_zero(d.r) THEN d.q
  ELSE [d.q EXCEPT !.limbs = [@ EXCEPT ![1] = IF @ % 2 = 0 THEN @ + 1 ELSE @]]

bigfloat_div(ctx, x, y) ==
  LET sign  == (x.sign + y.sign) % 2
      extra == ctx.prec + 3
  IN CASE "nan" \in {x.flags, y.flags} -> bigfloat_nan
       [] x.flags = y.flags /\ x.flags \in {"inf", "zero"} -> bigfloat_nan
       [] x.flags = "inf" /\ y.flags \in {"zero", "normal"} -> bigfloat_inf(sign)
       [] x.flags \in {"zero", "normal"} /\ y.flags = "inf" -> bigfloat_zero(sign, ctx.prec)
       [] x.flags = "normal" /\ y.flags = "zero" -> bigfloat_inf(sign)
       [] x.flags = "zero" /\ y.flags = "normal" -> bigfloat_zero(sign, ctx.prec)
       [] OTHER -> _bigfloat_normalize(ctx, WithSticky(bigint_divmod(bigint_shift_left(x.sig, extra), y.sig)),
                                       x.exp - y.exp - extra, sign)

-----------------------------------------------------------------------------
(* Decimal text: a significand's digits and a decimal exponent *)

\* By squaring: Five is the odd part of Ten.
Five == Ten \div 2
RECURSIVE Pow5Loop(_, _, _)
Pow5Loop(result, base, e) ==
  IF e = 0 THEN result
  ELSE Pow5Loop(IF e % 2 = 1 THEN bigint_mul(result, base) ELSE result,
                IF e > 1 THEN bigint_mul(base, base) ELSE base, e \div 2)
_bigfloat_pow5(n) == Pow5Loop(bigint_from_u64(1), bigint_from_u64(Five), n)

\* C's division is towards zero; below zero the code makes it a floor.
DecExpEstimate(x) == ((bigint_bit_len(x.sig) - 1 + x.exp) * LogNum) \div LogDen

\* x * Ten^p as an integer, the nearest or, half way, the even one.
NearestOf(q, c) == IF c > 0 \/ (c = 0 /\ bigint_test_bit(q, 0) = 1) THEN bigint_add(q, bigint_from_u64(1)) ELSE q
ToNearest(d, den) == NearestOf(d.q, bigint_cmp(bigint_shift_left(d.r, 1), den))
NearestQuotient(n, den) == ToNearest(bigint_divmod(n, den), den)

RoundedTimesTen(x, p) ==
  NearestQuotient(bigint_shift_left(IF p > 0 THEN bigint_mul(x.sig, _bigfloat_pow5(p)) ELSE x.sig, Max({0, x.exp + p})),
                  bigint_shift_left(_bigfloat_pow5(Max({0, -p})), Max({0, -(x.exp + p)})))

\* Mutant: the digits are taken as first estimated.
MutPrintedOr(x, digits, decExp, attempts, m) == [m |-> m, e |-> decExp]

RECURSIVE PrintNormal(_, _, _, _)
\* Up to three attempts: the estimate is moved by the digits it was off.
PrintedOr(x, digits, decExp, attempts, m) ==
  IF Len(m) = digits \/ attempts = 1 THEN [m |-> m, e |-> decExp + Len(m) - digits]
  ELSE PrintNormal(x, digits, decExp + Len(m) - digits, attempts - 1)
PrintNormal(x, digits, decExp, attempts) ==
  PrintedOr(x, digits, decExp, attempts, bigint_to_str(RoundedTimesTen(x, digits - 1 - decExp), 10).digits)

bigfloat_to_str(x, digits) == PrintNormal(x, digits, DecExpEstimate(x), 3)

\* A mantissa ds whose last `frac` digits follow the point, times Ten^e.
FromQuotient(ctx, sign, sig, pow, dec, shift) ==
  _bigfloat_normalize(ctx, WithSticky(bigint_divmod(bigint_shift_left(sig, shift), pow)), dec - shift, sign)
FromDecimal(ctx, sign, sig, pow, dec) ==
  CASE bigint_is_zero(sig) -> bigfloat_zero(sign, ctx.prec)
    [] ~bigint_is_zero(sig) /\ dec >= 0 -> _bigfloat_normalize(ctx, bigint_mul(sig, pow), dec, sign)
    [] OTHER -> FromQuotient(ctx, sign, sig, pow, dec,
                  Max({0, bigint_bit_len(pow) + ctx.prec + 4 - bigint_bit_len(sig)}))

bigfloat_from_str(ctx, sign, ds, frac, e) ==
  FromDecimal(ctx, sign, bigint_from_str(0, ds, 10), _bigfloat_pow5(AbsInt(e - frac)), e - frac)

-----------------------------------------------------------------------------
(* The calculator: exact values are fractions *)

Ctxs == [prec : CtxPrecs, mode : Modes]

\* The least, and those whose last bit counts.
Significands(p) == {k \in 2 ^ (p - 1) .. (2 ^ p) - 1 : k = 2 ^ (p - 1) \/ k % 2 = 1}
FloatsOf(p) ==
  {Float("normal", s, Num(0, <<k>>), e, p) : s \in 0 .. 1, k \in Significands(p), e \in {f - FloatBias : f \in FloatExps}}
Floats ==
  UNION {FloatsOf(p) : p \in OpPrecs}
  \cup {bigfloat_zero(s, p) : s \in 0 .. 1, p \in OpPrecs} \cup {bigfloat_inf(0), bigfloat_inf(1), bigfloat_nan}

\* A fraction n / 2^k of a finite float, and of a result.
SignOf(x) == IF x.sign = 1 THEN -1 ELSE 1
Frac(x) == [n |-> SignOf(x) * Value(x.sig) * (2 ^ Max({x.exp, 0})), d |-> 2 ^ Max({-x.exp, 0})]
Finite(x) == x.flags \in {"zero", "normal"}

\* What an operation should give: a fraction, or the name of what is none.
Exact(n, d) == [k |-> "num", n |-> IF d < 0 THEN -n ELSE n, d |-> AbsInt(d)]
Special(k) == [k |-> k, n |-> 0, d |-> 1]
\* Neither: only its sign is known.
Short(sign) == [Special("short") EXCEPT !.n = sign]

\* The operand with the lower exponent is counted as one bit far below the other's
\* last, although it has so many more bits than the other that it reaches higher.
ShortSum(ctx, x, y) ==
  LET a == IF y.exp > x.exp THEN y ELSE x
      b == IF y.exp > x.exp THEN x ELSE y
      most == Max({ctx.prec, bigint_bit_len(a.sig), bigint_bit_len(b.sig)})
  IN /\ x.flags = "normal" /\ y.flags = "normal" /\ a.exp - b.exp > most + 2
     /\ ctx.prec - bigint_bit_len(a.sig) > most - bigint_bit_len(b.sig) + 1

SumOf(x, y) ==
  IF ShortSum(fltCtx, x, y) THEN Short(SignOf(IF y.exp > x.exp THEN y ELSE x))
  ELSE IF Finite(x) /\ Finite(y) THEN Exact(Frac(x).n * Frac(y).d + Frac(y).n * Frac(x).d, Frac(x).d * Frac(y).d)
  ELSE IF "nan" \in {x.flags, y.flags} \/ (x.flags = y.flags /\ x.sign # y.sign) THEN Special("nan")
  ELSE Special(IF SignOf(IF x.flags = "inf" THEN x ELSE y) = 1 THEN "+inf" ELSE "-inf")

\* The divisor has two bits more than the dividend, or yet more: the quotient
\* then has too few bits to be rounded.
ShortQuotient(x, y) ==
  x.flags = "normal" /\ y.flags = "normal" /\ bigint_bit_len(y.sig) > bigint_bit_len(x.sig) + 1

Infinite(x, y) == Special(IF x.sign = y.sign THEN "+inf" ELSE "-inf")

ProductOf(x, y) ==
  IF Finite(x) /\ Finite(y) THEN Exact(Frac(x).n * Frac(y).n, Frac(x).d * Frac(y).d)
  ELSE IF {x.flags, y.flags} \cap {"nan", "zero"} # {} THEN Special("nan") ELSE Infinite(x, y)

QuotientOf(x, y) ==
  IF ShortQuotient(x, y) THEN Short(IF x.sign = y.sign THEN 1 ELSE -1)
  ELSE IF Finite(x) /\ y.flags = "normal" THEN Exact(Frac(x).n * Frac(y).d, Frac(x).d * Frac(y).n)
  ELSE IF "nan" \in {x.flags, y.flags} \/ (x.flags = y.flags /\ x.flags \in {"inf", "zero"}) THEN Special("nan")
  ELSE IF y.flags = "inf" THEN Exact(0, 1) ELSE Infinite(x, y)

FloatInit ==
  /\ fltCtx \in Ctxs
  /\ \E v \in {Num(s, <<k>>) : s \in 0 .. 1, k \in 0 .. 20} \ {Num(1, <<0>>)} :
       flt = bigfloat_from_bigint(fltCtx, v) /\ fltWant = Exact(Value(v), 1)

FloatGives(f, want) == flt' = f /\ fltWant' = want /\ UNCHANGED fltCtx
\* An operation is worked once, on fresh operands.
FloatFresh == fltWant = Exact(0, 1) /\ flt = bigfloat_zero(0, fltCtx.prec)

FloatAdd(x, y) == FloatFresh /\ FloatGives(bigfloat_add(fltCtx, x, y), SumOf(x, y))
FloatSub(x, y) == FloatFresh /\ FloatGives(bigfloat_sub(fltCtx, x, y), SumOf(x, IF y.flags = "nan" THEN y ELSE [y EXCEPT !.sign = 1 - @]))
FloatMul(x, y) == FloatFresh /\ FloatGives(bigfloat_mul(fltCtx, x, y), ProductOf(x, y))
FloatDiv(x, y) == FloatFresh /\ FloatGives(bigfloat_div(fltCtx, x, y), QuotientOf(x, y))
FloatRead(sign, ds, frac, e) ==
  FloatFresh /\ LET m == ChunkValue(ds, Len(ds))
                    p == e - frac
                IN FloatGives(bigfloat_from_str(fltCtx, sign, ds, frac, e),
                              Exact((IF sign = 1 THEN -m ELSE m) * (Ten ^ Max({p, 0})), Ten ^ Max({-p, 0})))

FloatNext ==
  \/ \E x \in Floats, y \in Floats : FloatAdd(x, y) \/ FloatSub(x, y) \/ FloatMul(x, y) \/ FloatDiv(x, y)
  \/ \E s \in 0 .. 1, ds \in UNION {[1 .. k -> 0 .. Ten - 1] : k \in 1 .. 2}, frac \in 0 .. 1, e \in -3 .. 2 :
       FloatRead(s, ds, frac, e)

FloatSpec == FloatInit /\ [][FloatNext]_floatVars

-----------------------------------------------------------------------------
(* Properties *)

\* n / d against m * 2^e, all positive: -1, 0, 1.
Against(n, d, m, e) ==
  LET l == n * (2 ^ Max({-e, 0}))
      r == m * d * (2 ^ Max({e, 0}))
  IN IF l < r THEN -1 ELSE IF l = r THEN 0 ELSE 1

\* A result is the exact value rounded once, as the context says: of the two
\* numbers of that precision around it the one the mode asks, the nearer, or
\* of two as near the even; a sign is never lost, a NaN stands for what has no
\* value (bigfloat.h:86-186, :309-503).  Operands of different
\* precisions have two exceptions, results of which only the kind and the sign are
\* claimed, although bigfloat.h:312 and :446 say `rounded to ctx precision`: a
\* quotient whose divisor has two bits more than the dividend, which is shifted
\* by the precision asked and three bits whatever the divisor's length, so that
\* too few bits are left to round (:486-505); and a sum whose operand of the lower
\* exponent is taken as negligible, by its exponent and not by its length, where
\* it has two bits more than the other (:345-381).
FloatRounded ==
  LET n == AbsInt(fltWant.n)
      d == fltWant.d
      m == Value(flt.sig)
      away == \/ fltCtx.mode = "up" /\ flt.sign = 0
              \/ fltCtx.mode = "down" /\ flt.sign = 1
  IN CASE fltWant.k = "nan" -> flt.flags = "nan"
       [] fltWant.k \in {"+inf", "-inf"} -> flt = bigfloat_inf(IF fltWant.k = "-inf" THEN 1 ELSE 0)
       [] fltWant.k = "num" /\ n = 0 -> flt.flags = "zero"
       [] fltWant.k = "short" -> flt.flags = "normal" /\ flt.sign = IF fltWant.n < 0 THEN 1 ELSE 0
       [] OTHER ->
            /\ flt.flags = "normal" /\ bigint_bit_len(flt.sig) = fltCtx.prec
            /\ flt.sign = IF fltWant.n < 0 THEN 1 ELSE 0
            /\ CASE fltCtx.mode = "even" ->
                      /\ Against(2 * n, d, 2 * m + 1, flt.exp) \in (IF m % 2 = 0 THEN {-1, 0} ELSE {-1})
                      /\ IF m = 2 ^ (fltCtx.prec - 1)
                         THEN Against(4 * n, d, 4 * m - 1, flt.exp) \in {0, 1}
                         ELSE Against(2 * n, d, 2 * m - 1, flt.exp) \in (IF m % 2 = 0 THEN {0, 1} ELSE {1})
                 [] fltCtx.mode # "even" /\ ~away ->
                      Against(n, d, m, flt.exp) \in {0, 1} /\ Against(n, d, m + 1, flt.exp) = -1
                 [] OTHER ->
                      Against(n, d, m, flt.exp) \in {-1, 0} /\
                      (IF m = 2 ^ (fltCtx.prec - 1) THEN Against(2 * n, d, 2 * m - 1, flt.exp) = 1
                       ELSE Against(n, d, m - 1, flt.exp) = 1)

\* Printed with enough digits, a float has just that many, its first is not
\* zero, and in the mode "even" reads back as itself (bigfloat.h:529-671).
FloatPrintsBack ==
  flt.flags = "normal" =>
    \A p \in {bigfloat_to_str(flt, FloatDigits)} :
       /\ Len(p.m) = FloatDigits /\ p.m[1] # 0
       /\ bigfloat_from_str([prec |-> flt.prec, mode |-> "even"], flt.sign, p.m, FloatDigits - 1, p.e) = flt

\* Two floats of one precision are ordered as the values are (bigfloat.h
\* :255-283).
FloatOrdered ==
  flt.flags = "normal" => \A y \in FloatsOf(flt.prec) :
    LET a == Frac(flt).n * Frac(y).d
        b == Frac(y).n * Frac(flt).d
    IN bigfloat_cmp(flt, y) = IF a < b THEN -1 ELSE IF a = b THEN 0 ELSE 1

\* Integers and floats compute, compare and print as exact arithmetic prescribes
\* (bigint.h, bigfloat.h).
BignumSound ==
  /\ BigExact /\ BigOrdered /\ BigPrintsBack
  /\ FloatRounded /\ FloatOrdered /\ FloatPrintsBack
=============================================================================
