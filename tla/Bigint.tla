------------------------------ MODULE Bigint ------------------------------
(* lib/bignum/bigint.h: integers of any size, a sign and limbs of W bits,    *)
(* least significant first (64 in the code).  The limbs live in the number  *)
(* or in an arena, which no operation frees; what is modelled is their       *)
(* value.  A calculator takes a number in, works one operation on it and     *)
(* keeps beside it the integer the operation should give.                    *)
EXTENDS Integers, Sequences, FiniteSets, SequencesExt, FiniteSetsExt

CONSTANTS
  W,           \* bits of a limb
  Karatsuba,   \* BIGINT_KARATSUBA_THRESHOLD, in limbs
  Ten,         \* the base of bigint_to_str(x, 10): 10
  ChunkLen,    \* digits of the largest power of Ten below 2^W: 18
  EstNum, EstDen, \* digits of base Ten reserved per bit: 3 / 10
  Nibble,      \* bits of a hex digit: 4
  NumLimbs,    \* the limbs a number taken in is made of
  NumLen,      \* and their bound
  ArgLimbs,    \* the limbs of a second operand
  ArgLen,
  RefLimbs     \* the reference is an integer of TLC: products stay below this

VARIABLES
  num,         \* the number at hand
  numRef,      \* the integer it should be
  numAge       \* operations done

bigVars == <<num, numRef, numAge>>

Base == 2 ^ W

Num(sign, limbs) == [sign |-> sign, limbs |-> limbs]
bigint_zero == Num(0, <<0>>)
bigint_from_u64(v) == Num(0, <<v>>)

Limb(l, i) == IF i \in DOMAIN l THEN l[i] ELSE 0
Repeated(n) == [i \in 1 .. n |-> 0]

RECURSIVE StripZeros(_)
StripZeros(l) == IF Len(l) > 1 /\ Last(l) = 0 THEN StripZeros(Front(l)) ELSE l

Canonized(sign, l) == Num(IF l = <<0>> THEN 0 ELSE sign, l)
_bigint_normalize(x) == Canonized(x.sign, StripZeros(x.limbs))

bigint_is_zero(x) == x.limbs = <<0>>
_bigint_from_limbs(l) == IF l = <<>> THEN bigint_zero ELSE _bigint_normalize(Num(0, l))

-----------------------------------------------------------------------------
(* Comparison and bits *)

\* The limbs of a and of b from the top limb down.
RECURSIVE CmpLimbs(_, _, _)
CmpLimbs(a, b, i) ==
  IF i = 0 THEN 0 ELSE IF a[i] # b[i] THEN (IF a[i] > b[i] THEN 1 ELSE -1) ELSE CmpLimbs(a, b, i - 1)

_bigint_cmp_abs(a, b) ==
  IF Len(a.limbs) # Len(b.limbs) THEN (IF Len(a.limbs) > Len(b.limbs) THEN 1 ELSE -1)
  ELSE CmpLimbs(a.limbs, b.limbs, Len(a.limbs))

\* Mutant: two negative numbers compare as their magnitudes do.
MutCmp(a, b) ==
  IF bigint_is_zero(a) /\ bigint_is_zero(b) THEN 0
  ELSE IF a.sign # b.sign THEN (IF a.sign = 1 THEN -1 ELSE 1)
  ELSE _bigint_cmp_abs(a, b)

bigint_cmp(a, b) ==
  IF bigint_is_zero(a) /\ bigint_is_zero(b) THEN 0
  ELSE IF a.sign # b.sign THEN (IF a.sign = 1 THEN -1 ELSE 1)
  ELSE IF a.sign = 1 THEN -_bigint_cmp_abs(a, b) ELSE _bigint_cmp_abs(a, b)

\* The zeros above the highest bit set in a limb.
Clz(v) == W - (CHOOSE k \in 0 .. W : v < 2 ^ k /\ (k > 0 => v >= 2 ^ (k - 1)))

bigint_bit_len(x) == IF bigint_is_zero(x) THEN 0 ELSE Len(x.limbs) * W - Clz(Last(x.limbs))

bigint_test_bit(x, bit) == (Limb(x.limbs, 1 + (bit \div W)) \div (2 ^ (bit % W))) % 2

\* Limbs shifted left within a limb, with the bits that fall out at the top.
ShiftUp(l, s) ==
  [l |-> [i \in DOMAIN l |-> ((l[i] * (2 ^ s)) % Base) + (Limb(l, i - 1) \div (2 ^ (W - s)))],
   carry |-> Last(l) \div (2 ^ (W - s))]

WithCarry(r) == Append(r.l, r.carry)

\* Limbs shifted right within a limb.
ShiftDown(l, s) == [i \in DOMAIN l |-> (l[i] \div (2 ^ s)) + ((Limb(l, i + 1) * (2 ^ (W - s))) % Base)]

bigint_shift_left(x, bits) ==
  IF bigint_is_zero(x) \/ bits = 0 THEN x
  ELSE _bigint_normalize(Num(x.sign, Repeated(bits \div W) \o
         (IF bits % W > 0 THEN WithCarry(ShiftUp(x.limbs, bits % W)) ELSE x.limbs)))

bigint_shift_right(x, bits) ==
  IF bigint_is_zero(x) \/ bits = 0 THEN x
  ELSE IF bits >= bigint_bit_len(x) THEN bigint_zero
  ELSE _bigint_normalize(Num(x.sign, ShiftDown(SubSeq(x.limbs, 1 + (bits \div W), Len(x.limbs)), bits % W)))

bigint_neg(x) == [x EXCEPT !.sign = IF bigint_is_zero(x) THEN 0 ELSE 1 - @]
bigint_abs(x) == [x EXCEPT !.sign = 0]

-----------------------------------------------------------------------------
(* Sums *)

\* Limb i of a sum, av + bv + carry having wrapped to s, and the limbs above it.
RECURSIVE AddFrom(_, _, _, _)
SumLimb(a, b, i, carry, av, s) ==
  <<s>> \o AddFrom(a, b, i + 1, IF s < av \/ (carry = 1 /\ s = av) THEN 1 ELSE 0)
AddFrom(a, b, i, carry) ==
  IF i > Len(a) /\ i > Len(b) THEN <<carry>>
  ELSE SumLimb(a, b, i, carry, Limb(a, i), (Limb(a, i) + Limb(b, i) + carry) % Base)

_bigint_add_abs(a, b) == _bigint_normalize(Num(0, AddFrom(a.limbs, b.limbs, 1, 0)))

RECURSIVE SubFrom(_, _, _, _)
SubLimb(a, b, i, borrow, bv) ==
  <<(a[i] - bv - borrow) % Base>> \o SubFrom(a, b, i + 1, IF a[i] < bv \/ (borrow = 1 /\ a[i] = bv) THEN 1 ELSE 0)
SubFrom(a, b, i, borrow) == IF i > Len(a) THEN <<>> ELSE SubLimb(a, b, i, borrow, Limb(b, i))

\* |a| >= |b|.
_bigint_sub_abs(a, b) == _bigint_normalize(Num(0, SubFrom(a.limbs, b.limbs, 1, 0)))

Signed(sign, x) == [x EXCEPT !.sign = IF bigint_is_zero(x) THEN 0 ELSE sign]

\* Operands of opposite signs, the larger first.
Difference(x, y) == IF _bigint_cmp_abs(x, y) = 0 THEN bigint_zero ELSE Signed(x.sign, _bigint_sub_abs(x, y))

bigint_add(x, y) ==
  IF x.sign = y.sign THEN Signed(x.sign, _bigint_add_abs(x, y))
  ELSE LET swap == _bigint_cmp_abs(x, y) < 0
       IN Difference(IF swap THEN y ELSE x, IF swap THEN x ELSE y)

bigint_sub(x, y) == bigint_add(x, bigint_neg(y))

-----------------------------------------------------------------------------
(* Products *)

\* Limbs l times a limb y plus the limbs of add, with the carry out on top.
RECURSIVE TimesFrom(_, _, _, _, _)
ProductLimb(l, y, add, i, p) == <<p % Base>> \o TimesFrom(l, y, add, i + 1, p \div Base)
TimesFrom(l, y, add, i, carry) ==
  IF i > Len(l) THEN <<carry>> ELSE ProductLimb(l, y, add, i, l[i] * y + Limb(add, i) + carry)
TimesLimb(l, y, add) == TimesFrom(l, y, add, 1, 0)

bigint_mul_u64(x, y) ==
  IF y = 0 \/ bigint_is_zero(x) THEN bigint_zero
  ELSE _bigint_normalize(Num(x.sign, TimesLimb(x.limbs, y, <<>>)))

\* Row i adds x's limb i times y at place i; the place above is still zero.
RECURSIVE Rows(_, _, _, _)
Rows(r, x, y, i) ==
  IF i > Len(x) THEN r
  ELSE Rows(SubSeq(r, 1, i - 1) \o TimesLimb(y, x[i], SubSeq(r, i, Len(r))), x, y, i + 1)

_bigint_mul_schoolbook(x, y) == _bigint_normalize(Num(0, Rows(Repeated(Len(y.limbs)), x.limbs, y.limbs, 1)))

RECURSIVE _bigint_mul_mag(_, _)

LowHalf(x, m)  == _bigint_from_limbs(SubSeq(x.limbs, 1, m))
HighHalf(x, m) == _bigint_from_limbs(SubSeq(x.limbs, m + 1, Len(x.limbs)))

\* z2 * B^2m + (mid - z0 - z2) * B^m + z0.
Recomposed(z0, z2, mid, m) ==
  bigint_add(bigint_add(bigint_shift_left(z2, 2 * m * W),
                        bigint_shift_left(bigint_sub(bigint_sub(mid, z0), z2), m * W)), z0)

KaratsubaOn(x0, x1, y0, y1, m) ==
  Recomposed(_bigint_mul_mag(x0, y0), _bigint_mul_mag(x1, y1), _bigint_mul_mag(bigint_add(x0, x1), bigint_add(y0, y1)), m)

_bigint_karatsuba(x, y) ==
  LET m == Min({Len(x.limbs), Len(y.limbs)}) \div 2
  IN KaratsubaOn(LowHalf(x, m), HighHalf(x, m), LowHalf(y, m), HighHalf(y, m), m)

_bigint_mul_mag(x, y) ==
  IF Len(x.limbs) >= Karatsuba /\ Len(y.limbs) >= Karatsuba THEN _bigint_karatsuba(x, y)
  ELSE _bigint_mul_schoolbook(x, y)

bigint_mul(x, y) ==
  IF bigint_is_zero(x) \/ bigint_is_zero(y) THEN bigint_zero
  ELSE Signed((x.sign + y.sign) % 2, _bigint_mul_mag(bigint_abs(x), bigint_abs(y)))

-----------------------------------------------------------------------------
(* Quotients *)

RECURSIVE QuotientLimbs(_, _, _, _, _)
QuotientLimbs(l, d, i, rem, q) ==
  IF i = 0 THEN [q |-> _bigint_normalize(Num(0, q)), rem |-> rem]
  ELSE QuotientLimbs(l, d, i - 1, (rem * Base + l[i]) % d, <<(rem * Base + l[i]) \div d>> \o q)

_bigint_divmod_u64(x, d) == QuotientLimbs(x.limbs, d, Len(x.limbs), 0, <<>>)

\* D4: the estimate of a quotient digit, corrected by the second limb.
RECURSIVE RefineQhat(_, _, _, _, _)
RefineQhat(q, r, v1, v2, u2) ==
  IF q < Base /\ q * v2 <= r * Base + u2 THEN q
  ELSE IF r + v1 >= Base THEN q - 1 ELSE RefineQhat(q - 1, r + v1, v1, v2, u2)

\* D5: u[j .. j + n] -= qd * v, limb by limb; the borrow counts into the carry.
RECURSIVE TakeFrom(_, _, _, _, _, _)
TakeLimb(u, j, v, qd, i, p) ==
  TakeFrom([u EXCEPT ![j + i] = (@ - p) % Base], j, v, qd, i + 1, (p \div Base) + (IF u[j + i] < p % Base THEN 1 ELSE 0))
TakeFrom(u, j, v, qd, i, carry) ==
  IF i <= Len(v) THEN TakeLimb(u, j, v, qd, i, qd * v[i] + carry)
  ELSE [u |-> [u EXCEPT ![j + i] = (@ - carry) % Base], over |-> u[j + i] < carry]
SubtractProduct(u, j, v, qd) == TakeFrom(u, j, v, qd, 1, 0)

\* D6: the divisor added back.
RECURSIVE PutBack(_, _, _, _, _)
PutBack(u, j, v, i, carry) ==
  IF i > Len(v) THEN [u EXCEPT ![j + i] = (@ + carry) % Base]
  ELSE PutBack([u EXCEPT ![j + i] = (@ + v[i] + carry) % Base], j, v, i + 1, (u[j + i] + v[i] + carry) \div Base)
AddBack(u, j, v) == PutBack(u, j, v, 1, 0)

\* D3: the digit estimated from the two limbs on top.
Qhat(u, j, v, n) ==
  LET uu == u[j + n + 1] * Base + u[j + n]
  IN RefineQhat(uu \div v[n], uu % v[n], v[n], v[n - 1], u[j + n - 1]) % Base

\* Mutant: a digit is used as estimated, never added back.
MutDigitTaken(q, j, v, qd, sub) == [u |-> sub.u, q |-> <<qd>> \o q]

\* D6: a digit one too large is put right.
DigitTaken(q, j, v, qd, sub) ==
  IF sub.over THEN [u |-> AddBack(sub.u, j, v), q |-> <<qd - 1>> \o q]
  ELSE [u |-> sub.u, q |-> <<qd>> \o q]

\* One digit of the quotient, D3 to D7, and those below it.
RECURSIVE KnuthDigits(_, _, _)
DigitOf(r, j, v, qd) == DigitTaken(r.q, j, v, qd, SubtractProduct(r.u, j, v, qd))
KnuthDigits(r, j, v) ==
  IF j < 0 THEN r ELSE KnuthDigits(DigitOf(r, j, v, Qhat(r.u, j, v, Len(v))), j - 1, v)

\* Algorithm D on magnitudes: y has two limbs or more and |x| >= |y|.
\* D1: the divisor's top bit set; D8: the remainder shifted back.
Unshifted(res, n, d) ==
  [q |-> _bigint_from_limbs(res.q), r |-> _bigint_from_limbs(ShiftDown(SubSeq(res.u, 1, n), d))]
KnuthBy(x, y, d) ==
  Unshifted(KnuthDigits([u |-> WithCarry(ShiftUp(x, d)), q |-> <<>>], Len(x) - Len(y), ShiftUp(y, d).l), Len(y), d)
_bigint_divmod_knuth(x, y) == KnuthBy(x.limbs, y.limbs, Clz(Last(y.limbs)))

OneLimb(d) == [q |-> d.q, r |-> bigint_from_u64(d.rem)]
BothSigned(x, y, d) == [q |-> Signed((x.sign + y.sign) % 2, d.q), r |-> Signed(x.sign, d.r)]

\* A division by zero writes neither; no number is without limbs.
Unwritten == [q |-> Num(0, <<>>), r |-> Num(0, <<>>)]

\* Truncated division: the remainder has the sign of the dividend.
bigint_divmod(x, y) ==
  CASE bigint_is_zero(y) -> Unwritten
    [] ~bigint_is_zero(y) /\ bigint_is_zero(x) -> [q |-> bigint_zero, r |-> bigint_zero]
    [] ~bigint_is_zero(y) /\ ~bigint_is_zero(x) /\ _bigint_cmp_abs(x, y) < 0 -> [q |-> bigint_zero, r |-> x]
    [] OTHER -> BothSigned(x, y, IF Len(y.limbs) = 1 THEN OneLimb(_bigint_divmod_u64(x, y.limbs[1]))
                                 ELSE _bigint_divmod_knuth(x, y))

_bigint_ctz(x) ==
  IF bigint_is_zero(x) THEN 0
  ELSE Min({k \in 0 .. Len(x.limbs) * W - 1 : bigint_test_bit(x, k) = 1})

OddPart(x, ctz) == bigint_shift_right(x, ctz)

RECURSIVE SteinLoop(_, _)
SteinStep(d, lo) == SteinLoop(OddPart(d, _bigint_ctz(d)), lo)
SteinLoop(u, v) ==
  CASE _bigint_cmp_abs(u, v) = 0 -> u
    [] _bigint_cmp_abs(u, v) > 0 -> SteinStep(_bigint_sub_abs(u, v), v)
    [] OTHER -> SteinStep(_bigint_sub_abs(v, u), u)

GcdOf(u, v, cu, cv) ==
  bigint_abs(bigint_shift_left(SteinLoop(OddPart(u, cu), OddPart(v, cv)), Min({cu, cv})))

bigint_gcd(x, y) ==
  IF bigint_is_zero(x) THEN bigint_abs(y) ELSE IF bigint_is_zero(y) THEN bigint_abs(x)
  ELSE GcdOf(bigint_abs(x), bigint_abs(y), _bigint_ctz(x), _bigint_ctz(y))

-----------------------------------------------------------------------------
(* Text: [sign, the digits, most significant first, the bytes reserved] *)

Printed(sign, digits, cap) == [sign |-> sign, digits |-> digits, cap |-> cap]

\* Bases 16 and 2: groups of k bits taken out of the limbs.
BitGroups(x, k, n) ==
  Printed(x.sign, [i \in 1 .. n |-> (x.limbs[1 + (((n - i) * k) \div W)] \div (2 ^ (((n - i) * k) % W))) % (2 ^ k)],
          n + x.sign + 1)
PrintBits(x, k) == BitGroups(x, k, (bigint_bit_len(x) + k - 1) \div k)

\* The digits of one chunk, least significant first; the last chunk stops at
\* its last digit that counts.
RECURSIVE ChunkDigits(_, _, _)
ChunkDigits(rem, k, last) ==
  <<rem % Ten>> \o (IF k = 1 \/ (last /\ rem \div Ten = 0) THEN <<>> ELSE ChunkDigits(rem \div Ten, k - 1, last))

\* Mutant: a chunk in the middle loses its leading zeros.
MutChunkOf(d) == ChunkDigits(d.rem, ChunkLen, TRUE)

ChunkOf(d) == ChunkDigits(d.rem, ChunkLen, bigint_is_zero(d.q))

RECURSIVE DecimalDigits(_)
ChunkThenRest(d) == ChunkOf(d) \o DecimalDigits(d.q)
DecimalDigits(v) == IF bigint_is_zero(v) THEN <<>> ELSE ChunkThenRest(_bigint_divmod_u64(v, Ten ^ ChunkLen))

\* The bytes bigint_to_str estimates for base 10, its sign and its end included.
DigitsReserved(x) == ((bigint_bit_len(x) * EstNum) \div EstDen) + 3 + x.sign

bigint_to_str(x, base) ==
  CASE bigint_is_zero(x) -> Printed(0, <<0>>, 2)
    [] ~bigint_is_zero(x) /\ base = 16 -> PrintBits(x, Nibble)
    [] ~bigint_is_zero(x) /\ base = 2 -> PrintBits(x, 1)
    [] OTHER -> Printed(x.sign, Reverse(DecimalDigits(bigint_abs(x))), DigitsReserved(x))

\* Bases 16 and 2: each digit is or-ed into its limb.
RECURSIVE Collected(_, _, _, _)
Collected(ds, k, from, to) ==
  IF to < from THEN 0 ELSE ds[to] + (2 ^ k) * Collected(ds, k, from, to - 1)
ParseBits(ds, k) ==
  LET per == W \div k
  IN [j \in 1 .. (Len(ds) + per - 1) \div per |->
       Collected(ds, k, Max({1, Len(ds) + 1 - j * per}), Len(ds) - (j - 1) * per)]

\* Base 10: the first chunk takes the odd digits, each later one is whole.
RECURSIVE ParseDecimal(_, _), ChunkValue(_, _)
ChunkValue(ds, k) == IF k = 0 THEN 0 ELSE Ten * ChunkValue(ds, k - 1) + ds[k]
WithChunk(acc, ds, k) ==
  ParseDecimal(bigint_add(bigint_mul_u64(acc, Ten ^ k), bigint_from_u64(ChunkValue(ds, k))), SubSeq(ds, k + 1, Len(ds)))
ParseDecimal(acc, ds) ==
  IF ds = <<>> THEN acc
  ELSE WithChunk(acc, ds, IF Len(ds) % ChunkLen = 0 THEN ChunkLen ELSE Len(ds) % ChunkLen)

\* Digits that are all of the base; the code refuses any other text.
bigint_from_str(sign, ds, base) ==
  CASE base = 16 -> _bigint_normalize(Num(sign, ParseBits(ds, Nibble)))
    [] base = 2  -> _bigint_normalize(Num(sign, ParseBits(ds, 1)))
    [] OTHER     -> Signed(sign, ParseDecimal(bigint_zero, ds))

-----------------------------------------------------------------------------
(* The calculator *)

RECURSIVE Horner(_, _)
Horner(l, i) == IF i > Len(l) THEN 0 ELSE l[i] + Base * Horner(l, i + 1)
Value(x) == (IF x.sign = 1 THEN -1 ELSE 1) * Horner(x.limbs, 1)

Numbers(limbs, n) ==
  {Num(s, StripZeros(l)) : s \in 0 .. 1, l \in UNION {[1 .. k -> limbs] : k \in 1 .. n}} \ {Num(1, <<0>>)}

AbsInt(n) == IF n < 0 THEN -n ELSE n
\* C's division: towards zero.
Quot(a, b) == (IF (a < 0) = (b < 0) THEN 1 ELSE -1) * (AbsInt(a) \div AbsInt(b))
Divides(d, n) == d # 0 /\ AbsInt(n) % d = 0
Gcd(a, b) == IF a = 0 THEN AbsInt(b) ELSE IF b = 0 THEN AbsInt(a)
             ELSE Max({d \in 1 .. Min({AbsInt(a), AbsInt(b)}) : Divides(d, a) /\ Divides(d, b)})

BigInit == num \in Numbers(NumLimbs, NumLen) /\ numRef = Value(num) /\ numAge = 0

Works(x, n) == numAge = 0 /\ numAge' = 1 /\ num' = x /\ numRef' = n

BigAdd(y) == Works(bigint_add(num, y), numRef + Value(y))
BigSub(y) == Works(bigint_sub(num, y), numRef - Value(y))
BigMul(y) == Len(num.limbs) + Len(y.limbs) <= RefLimbs /\ Works(bigint_mul(num, y), numRef * Value(y))
BigDiv(y) == bigint_divmod(num, y) # Unwritten /\ Works(bigint_divmod(num, y).q, Quot(numRef, Value(y)))
BigMod(y) == bigint_divmod(num, y) # Unwritten /\ Works(bigint_divmod(num, y).r, numRef - Value(y) * Quot(numRef, Value(y)))
\* Refused: a caller of bigint_divmod that heeds its answer keeps its number.
\* bigint_div and bigint_mod (:781-793) do not, and return a quotient or a
\* remainder that nothing wrote, where their comments say zero.
BigByZero(y) == bigint_divmod(num, y) = Unwritten /\ Works(num, numRef)
BigGcd(y) == Len(num.limbs) = 1 /\ Works(bigint_gcd(num, y), Gcd(numRef, Value(y)))
BigShl(k) == bigint_bit_len(num) + k <= RefLimbs * W /\ Works(bigint_shift_left(num, k), numRef * (2 ^ k))
BigShr(k) == Works(bigint_shift_right(num, k), Quot(numRef, 2 ^ k))
BigNeg    == Works(bigint_neg(num), -numRef)
BigAbs    == Works(bigint_abs(num), AbsInt(numRef))

BigNext ==
  \/ \E y \in Numbers(ArgLimbs, ArgLen) :
       BigAdd(y) \/ BigSub(y) \/ BigMul(y) \/ BigDiv(y) \/ BigMod(y) \/ BigByZero(y) \/ BigGcd(y)
  \/ \E k \in 0 .. 2 * W + 1 : BigShl(k) \/ BigShr(k)
  \/ BigNeg \/ BigAbs

BigSpec == BigInit /\ [][BigNext]_bigVars

-----------------------------------------------------------------------------
(* Properties *)

\* Every operation gives the integer it should, carries, borrows, Karatsuba's
\* recomposition and Knuth's corrected and added-back digits included, in the
\* one canonical form: no zero limb on top and no negative zero (bigint.h
\* :76-95, comparisons by length rely on it).
BigExact ==
  /\ Value(num) = numRef
  /\ num = _bigint_normalize(num) /\ \A i \in DOMAIN num.limbs : num.limbs[i] \in 0 .. Base - 1

\* The bytes reserved keep up with every number of as many bits.  Three tenths
\* of a digit a bit, which the code reserves, is less than a bit takes (its
\* comment says 0.302): at 1073 bits and above a number may need a byte more.
EstimateKeepsUp(bits) == 2 ^ bits <= Ten ^ (((bits * EstNum) \div EstDen) + 2)

\* A number printed in base 2, 10 or 16 reads back as itself, with no leading
\* zero, and fits the bytes reserved for it, in base 10 as long as the estimate
\* of its digits keeps up (bigint.h:846-931, :936-1094).
BigPrintsBack ==
  \A base \in {2, 10, 16} : \A p \in {bigint_to_str(num, base)} :
    /\ bigint_from_str(p.sign, p.digits, base) = num
    /\ Len(p.digits) > 1 => p.digits[1] # 0
    /\ base = 10 /\ EstimateKeepsUp(bigint_bit_len(num)) => Len(p.digits) + p.sign + 1 <= p.cap
    /\ base # 10 => Len(p.digits) + p.sign + 1 <= p.cap

\* The order of numbers, their length in bits and their bits are those of the
\* integers (bigint.h:163-233).
BigOrdered ==
  /\ \A y \in Numbers(ArgLimbs, 1) \cup {num, bigint_neg(num), bigint_add(num, bigint_from_u64(1)), bigint_sub(num, Num(0, <<0, 1>>))} :
       bigint_cmp(num, y) = IF numRef < Value(y) THEN -1 ELSE IF numRef = Value(y) THEN 0 ELSE 1
  /\ \A n \in {bigint_bit_len(num)} : (n = 0 <=> numRef = 0) /\ AbsInt(numRef) < 2 ^ n /\ (n > 0 => AbsInt(numRef) >= 2 ^ (n - 1))
  /\ \A k \in 0 .. bigint_bit_len(num) : bigint_test_bit(num, k) = (AbsInt(numRef) \div (2 ^ k)) % 2
=============================================================================
