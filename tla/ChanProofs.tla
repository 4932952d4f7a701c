----------------------------- MODULE ChanProofs -----------------------------
(* For any fibers, edge, frames and lengths: a channel is the byte queue of    *)
(* module ByteStream, an end serves one operation at a time, and every write   *)
(* arrives whole.                                                              *)
EXTENDS Chan, WellFoundedInduction, SequenceTheorems, FiniteSetTheorems, TLAPS

-----------------------------------------------------------------------------
(* Flattening the frames of the edge. *)

LEMMA LeastNat ==
  ASSUME NEW T, T \subseteq Nat, T # {}
  PROVE  \E m \in T : \A k \in T : m <= k
  <1>1. IsWellFoundedOn(OpToRel(<, Nat), Nat)
    BY NatLessThanWellFounded
  <1>2. PICK m \in T : \A k \in T : ~(<<k, m>> \in OpToRel(<, Nat))
    BY <1>1, WFMin
  <1>3. m \in Nat /\ \A k \in T : k \in Nat /\ ~(k < m)
    BY <1>2 DEF OpToRel
  <1>4. ASSUME NEW k \in T PROVE m <= k
    BY <1>3
  <1>5. QED
    BY <1>4

LEMMA Assoc ==
  ASSUME NEW S, NEW a \in Seq(S), NEW b \in Seq(S), NEW c \in Seq(S)
  PROVE  (a \o b) \o c = a \o (b \o c)
  BY ConcatAssociative

\* Concatenation, named so that it can be kept whole.
Cat(a, b) == a \o b

LEMMA CatAssoc ==
  ASSUME NEW S, NEW a \in Seq(S), NEW b \in Seq(S), NEW c \in Seq(S)
  PROVE  Cat(Cat(a, b), c) = Cat(a, Cat(b, c))
  BY Assoc DEF Cat

\* f[i] is the first i sequences of ss put one after the other.
Flattens(f, ss, m) ==
  \A i \in 1 .. m : f[i] = IF i = 1 THEN ss[i] ELSE Cat(f[i - 1], ss[i])

\* Such a function exists, by induction on the number of sequences.
LEMMA FlattenExists ==
  ASSUME NEW S, NEW ss \in Seq(Seq(S))
  PROVE  \E f \in [1 .. Len(ss) -> Seq(S)] : Flattens(f, ss, Len(ss))
  <1> DEFINE Has(m) == \E f \in [1 .. m -> Seq(S)] : Flattens(f, ss, m)
             bad == {m \in 0 .. Len(ss) : ~Has(m)}
  <1>1. ASSUME bad # {} PROVE FALSE
    <2>1. PICK m \in bad : \A k \in bad : m <= k
      <3>1. bad \subseteq Nat
        OBVIOUS
      <3> HIDE DEF bad
      <3>2. QED
        BY <1>1, <3>1, LeastNat
    <2>2. m \in 0 .. Len(ss) /\ ~Has(m)
      OBVIOUS
    <2>3. m # 0
      <3>1. ASSUME m = 0 PROVE FALSE
        <4> DEFINE f == [i \in 1 .. 0 |-> << >>]
        <4>1. f \in [1 .. 0 -> Seq(S)] /\ Flattens(f, ss, 0)
          BY DEF Flattens
        <4>2. QED
          BY <4>1, <2>2, <3>1
      <3>2. QED
        BY <3>1
    <2>4. Has(m - 1)
      <3>1. m - 1 \in 0 .. Len(ss) /\ ~(m <= m - 1)
        BY <2>2, <2>3
      <3>2. m - 1 \notin bad
        <4> HIDE DEF bad
        <4>1. QED
          BY <2>1, <3>1
      <3>3. QED
        BY <3>1, <3>2
    <2>5. PICK f \in [1 .. m - 1 -> Seq(S)] : Flattens(f, ss, m - 1)
      BY <2>4
    <2> DEFINE last == IF m = 1 THEN ss[m] ELSE Cat(f[m - 1], ss[m])
               g == [i \in 1 .. m |-> IF i = m THEN last ELSE f[i]]
    <2>6. last \in Seq(S)
      <3>1. ss[m] \in Seq(S)
        BY <2>2, <2>3
      <3>2. CASE m = 1
        BY <3>1, <3>2
      <3>3. CASE m # 1
        <4>1. f[m - 1] \in Seq(S)
          BY <2>2, <2>3, <2>5, <3>3
        <4>2. QED
          BY <3>1, <3>3, <4>1 DEF Cat
      <3>4. QED
        BY <3>2, <3>3
    <2> HIDE DEF last
    <2>7. g \in [1 .. m -> Seq(S)]
      BY <2>2, <2>3, <2>5, <2>6
    <2>8. Flattens(g, ss, m)
      <3>1. SUFFICES ASSUME NEW i \in 1 .. m
                     PROVE  g[i] = IF i = 1 THEN ss[i] ELSE Cat(g[i - 1], ss[i])
        BY DEF Flattens
      <3>2. CASE i = m
        <4>1. i # 1 => g[i - 1] = f[i - 1]
          BY <3>2, <2>2, <2>3
        <4>2. g[i] = last
          BY <3>2
        <4>3. QED
          BY <4>1, <4>2, <3>2 DEF last
      <3>3. CASE i # m
        <4>1. i \in 1 .. m - 1 /\ g[i] = f[i] /\ (i # 1 => g[i - 1] = f[i - 1])
          BY <3>3, <2>2, <2>3
        <4>2. f[i] = IF i = 1 THEN ss[i] ELSE Cat(f[i - 1], ss[i])
          BY <4>1, <2>5 DEF Flattens
        <4>3. QED
          BY <4>1, <4>2
      <3>4. QED
        BY <3>2, <3>3
    <2>9. QED
      <3> HIDE DEF g
      <3>1. QED
        BY <2>2, <2>7, <2>8
  <1>2. Len(ss) \in 0 .. Len(ss)
    OBVIOUS
  <1>3. QED
    BY <1>1, <1>2

\* Two such functions agree where the sequences do.
LEMMA FlattenUnique ==
  ASSUME NEW m \in Nat, NEW f, NEW g, NEW ss, NEW tt,
         Flattens(f, ss, m), Flattens(g, tt, m),
         \A i \in 1 .. m : ss[i] = tt[i]
  PROVE  \A k \in 1 .. m : f[k] = g[k]
  <1> DEFINE bad == {i \in 1 .. m : f[i] # g[i]}
  <1>1. ASSUME bad # {} PROVE FALSE
    <2>1. PICK i \in bad : \A k \in bad : i <= k
      <3>1. bad \subseteq Nat
        OBVIOUS
      <3> HIDE DEF bad
      <3>2. QED
        BY <1>1, <3>1, LeastNat
    <2>2. i \in 1 .. m /\ f[i] # g[i]
      OBVIOUS
    <2>3. i # 1 => f[i - 1] = g[i - 1]
      <3>1. ASSUME i # 1 PROVE f[i - 1] = g[i - 1]
        <4>1. i - 1 \in 1 .. m /\ ~(i <= i - 1)
          BY <2>2, <3>1
        <4>2. i - 1 \notin bad
          <5> HIDE DEF bad
          <5>1. QED
            BY <2>1, <4>1
        <4>3. QED
          BY <4>1, <4>2
      <3>2. QED
        BY <3>1
    <2>4. /\ f[i] = IF i = 1 THEN ss[i] ELSE Cat(f[i - 1], ss[i])
          /\ g[i] = IF i = 1 THEN tt[i] ELSE Cat(g[i - 1], tt[i])
      BY <2>2 DEF Flattens
    <2>5. QED
      BY <2>2, <2>3, <2>4
  <1>2. QED
    BY <1>1

\* FlattenSeq is the last value of such a function.
LEMMA FlattenIs ==
  ASSUME NEW S, NEW ss \in Seq(Seq(S)), ss # << >>,
         NEW f \in [1 .. Len(ss) -> Seq(S)], Flattens(f, ss, Len(ss))
  PROVE  FlattenSeq(ss) = f[Len(ss)] /\ FlattenSeq(ss) \in Seq(S)
  <1> DEFINE Is(g) == g = [i \in 1 .. Len(ss) |-> IF i = 1 THEN ss[i] ELSE Cat(g[i - 1], ss[i])]
             g == CHOOSE h : Is(h)
  <1>1. Len(ss) \in Nat /\ Len(ss) # 0
    OBVIOUS
  <1>2. FlattenSeq(ss) = g[Len(ss)]
    BY <1>1 DEF FlattenSeq, Cat
  <1>3. Is(f)
    BY DEF Flattens
  <1>4. Is(g)
    <2> HIDE DEF Is
    <2>1. QED
      BY <1>3
  <1> HIDE DEF g
  <1>5. Flattens(g, ss, Len(ss))
    BY <1>4 DEF Flattens
  <1>6. \A i \in 1 .. Len(ss) : f[i] = g[i]
    BY <1>1, <1>5, FlattenUnique
  <1>7. QED
    BY <1>1, <1>2, <1>6

LEMMA FlattenTypes ==
  ASSUME NEW S, NEW ss \in Seq(Seq(S))
  PROVE  FlattenSeq(ss) \in Seq(S)
  <1>1. CASE ss = << >>
    BY <1>1 DEF FlattenSeq
  <1>2. CASE ss # << >>
    BY <1>2, FlattenExists, FlattenIs
  <1>3. QED
    BY <1>1, <1>2

LEMMA FlattenEmpty == FlattenSeq(<< >>) = << >>
  BY DEF FlattenSeq

\* A frame put at the end of the edge comes last.
LEMMA FlattenAppend ==
  ASSUME NEW S, NEW ss \in Seq(Seq(S)), NEW x \in Seq(S)
  PROVE  FlattenSeq(Append(ss, x)) = FlattenSeq(ss) \o x
  <1>0. PICK tt : tt = Append(ss, x)
    OBVIOUS
  <1>1. /\ tt \in Seq(Seq(S)) /\ Len(tt) = Len(ss) + 1 /\ tt # << >> /\ Len(ss) \in Nat
        /\ tt[Len(ss) + 1] = x /\ \A i \in 1 .. Len(ss) : tt[i] = ss[i]
    <2>1. tt \in Seq(Seq(S)) /\ Len(tt) = Len(ss) + 1 /\ Len(ss) \in Nat
      BY <1>0
    <2>2. tt[Len(ss) + 1] = x
      BY <1>0
    <2>3. \A i \in 1 .. Len(ss) : tt[i] = ss[i]
      BY <1>0
    <2>4. tt # << >>
      BY <2>1
    <2>5. QED
      BY <2>1, <2>2, <2>3, <2>4
  <1>2. PICK g : g \in [1 .. Len(tt) -> Seq(S)] /\ Flattens(g, tt, Len(tt))
    BY <1>1, FlattenExists
  <1>3. FlattenSeq(tt) = g[Len(tt)]
    BY <1>1, <1>2, FlattenIs
  <1>4. g[Len(tt)] = IF Len(tt) = 1 THEN x ELSE Cat(g[Len(ss)], x)
    <2>1. Len(tt) \in 1 .. Len(tt) /\ Len(tt) - 1 = Len(ss) /\ tt[Len(tt)] = x
      BY <1>1
    <2>2. g[Len(tt)] = IF Len(tt) = 1 THEN tt[Len(tt)] ELSE Cat(g[Len(tt) - 1], tt[Len(tt)])
      BY <1>2, <2>1 DEF Flattens
    <2>3. QED
      BY <2>1, <2>2
  <1>5. CASE ss = << >>
    <2>1. Len(tt) = 1 /\ << >> \o x = x
      BY <1>1, <1>5
    <2>2. QED
      BY <1>0, <1>3, <1>4, <1>5, <2>1, FlattenEmpty
  <1>6. CASE ss # << >>
    <2>1. PICK f : f \in [1 .. Len(ss) -> Seq(S)] /\ Flattens(f, ss, Len(ss))
      BY FlattenExists
    <2>2. FlattenSeq(ss) = f[Len(ss)]
      BY <1>6, <2>1, FlattenIs
    <2>3. Flattens(g, tt, Len(ss))
      <3>1. \A i \in 1 .. Len(ss) : i \in 1 .. Len(tt)
        BY <1>1
      <3>2. QED
        BY <1>2, <3>1 DEF Flattens
    <2>4. \A i \in 1 .. Len(ss) : f[i] = g[i]
      <3>1. Len(ss) \in Nat /\ \A i \in 1 .. Len(ss) : ss[i] = tt[i]
        BY <1>1
      <3>2. QED
        <4>1. Flattens(f, ss, Len(ss))
          BY <2>1
        <4>2. QED
          BY <4>1, <2>3, <3>1, FlattenUnique, Zenon
    <2>5. Len(ss) \in 1 .. Len(ss) /\ Len(tt) # 1
      BY <1>1, <1>6
    <2>6. QED
      BY <1>0, <1>3, <1>4, <2>2, <2>4, <2>5 DEF Cat
  <1>7. QED
    BY <1>5, <1>6

\* The first frame of the edge comes first.
LEMMA FlattenHead ==
  ASSUME NEW S, NEW ss \in Seq(Seq(S)), ss # << >>
  PROVE  FlattenSeq(ss) = Head(ss) \o FlattenSeq(Tail(ss))
  <1>0. PICK tt, h : tt = Tail(ss) /\ h = Head(ss)
    OBVIOUS
  <1>1. /\ tt \in Seq(Seq(S)) /\ h \in Seq(S) /\ h = ss[1] /\ Len(ss) \in Nat \ {0}
        /\ Len(tt) = Len(ss) - 1 /\ \A i \in 1 .. Len(tt) : tt[i] = ss[i + 1]
    <2>1. Len(ss) \in Nat \ {0} /\ h = ss[1]
      BY <1>0
    <2>2. tt \in Seq(Seq(S)) /\ Len(tt) = Len(ss) - 1
      BY <1>0
    <2>3. \A i \in 1 .. Len(tt) : tt[i] = ss[i + 1]
      BY <1>0
    <2>4. h \in Seq(S)
      BY <2>1
    <2>5. QED
      BY <2>1, <2>2, <2>3, <2>4
  <1>2. \A i \in 1 .. Len(ss) : ss[i] \in Seq(S)
    OBVIOUS
  <1>3. PICK f : f \in [1 .. Len(ss) -> Seq(S)] /\ Flattens(f, ss, Len(ss))
    BY FlattenExists
  <1>4. FlattenSeq(ss) = f[Len(ss)]
    BY <1>3, FlattenIs
  <1>5. f[1] = h
    <2>1. 1 \in 1 .. Len(ss)
      BY <1>1
    <2>2. QED
      BY <1>1, <1>3, <2>1 DEF Flattens
  <1>6. CASE Len(tt) = 0
    <2>1. tt = << >> /\ Len(ss) = 1
      BY <1>1, <1>6
    <2>2. QED
      <3>1. FlattenSeq(ss) = h /\ h \o << >> = h
        BY <1>1, <1>4, <1>5, <2>1
      <3>2. QED
        BY <1>0, <2>1, <3>1, FlattenEmpty
  <1>7. CASE Len(tt) # 0
    <2>1. PICK g : g \in [1 .. Len(tt) -> Seq(S)] /\ Flattens(g, tt, Len(tt))
      BY <1>1, FlattenExists
    <2>2. tt # << >> /\ Len(tt) \in Nat
      BY <1>1, <1>7
    <2>3. FlattenSeq(tt) = g[Len(tt)]
      BY <1>1, <2>1, <2>2, FlattenIs
    <2> DEFINE bad == {i \in 1 .. Len(tt) : f[i + 1] # Cat(h, g[i])}
    <2>4. ASSUME bad # {} PROVE FALSE
      <3>1. PICK i : i \in bad /\ \A k \in bad : i <= k
        <4>1. bad \subseteq Nat
          OBVIOUS
        <4> HIDE DEF bad
        <4>2. QED
          BY <2>4, <4>1, LeastNat
      <3>2. i \in 1 .. Len(tt) /\ f[i + 1] # Cat(h, g[i])
        BY <3>1
      <3>3. i + 1 \in 1 .. Len(ss) /\ i + 1 # 1 /\ (i + 1) - 1 = i /\ tt[i] = ss[i + 1] /\ i \in Nat
        <4>1. i \in Nat /\ 1 <= i /\ i <= Len(ss) - 1
          BY <3>2, <2>2, <1>1
        <4>2. i + 1 \in 1 .. Len(ss) /\ i + 1 # 1 /\ (i + 1) - 1 = i
          BY <4>1, <1>1
        <4>3. QED
          BY <3>2, <4>1, <4>2, <1>1
      <3>4. f[i + 1] = Cat(f[i], tt[i])
        BY <3>3, <1>3 DEF Flattens
      <3>5. g[i] = IF i = 1 THEN tt[i] ELSE Cat(g[i - 1], tt[i])
        BY <3>2, <2>1 DEF Flattens
      <3>6. CASE i = 1
        BY <3>2, <3>4, <3>5, <3>6, <1>5
      <3>7. CASE i # 1
        <4>1. i - 1 \in 1 .. Len(tt) /\ (i - 1) + 1 = i /\ ~(i <= i - 1)
          BY <3>2, <3>3, <3>7
        <4>2. i - 1 \notin bad
          <5> HIDE DEF bad
          <5>1. QED
            BY <3>1, <4>1
        <4>3. f[(i - 1) + 1] = Cat(h, g[i - 1])
          BY <4>1, <4>2
        <4>4. g[i - 1] \in Seq(S) /\ tt[i] \in Seq(S)
          BY <4>1, <2>1, <3>3, <1>2
        <4>5. Cat(Cat(h, g[i - 1]), tt[i]) = Cat(h, Cat(g[i - 1], tt[i]))
          <5>1. h \in Seq(S)
            BY <1>1
          <5> HIDE DEF bad
          <5>2. QED
            BY <5>1, <4>4, CatAssoc
        <4>6. QED
          BY <3>2, <3>4, <3>5, <3>7, <4>1, <4>3, <4>5
      <3>8. QED
        BY <3>6, <3>7
    <2>5. Len(tt) \in 1 .. Len(tt) /\ Len(tt) + 1 = Len(ss)
      BY <1>1, <1>7, <2>2
    <2>6. QED
      BY <1>0, <1>4, <2>3, <2>4, <2>5 DEF Cat
  <1>8. QED
    BY <1>6, <1>7

-----------------------------------------------------------------------------
(* What reading and writing do to the bytes in flight. *)

\* A byte is named by its write and its place in it.
Byte == Nat \X Nat

\* The bytes of s come from whole writes, up to where s begins and ends.
Whole(s) ==
  \A i \in 1 .. Len(s) - 1 :
    s[i + 1] = <<s[i][1], s[i][2] + 1>> \/ (s[i + 1][1] > s[i][1] /\ s[i + 1][2] = 1)

\* The bytes of s come from the first m operations.
UpTo(s, m) == \A i \in 1 .. Len(s) : s[i][1] <= m

LEMMA CatFields ==
  ASSUME NEW S, NEW a \in Seq(S), NEW b \in Seq(S)
  PROVE  /\ Cat(a, b) \in Seq(S) /\ Len(Cat(a, b)) = Len(a) + Len(b)
         /\ Len(a) \in Nat /\ Len(b) \in Nat
         /\ \A i \in 1 .. Len(a) : Cat(a, b)[i] = a[i]
         /\ \A i \in 1 .. Len(b) : Cat(a, b)[i + Len(a)] = b[i]
  BY DEF Cat

LEMMA WholeParts ==
  ASSUME NEW a \in Seq(Byte), NEW b \in Seq(Byte), Whole(Cat(a, b))
  PROVE  Whole(a) /\ Whole(b)
  <1> DEFINE s == Cat(a, b)
  <1>1. /\ Len(s) = Len(a) + Len(b) /\ Len(a) \in Nat /\ Len(b) \in Nat
        /\ \A i \in 1 .. Len(a) : s[i] = a[i]
        /\ \A i \in 1 .. Len(b) : s[i + Len(a)] = b[i]
    BY DEF Cat
  <1> HIDE DEF s
  <1>2. Whole(s)
    BY DEF s
  <1>3. Whole(a)
    <2>1. SUFFICES ASSUME NEW i \in 1 .. Len(a) - 1
                   PROVE  a[i + 1] = <<a[i][1], a[i][2] + 1>> \/ (a[i + 1][1] > a[i][1] /\ a[i + 1][2] = 1)
      BY DEF Whole
    <2>2. i \in 1 .. Len(s) - 1 /\ i \in 1 .. Len(a) /\ i + 1 \in 1 .. Len(a)
      BY <1>1
    <2>3. s[i] = a[i] /\ s[i + 1] = a[i + 1]
      BY <1>1, <2>2
    <2>4. s[i + 1] = <<s[i][1], s[i][2] + 1>> \/ (s[i + 1][1] > s[i][1] /\ s[i + 1][2] = 1)
      BY <1>2, <2>2 DEF Whole
    <2>5. QED
      BY <2>3, <2>4
  <1>4. Whole(b)
    <2>1. SUFFICES ASSUME NEW i \in 1 .. Len(b) - 1
                   PROVE  b[i + 1] = <<b[i][1], b[i][2] + 1>> \/ (b[i + 1][1] > b[i][1] /\ b[i + 1][2] = 1)
      BY DEF Whole
    <2> DEFINE j == i + Len(a)
    <2>2. j \in 1 .. Len(s) - 1 /\ i \in 1 .. Len(b) /\ i + 1 \in 1 .. Len(b) /\ j + 1 = (i + 1) + Len(a)
      BY <1>1
    <2>3. s[j] = b[i] /\ s[j + 1] = b[i + 1]
      BY <1>1, <2>2
    <2> HIDE DEF j
    <2>4. s[j + 1] = <<s[j][1], s[j][2] + 1>> \/ (s[j + 1][1] > s[j][1] /\ s[j + 1][2] = 1)
      BY <1>2, <2>2 DEF Whole
    <2>5. QED
      BY <2>3, <2>4
  <1>5. QED
    BY <1>3, <1>4

LEMMA UpToParts ==
  ASSUME NEW a \in Seq(Byte), NEW b \in Seq(Byte), NEW m \in Nat
  PROVE  UpTo(Cat(a, b), m) <=> UpTo(a, m) /\ UpTo(b, m)
  <1> DEFINE s == Cat(a, b)
  <1>1. /\ Len(s) = Len(a) + Len(b) /\ Len(a) \in Nat /\ Len(b) \in Nat
        /\ \A i \in 1 .. Len(a) : s[i] = a[i]
        /\ \A i \in 1 .. Len(b) : s[i + Len(a)] = b[i]
    BY DEF Cat
  <1> HIDE DEF s
  <1>2. ASSUME UpTo(s, m) PROVE UpTo(a, m) /\ UpTo(b, m)
    <2>1. ASSUME NEW i \in 1 .. Len(a) PROVE a[i][1] <= m
      <3>1. i \in 1 .. Len(s) /\ s[i] = a[i]
        BY <1>1
      <3>2. QED
        BY <1>2, <3>1 DEF UpTo
    <2>2. ASSUME NEW i \in 1 .. Len(b) PROVE b[i][1] <= m
      <3>1. i + Len(a) \in 1 .. Len(s) /\ s[i + Len(a)] = b[i]
        BY <1>1
      <3>2. QED
        BY <1>2, <3>1 DEF UpTo
    <2>3. QED
      BY <2>1, <2>2 DEF UpTo
  <1>3. ASSUME UpTo(a, m), UpTo(b, m) PROVE UpTo(s, m)
    <2>1. ASSUME NEW i \in 1 .. Len(s) PROVE s[i][1] <= m
      <3>1. CASE i <= Len(a)
        <4>1. i \in 1 .. Len(a) /\ s[i] = a[i]
          BY <1>1, <3>1
        <4>2. QED
          BY <1>3, <4>1 DEF UpTo
      <3>2. CASE i > Len(a)
        <4>1. i - Len(a) \in 1 .. Len(b) /\ (i - Len(a)) + Len(a) = i
          BY <1>1, <3>2
        <4>2. s[i] = b[i - Len(a)]
          BY <1>1, <4>1
        <4>3. QED
          BY <1>3, <4>1, <4>2 DEF UpTo
      <3>3. QED
        BY <1>1, <3>1, <3>2
    <2>2. QED
      BY <2>1 DEF UpTo
  <1>4. QED
    BY <1>2, <1>3 DEF s

\* The bytes of a new write go after those of earlier operations.
LEMMA WholeWrite ==
  ASSUME NEW s \in Seq(Byte), NEW m \in Nat, NEW k \in Nat, Whole(s), UpTo(s, m)
  PROVE  /\ Bytes(m + 1, k) \in Seq(Byte) /\ UpTo(Bytes(m + 1, k), m + 1)
         /\ Whole(Cat(s, Bytes(m + 1, k)))
  <1> DEFINE b == Bytes(m + 1, k)
             t == Cat(s, b)
  <1>1. b \in Seq(Byte) /\ Len(b) = k /\ \A i \in 1 .. k : b[i] = <<m + 1, i>>
    BY DEF Bytes, Byte
  <1> HIDE DEF b
  <1>2. UpTo(b, m + 1)
    BY <1>1 DEF UpTo
  <1>3. /\ Len(t) = Len(s) + k /\ Len(s) \in Nat
        /\ \A i \in 1 .. Len(s) : t[i] = s[i]
        /\ \A i \in 1 .. k : t[i + Len(s)] = b[i]
    <2>0. b \in Seq(Byte)
      BY <1>1
    <2>1. /\ Len(t) = Len(s) + Len(b) /\ Len(s) \in Nat
          /\ \A i \in 1 .. Len(s) : t[i] = s[i]
          /\ \A i \in 1 .. Len(b) : t[i + Len(s)] = b[i]
      BY <2>0 DEF Cat
    <2>2. QED
      BY <1>1, <2>1
  <1> HIDE DEF t
  <1>4. ASSUME NEW i \in 1 .. Len(t) - 1
        PROVE  t[i + 1] = <<t[i][1], t[i][2] + 1>> \/ (t[i + 1][1] > t[i][1] /\ t[i + 1][2] = 1)
    <2>1. CASE i < Len(s)
      <3>1. i \in 1 .. Len(s) - 1 /\ t[i] = s[i] /\ t[i + 1] = s[i + 1]
        BY <1>3, <2>1
      <3>2. QED
        BY <3>1 DEF Whole
    <2>2. CASE i = Len(s)
      <3>1. i \in 1 .. Len(s) /\ 1 \in 1 .. k /\ i + 1 = 1 + Len(s)
        BY <1>3, <2>2
      <3>2. t[i] = s[i] /\ t[i + 1] = <<m + 1, 1>>
        BY <1>1, <1>3, <3>1
      <3>3. s[i][1] <= m /\ s[i] \in Byte
        BY <3>1 DEF UpTo
      <3>4. s[i][1] \in Nat
        BY <3>3 DEF Byte
      <3>5. QED
        BY <3>2, <3>3, <3>4
    <2>3. CASE i > Len(s)
      <3> DEFINE j == i - Len(s)
      <3>1. j \in 1 .. k /\ j + 1 \in 1 .. k /\ j + Len(s) = i /\ (j + 1) + Len(s) = i + 1 /\ j \in Nat
        BY <1>3, <2>3
      <3> HIDE DEF j
      <3>2. t[i] = <<m + 1, j>> /\ t[i + 1] = <<m + 1, j + 1>>
        BY <1>1, <1>3, <3>1
      <3>3. QED
        BY <3>2
    <2>4. QED
      BY <1>3, <2>1, <2>2, <2>3
  <1>5. QED
    BY <1>1, <1>2, <1>4 DEF Whole, b, t

\* Taking bytes from the front leaves a suffix, putting them at the end a prefix.
LEMMA CatSuffix ==
  ASSUME NEW S, NEW a \in Seq(S), NEW b \in Seq(S), a # << >>
  PROVE  IsStrictSuffix(b, Cat(a, b))
  <1> DEFINE s == Cat(a, b)
             rb == Reverse(b)
             rs == Reverse(s)
  <1>1. /\ Len(s) = Len(a) + Len(b) /\ Len(a) \in Nat \ {0} /\ Len(b) \in Nat /\ s \in Seq(S)
        /\ \A i \in 1 .. Len(b) : s[i + Len(a)] = b[i]
    <2>1. Len(a) # 0
      OBVIOUS
    <2>2. QED
      BY <2>1, CatFields
  <1> HIDE DEF s
  <1>2. rb \in Seq(S) /\ Len(rb) = Len(b) /\ \A i \in 1 .. Len(b) : rb[i] = b[(Len(b) - i) + 1]
    BY <1>1 DEF Reverse
  <1>3. rs \in Seq(S) /\ Len(rs) = Len(s) /\ \A i \in 1 .. Len(s) : rs[i] = s[(Len(s) - i) + 1]
    BY <1>1 DEF Reverse
  <1> HIDE DEF rb, rs
  <1>4. \A i \in 1 .. Len(b) : rb[i] = rs[i]
    <2>1. SUFFICES ASSUME NEW i \in 1 .. Len(b) PROVE rb[i] = rs[i]
      OBVIOUS
    <2>2. /\ i \in 1 .. Len(s) /\ (Len(b) - i) + 1 \in 1 .. Len(b)
          /\ (Len(s) - i) + 1 = ((Len(b) - i) + 1) + Len(a)
      BY <1>1
    <2>3. rs[i] = s[(Len(s) - i) + 1] /\ rb[i] = b[(Len(b) - i) + 1]
      BY <1>2, <1>3, <2>2
    <2>4. QED
      BY <1>1, <2>2, <2>3
  <1>5. IsPrefix(rb, rs)
    <2>1. SubSeq(rb, 1, Len(b)) = SubSeq(rs, 1, Len(b))
      BY <1>1, <1>2, <1>3, <1>4
    <2>2. QED
      BY <1>1, <1>2, <1>3, <2>1 DEF IsPrefix
  <1>6. b # s
    BY <1>1
  <1>7. QED
    BY <1>5, <1>6 DEF IsStrictSuffix, IsSuffix, rb, rs, s

LEMMA CatPrefix ==
  ASSUME NEW S, NEW a \in Seq(S), NEW b \in Seq(S)
  PROVE  IsPrefix(a, Cat(a, b)) /\ (b # << >> => IsStrictPrefix(a, Cat(a, b)))
  <1> DEFINE s == Cat(a, b)
  <1>1. /\ Len(s) = Len(a) + Len(b) /\ Len(a) \in Nat /\ Len(b) \in Nat /\ s \in Seq(S)
        /\ \A i \in 1 .. Len(a) : s[i] = a[i]
    BY CatFields
  <1> HIDE DEF s
  <1>2. SubSeq(a, 1, Len(a)) = SubSeq(s, 1, Len(a))
    BY <1>1
  <1>3. b # << >> => Len(b) # 0
    OBVIOUS
  <1>4. QED
    BY <1>1, <1>2, <1>3 DEF IsPrefix, IsStrictPrefix, s

-----------------------------------------------------------------------------
(* The invariant. *)

\* The bytes written and not read: what module ByteStream calls buf.
Buf == tail \o FlattenSeq(ring)

FiberStates ==
  [pc : {"out", "claimed", "in"}, end : Ends, op : {"none", "write", "read", "collect", "close"},
   left : Seq(Byte), n : Nat,
   res : {"none", "busy", "closed", "severed", "reader closed", "nil", "end", "bytes"}]

ChanTypeOK ==
  /\ busy \in [Ends -> {0, 1}] /\ closed \in [Ends -> {0, 1}]
  /\ tail \in Seq(Byte) /\ ring \in Seq(Seq(Byte))
  /\ over \in {"open", "complete", "cancel", "severed"}
  /\ fib \in [Fibers -> FiberStates] /\ ops \in Nat

\* Each end that is busy has one fiber inside it, and no other end has any.
Inside(f, e) == fib[f].pc # "out" /\ fib[f].end = e
SlotsOK ==
  /\ \A f \in Fibers : \A e \in Ends : Inside(f, e) => busy[e] = 1
  /\ \A f, g \in Fibers : \A e \in Ends : Inside(f, e) /\ Inside(g, e) => f = g
  /\ \A e \in Ends : busy[e] = 1 => \E f \in Fibers : Inside(f, e)

\* What fiber record c relies on: its end, open while it is in, and that what it
\* has left to write continues the bytes in flight.
FiberHolds(c) ==
  /\ c.pc # "out" /\ c.op = "write" => c.end = "w"
  /\ c.pc # "out" /\ c.op \in {"read", "collect"} => c.end = "r"
  /\ c.op = "read" => c.n # 0
  /\ c.pc = "in" => closed[c.end] = 0
  /\ c.pc # "out" /\ c.op = "write" =>
       UpTo(c.left, ops) /\ (over = "open" => Whole(Cat(Buf, c.left)))

\* How the edge ended tells which ends are closed.
EdgeOK ==
  /\ over = "open" => closed["w"] = 0 /\ closed["r"] = 0
  /\ over = "complete" => closed["w"] = 1

ChanInv ==
  /\ ChanTypeOK /\ SlotsOK /\ EdgeOK
  /\ Whole(Buf) /\ UpTo(Buf, ops)
  /\ \A f \in Fibers : FiberHolds(fib[f])

-----------------------------------------------------------------------------
(* The ends and their fibers. *)

LEMMA BufTypes == ChanTypeOK => Buf \in Seq(Byte)
  <1> SUFFICES ASSUME ChanTypeOK PROVE Buf \in Seq(Byte)
    OBVIOUS
  <1>1. FlattenSeq(ring) \in Seq(Byte)
    BY FlattenTypes DEF ChanTypeOK
  <1>2. tail \in Seq(Byte)
    BY DEF ChanTypeOK
  <1>3. QED
    BY <1>1, <1>2 DEF Buf

LEMMA BufNext == ASSUME ChanTypeOK' PROVE Buf' \in Seq(Byte)
  <1>1. FlattenSeq(ring') \in Seq(Byte)
    BY FlattenTypes DEF ChanTypeOK
  <1>2. tail' \in Seq(Byte)
    BY DEF ChanTypeOK
  <1>3. QED
    BY <1>1, <1>2 DEF Buf

LEMMA OutIs == Out \in FiberStates /\ Out.pc = "out" /\ Out.op = "none"
  BY DEF Out, FiberStates, Ends

\* A fiber that stays where it is, in or out of an end.
LEMMA SlotsStay ==
  ASSUME ChanTypeOK, SlotsOK, NEW f \in Fibers, NEW c, fib' = [fib EXCEPT ![f] = c], busy' = busy,
         c.end = fib[f].end, c.pc # "out" <=> fib[f].pc # "out"
  PROVE  SlotsOK'
  <1>1. \A g \in Fibers, e \in Ends : Inside(g, e)' <=> Inside(g, e)
    BY DEF ChanTypeOK, Inside
  <1>2. QED
    BY <1>1 DEF SlotsOK

\* A fiber takes the busy word of end e.
LEMMA SlotsClaim ==
  ASSUME ChanTypeOK, SlotsOK, NEW f \in Fibers, NEW e \in Ends, NEW c, fib' = [fib EXCEPT ![f] = c],
         busy[e] = 0, busy' = [busy EXCEPT ![e] = 1], fib[f].pc = "out", c.pc # "out", c.end = e
  PROVE  SlotsOK'
  <1>1. \A g \in Fibers, d \in Ends : Inside(g, d)' <=> Inside(g, d) \/ (g = f /\ d = e)
    BY DEF ChanTypeOK, Inside
  <1>2. \A d \in Ends : busy'[d] = IF d = e THEN 1 ELSE busy[d]
    BY DEF ChanTypeOK
  <1>3. \A g \in Fibers : ~Inside(g, e)
    BY DEF SlotsOK
  <1>4. QED
    BY <1>1, <1>2, <1>3 DEF SlotsOK

\* A fiber leaves the end it is in.
LEMMA SlotsLeave ==
  ASSUME ChanTypeOK, SlotsOK, NEW f \in Fibers, NEW c, fib' = [fib EXCEPT ![f] = c],
         busy' = [busy EXCEPT ![fib[f].end] = 0], fib[f].pc # "out", c.pc = "out"
  PROVE  SlotsOK'
  <1>1. fib[f].end \in Ends /\ Inside(f, fib[f].end)
    BY DEF ChanTypeOK, FiberStates, Inside
  <1>2. \A g \in Fibers, d \in Ends : Inside(g, d)' <=> Inside(g, d) /\ g # f
    BY DEF ChanTypeOK, Inside
  <1>3. \A d \in Ends : busy'[d] = IF d = fib[f].end THEN 0 ELSE busy[d]
    BY <1>1 DEF ChanTypeOK
  <1>4. \A d \in Ends : Inside(f, d) => d = fib[f].end
    BY DEF Inside
  <1>5. \A g \in Fibers : Inside(g, fib[f].end) => g = f
    BY <1>1 DEF SlotsOK
  <1>6. QED
    BY <1>1, <1>2, <1>3, <1>4, <1>5 DEF SlotsOK

\* chan_release: the fiber is out, its end is free.
LEMMA ReleaseEffects ==
  ASSUME ChanInv, NEW f \in Fibers, fib[f].pc # "out", NEW res, chan_release(f, res),
         res \in {"none", "busy", "closed", "severed", "reader closed", "nil", "end", "bytes"}
  PROVE  /\ busy' \in [Ends -> {0, 1}] /\ fib' \in [Fibers -> FiberStates] /\ SlotsOK'
         /\ fib'[f].pc = "out" /\ fib'[f].op = "none" /\ \A g \in Fibers \ {f} : fib'[g] = fib[g]
  <1> DEFINE c == [Out EXCEPT !.res = res]
  <1>1. c \in FiberStates /\ c.pc = "out" /\ c.op = "none"
    BY OutIs DEF FiberStates
  <1> HIDE DEF c
  <1>2. fib' = [fib EXCEPT ![f] = c] /\ busy' = [busy EXCEPT ![fib[f].end] = 0]
    BY DEF chan_release, c
  <1>3. ChanTypeOK /\ SlotsOK /\ fib \in [Fibers -> FiberStates] /\ busy \in [Ends -> {0, 1}] /\ fib[f].end \in Ends
    BY DEF ChanInv, ChanTypeOK, FiberStates
  <1>4. SlotsOK'
    BY <1>1, <1>2, <1>3, SlotsLeave
  <1>5. QED
    BY <1>1, <1>2, <1>3, <1>4

LEMMA UpToMore ==
  ASSUME NEW s \in Seq(Byte), NEW m \in Nat, NEW k \in Nat, m <= k, UpTo(s, m)
  PROVE  UpTo(s, k)
  <1>1. ASSUME NEW i \in 1 .. Len(s) PROVE s[i][1] <= k
    <2>1. s[i] \in Byte /\ s[i][1] <= m
      BY DEF UpTo
    <2>2. s[i][1] \in Nat
      BY <2>1 DEF Byte
    <2>3. QED
      BY <2>1, <2>2
  <1>2. QED
    BY <1>1 DEF UpTo

\* A fiber that the step leaves alone.
LEMMA Others ==
  ASSUME ChanInv, NEW g \in Fibers, fib'[g] = fib[g], ops' \in Nat, ops <= ops',
         over' = "open" => over = "open",
         fib[g].pc = "in" => closed'[fib[g].end] = 0,
         fib[g].pc # "out" /\ fib[g].op = "write" /\ over' = "open" => Whole(Cat(Buf', fib[g].left))
  PROVE  FiberHolds(fib[g])'
  <1>1. FiberHolds(fib[g]) /\ fib[g] \in FiberStates /\ ops \in Nat
    BY DEF ChanInv, ChanTypeOK
  <1>2. fib[g].left \in Seq(Byte)
    BY <1>1 DEF FiberStates
  <1>3. UpTo(fib[g].left, ops) => UpTo(fib[g].left, ops')
    BY <1>1, <1>2, UpToMore
  <1>4. QED
    BY <1>1, <1>3 DEF FiberHolds

LEMMA OutHolds ==
  ASSUME NEW f \in Fibers, fib'[f].pc = "out", fib'[f].op = "none"
  PROVE  FiberHolds(fib[f])'
  BY DEF FiberHolds

\* Two fibers are never inside one end.
LEMMA Alone ==
  ASSUME ChanInv, NEW f \in Fibers, NEW g \in Fibers, fib[f].pc # "out", fib[g].pc # "out", fib[f].end = fib[g].end
  PROVE  f = g
  <1>1. fib[f].end \in Ends
    BY DEF ChanInv, ChanTypeOK, FiberStates
  <1>2. QED
    BY <1>1 DEF ChanInv, SlotsOK, Inside

\* What is left of the bytes in flight after the reader took t.
LEMMA TakenWhole ==
  ASSUME ChanInv, ChanTypeOK', NEW t \in Seq(Byte), Buf = Cat(t, Buf'), ops' = ops
  PROVE  /\ Whole(Buf)' /\ UpTo(Buf, ops)'
         /\ \A l \in Seq(Byte) : Whole(Cat(Buf, l)) => Whole(Cat(Buf', l))
  <1>1. PICK b : b = Buf' /\ b \in Seq(Byte)
    BY BufNext
  <1>2. Whole(Cat(t, b)) /\ UpTo(Cat(t, b), ops) /\ ops \in Nat
    BY <1>1 DEF ChanInv, ChanTypeOK
  <1>3. Whole(b)
    BY <1>1, <1>2, WholeParts
  <1>4. UpTo(b, ops)
    BY <1>1, <1>2, UpToParts
  <1>5. ASSUME NEW l \in Seq(Byte), Whole(Cat(Buf, l)) PROVE Whole(Cat(b, l))
    <2>1. Cat(Cat(t, b), l) = Cat(t, Cat(b, l))
      BY <1>1, CatAssoc
    <2>2. Cat(b, l) \in Seq(Byte)
      BY <1>1 DEF Cat
    <2>3. Whole(Cat(t, Cat(b, l)))
      BY <1>1, <1>5, <2>1
    <2>4. QED
      BY <2>2, <2>3, WholeParts
  <1>6. QED
    BY <1>1, <1>3, <1>4, <1>5

-----------------------------------------------------------------------------
(* The steps. *)

\* chan_claim's compare-and-swap.
LEMMA ClaimKeeps ==
  ASSUME ChanInv, NEW f \in Fibers, NEW e \in Ends, NEW op, NEW left \in Seq(Byte), NEW k \in Nat,
         Claim(f, e, op, left, k),
         \/ op = "write" /\ e = "w" /\ UpTo(left, ops + 1) /\ Whole(Cat(Buf, left))
         \/ op = "read" /\ e = "r" /\ k # 0
         \/ op = "collect" /\ e = "r"
         \/ op = "close"
  PROVE  ChanInv' /\ UNCHANGED <<closed, tail, ring, over, told>>
  <1>1. /\ ChanTypeOK /\ SlotsOK /\ EdgeOK /\ Whole(Buf) /\ UpTo(Buf, ops)
        /\ busy \in [Ends -> {0, 1}] /\ fib \in [Fibers -> FiberStates] /\ ops \in Nat
        /\ closed \in [Ends -> {0, 1}]
    BY DEF ChanInv, ChanTypeOK
  <1>2. UNCHANGED <<closed, tail, ring, over, told>> /\ ops' = ops + 1 /\ fib[f].pc = "out"
    BY DEF Claim
  <1>3. Buf' = Buf /\ Buf \in Seq(Byte)
    BY <1>1, <1>2, BufTypes DEF Buf
  <1>4. UpTo(Buf, ops)' /\ Whole(Buf)' /\ EdgeOK'
    BY <1>1, <1>2, <1>3, UpToMore DEF EdgeOK
  <1>5. ASSUME NEW g \in Fibers, fib'[g] = fib[g] PROVE FiberHolds(fib[g])'
    <2>1. FiberHolds(fib[g])
      BY DEF ChanInv
    <2>2. QED
      BY <1>1, <1>2, <1>3, <1>5, <2>1, Others DEF FiberHolds
  <1>6. CASE busy[e] = 1
    <2> DEFINE c == [fib[f] EXCEPT !.res = "busy"]
    <2>1. fib' = [fib EXCEPT ![f] = c] /\ busy' = busy
      BY <1>1, <1>6 DEF Claim
    <2>2. /\ c \in FiberStates /\ c.pc = fib[f].pc /\ c.end = fib[f].end /\ c.op = fib[f].op
          /\ c.left = fib[f].left /\ c.n = fib[f].n
      BY <1>1 DEF FiberStates
    <2> HIDE DEF c
    <2>3. SlotsOK'
      BY <1>1, <2>1, <2>2, SlotsStay
    <2>4. fib' \in [Fibers -> FiberStates] /\ fib'[f] = c /\ \A g \in Fibers \ {f} : fib'[g] = fib[g]
      BY <1>1, <2>1, <2>2
    <2>5. ChanTypeOK'
      BY <1>1, <1>2, <2>1, <2>4 DEF ChanTypeOK
    <2>6. FiberHolds(fib[f])'
      <3>1. FiberHolds(fib[f])
        BY DEF ChanInv
      <3>2. QED
        BY <1>2, <2>2, <2>4, <3>1 DEF FiberHolds
    <2>7. \A g \in Fibers : FiberHolds(fib[g])'
      BY <1>5, <2>4, <2>6
    <2>8. QED
      BY <1>2, <1>4, <2>3, <2>5, <2>7 DEF ChanInv
  <1>7. CASE busy[e] # 1
    <2> DEFINE c == [pc |-> "claimed", end |-> e, op |-> op, left |-> left, n |-> k, res |-> "none"]
    <2>1. fib' = [fib EXCEPT ![f] = c] /\ busy' = [busy EXCEPT ![e] = 1] /\ busy[e] = 0
      BY <1>1, <1>7 DEF Claim
    <2>2. /\ c \in FiberStates /\ c.pc = "claimed" /\ c.end = e /\ c.op = op /\ c.left = left /\ c.n = k
      BY DEF FiberStates
    <2> HIDE DEF c
    <2>3. SlotsOK'
      BY <1>1, <1>2, <2>1, <2>2, SlotsClaim
    <2>4. fib' \in [Fibers -> FiberStates] /\ fib'[f] = c /\ \A g \in Fibers \ {f} : fib'[g] = fib[g]
      BY <1>1, <2>1, <2>2
    <2>5. ChanTypeOK'
      BY <1>1, <1>2, <2>1, <2>4 DEF ChanTypeOK
    <2>6. FiberHolds(fib[f])'
      BY <1>2, <1>3, <2>2, <2>4 DEF FiberHolds
    <2>7. \A g \in Fibers : FiberHolds(fib[g])'
      BY <1>5, <2>4, <2>6
    <2>8. QED
      BY <1>2, <1>4, <2>3, <2>5, <2>7 DEF ChanInv
  <1>8. QED
    BY <1>6, <1>7

\* The calls that claim an end.
LEMMA CallsKeep ==
  ASSUME ChanInv, NEW f \in Fibers,
         jacl_chan_write(f) \/ jacl_chan_read(f) \/ jacl_collect(f) \/ CloseStart(f)
  PROVE  ChanInv' /\ UNCHANGED <<closed, tail, ring, over, told>>
  <1>1. << >> \in Seq(Byte) /\ "w" \in Ends /\ "r" \in Ends /\ 0 \in Nat
    BY DEF Ends
  <1>2. CASE jacl_chan_write(f)
    <2>1. PICK k \in WriteLens : Claim(f, "w", "write", Bytes(ops + 1, k), 0)
      BY <1>2 DEF jacl_chan_write
    <2>2. k \in Nat /\ ops \in Nat /\ Buf \in Seq(Byte) /\ Whole(Buf) /\ UpTo(Buf, ops)
      BY ChanAssumption, BufTypes DEF ChanAssumption, ChanInv, ChanTypeOK
    <2>3. /\ Bytes(ops + 1, k) \in Seq(Byte) /\ UpTo(Bytes(ops + 1, k), ops + 1)
          /\ Whole(Cat(Buf, Bytes(ops + 1, k)))
      BY <2>2, WholeWrite
    <2>4. QED
      BY <1>1, <2>1, <2>3, ClaimKeeps
  <1>3. CASE jacl_chan_read(f)
    <2>1. PICK k \in ReadLens : Claim(f, "r", "read", << >>, k)
      BY <1>3 DEF jacl_chan_read
    <2>2. k \in Nat /\ k # 0
      BY ChanAssumption DEF ChanAssumption
    <2>3. QED
      BY <1>1, <2>1, <2>2, ClaimKeeps
  <1>4. CASE jacl_collect(f)
    BY <1>1, <1>4, ClaimKeeps DEF jacl_collect
  <1>5. CASE CloseStart(f)
    BY <1>1, <1>5, ClaimKeeps DEF CloseStart
  <1>6. QED
    BY <1>2, <1>3, <1>4, <1>5

\* chan_claim's look at the closed word.
LEMMA CheckKeeps ==
  ASSUME ChanInv, NEW f \in Fibers, ClaimCheck(f)
  PROVE  ChanInv' /\ UNCHANGED <<closed, tail, ring, over, told>>
  <1>1. /\ ChanTypeOK /\ SlotsOK /\ EdgeOK /\ Whole(Buf) /\ UpTo(Buf, ops)
        /\ fib \in [Fibers -> FiberStates] /\ ops \in Nat /\ closed \in [Ends -> {0, 1}]
    BY DEF ChanInv, ChanTypeOK
  <1>2. UNCHANGED <<closed, tail, ring, over, ops, told>> /\ fib[f].pc = "claimed"
    BY DEF ClaimCheck
  <1>3. Buf' = Buf
    BY <1>2 DEF Buf
  <1>4. UpTo(Buf, ops)' /\ Whole(Buf)' /\ EdgeOK'
    BY <1>1, <1>2, <1>3 DEF EdgeOK
  <1>5. ASSUME NEW g \in Fibers, fib'[g] = fib[g] PROVE FiberHolds(fib[g])'
    <2>1. FiberHolds(fib[g])
      BY DEF ChanInv
    <2>2. QED
      BY <1>2, <1>3, <1>5, <2>1 DEF FiberHolds
  <1>6. CASE closed[fib[f].end] = 1
    <2>1. chan_release(f, "closed")
      BY <1>6 DEF ClaimCheck
    <2>2. /\ busy' \in [Ends -> {0, 1}] /\ fib' \in [Fibers -> FiberStates] /\ SlotsOK'
          /\ fib'[f].pc = "out" /\ fib'[f].op = "none" /\ \A g \in Fibers \ {f} : fib'[g] = fib[g]
      BY <1>2, <2>1, ReleaseEffects
    <2>3. ChanTypeOK'
      BY <1>1, <1>2, <2>2 DEF ChanTypeOK
    <2>4. \A g \in Fibers : FiberHolds(fib[g])'
      BY <1>5, <2>2, OutHolds
    <2>5. QED
      BY <1>2, <1>4, <2>2, <2>3, <2>4 DEF ChanInv
  <1>7. CASE closed[fib[f].end] # 1
    <2> DEFINE c == [fib[f] EXCEPT !.pc = "in"]
    <2>1. fib' = [fib EXCEPT ![f] = c] /\ busy' = busy
      BY <1>1, <1>7 DEF ClaimCheck
    <2>2. /\ c \in FiberStates /\ c.pc = "in" /\ c.end = fib[f].end /\ c.op = fib[f].op
          /\ c.left = fib[f].left /\ c.n = fib[f].n /\ fib[f].end \in Ends
      BY <1>1 DEF FiberStates
    <2> HIDE DEF c
    <2>3. SlotsOK'
      BY <1>1, <1>2, <2>1, <2>2, SlotsStay
    <2>4. fib' \in [Fibers -> FiberStates] /\ fib'[f] = c /\ \A g \in Fibers \ {f} : fib'[g] = fib[g]
      BY <1>1, <2>1, <2>2
    <2>5. ChanTypeOK'
      BY <1>1, <1>2, <2>1, <2>4 DEF ChanTypeOK
    <2>6. FiberHolds(fib[f])'
      <3>1. FiberHolds(fib[f]) /\ closed[fib[f].end] = 0
        BY <1>1, <1>7, <2>2 DEF ChanInv
      <3>2. QED
        BY <1>2, <1>3, <2>2, <2>4, <3>1 DEF FiberHolds
    <2>7. \A g \in Fibers : FiberHolds(fib[g])'
      BY <1>5, <2>4, <2>6
    <2>8. QED
      BY <1>2, <1>4, <2>3, <2>5, <2>7 DEF ChanInv
  <1>8. QED
    BY <1>6, <1>7

\* A fiber leaves its end and nothing else changes, but perhaps told.
LEMMA LeaveKeeps ==
  ASSUME ChanInv, NEW f \in Fibers, fib[f].pc # "out", NEW res, chan_release(f, res),
         res \in {"none", "busy", "closed", "severed", "reader closed", "nil", "end", "bytes"},
         UNCHANGED <<closed, tail, ring, over, ops>>
  PROVE  ChanInv'
  <1>1. /\ busy' \in [Ends -> {0, 1}] /\ fib' \in [Fibers -> FiberStates] /\ SlotsOK'
        /\ fib'[f].pc = "out" /\ fib'[f].op = "none" /\ \A g \in Fibers \ {f} : fib'[g] = fib[g]
    BY ReleaseEffects
  <1>2. ChanTypeOK'
    BY <1>1 DEF ChanInv, ChanTypeOK
  <1>3. Buf' = Buf
    BY DEF Buf
  <1>4. UpTo(Buf, ops)' /\ Whole(Buf)' /\ EdgeOK'
    BY <1>3 DEF ChanInv, EdgeOK
  <1>5. ASSUME NEW g \in Fibers PROVE FiberHolds(fib[g])'
    <2>1. CASE g = f
      BY <1>1, <2>1, OutHolds
    <2>2. CASE g # f
      <3>1. FiberHolds(fib[g]) /\ fib'[g] = fib[g]
        BY <1>1, <2>2 DEF ChanInv
      <3>2. QED
        BY <1>3, <3>1 DEF FiberHolds
    <2>3. QED
      BY <2>1, <2>2
  <1>6. QED
    BY <1>1, <1>2, <1>4, <1>5 DEF ChanInv

\* chan_be_write sends the next frame.
LEMMA SendKeeps ==
  ASSUME ChanInv, NEW f \in Fibers, chan_be_write(f), over = "open"
  PROVE  /\ ChanInv' /\ UNCHANGED <<closed, over, told>> /\ closed["w"] = 0 /\ closed["r"] = 0
         /\ \E b \in Seq(Byte) : b # << >> /\ Buf' = Cat(Buf, b)
  <1>1. /\ ChanTypeOK /\ SlotsOK /\ EdgeOK /\ Whole(Buf) /\ UpTo(Buf, ops)
        /\ fib \in [Fibers -> FiberStates] /\ ops \in Nat /\ ring \in Seq(Seq(Byte)) /\ tail \in Seq(Byte)
    BY DEF ChanInv, ChanTypeOK
  <1> DEFINE left == fib[f].left
             k == IF Len(left) < MaxFrame THEN Len(left) ELSE MaxFrame
             frame == SubSeq(left, 1, k)
             rest == SubSeq(left, k + 1, Len(left))
             c == [fib[f] EXCEPT !.left = rest]
  <1>2. /\ fib[f].pc = "in" /\ fib[f].op = "write" /\ left # << >>
        /\ ring' = Append(ring, frame) /\ fib' = [fib EXCEPT ![f] = c] /\ busy' = busy
        /\ UNCHANGED <<closed, tail, over, ops, told>>
    BY <1>1 DEF chan_be_write
  <1>3. left \in Seq(Byte)
    BY <1>1 DEF FiberStates
  <1>4. k \in 1 .. Len(left)
    BY <1>2, <1>3, ChanAssumption DEF ChanAssumption
  <1>5. frame \in Seq(Byte) /\ rest \in Seq(Byte) /\ frame # << >> /\ Cat(frame, rest) = left
    <2> HIDE DEF k, left
    <2>1. /\ frame \in Seq(Byte) /\ Len(frame) = k /\ \A i \in 1 .. k : frame[i] = left[i]
      BY <1>3, <1>4
    <2>2. /\ rest \in Seq(Byte) /\ Len(rest) = Len(left) - k
          /\ \A i \in 1 .. Len(left) - k : rest[i] = left[k + i]
      BY <1>3, <1>4
    <2> HIDE DEF frame, rest
    <2>3. frame # << >>
      BY <2>1, <1>4
    <2>4. PICK s : s = Cat(frame, rest)
      OBVIOUS
    <2>5. /\ s \in Seq(Byte) /\ Len(s) = Len(left)
      <3>1. frame \in Seq(Byte) /\ rest \in Seq(Byte)
        BY <2>1, <2>2
      <3>2. s \in Seq(Byte) /\ Len(s) = Len(frame) + Len(rest)
        BY <2>4, <3>1 DEF Cat
      <3>3. Len(frame) + Len(rest) = Len(left)
        BY <1>3, <1>4, <2>1, <2>2
      <3>4. QED
        BY <3>2, <3>3
    <2>6. ASSUME NEW i \in 1 .. Len(left) PROVE s[i] = left[i]
      <3>1. CASE i <= k
        <4>1. s[i] = frame[i]
          BY <3>1, <1>3, <1>4, <2>1, <2>2, <2>4 DEF Cat
        <4>2. QED
          BY <3>1, <4>1, <1>4, <2>1
      <3>2. CASE i > k
        <4>1. s[i] = rest[i - k]
          BY <3>2, <1>3, <1>4, <2>1, <2>2, <2>4 DEF Cat
        <4>2. i - k \in 1 .. Len(left) - k /\ k + (i - k) = i
          BY <3>2, <1>3, <1>4
        <4>3. QED
          BY <4>1, <4>2, <2>2
      <3>3. QED
        BY <1>4, <3>1, <3>2
    <2>7. s = left
      BY <1>3, <2>5, <2>6
    <2>8. QED
      BY <2>1, <2>2, <2>3, <2>4, <2>7
  <1>6. /\ c \in FiberStates /\ c.pc = "in" /\ c.end = fib[f].end /\ c.op = "write"
        /\ c.left = rest /\ c.n = fib[f].n
    <2> HIDE DEF rest, frame, k
    <2>1. QED
      BY <1>1, <1>2, <1>5 DEF FiberStates
  <1> HIDE DEF k, frame, rest, c
  <1>7. SlotsOK'
    BY <1>1, <1>2, <1>6, SlotsStay
  <1>8. fib' \in [Fibers -> FiberStates] /\ fib'[f] = c /\ \A g \in Fibers \ {f} : fib'[g] = fib[g]
    BY <1>1, <1>2, <1>6
  <1>9. ring' \in Seq(Seq(Byte))
    BY <1>1, <1>2, <1>5
  <1>10. ChanTypeOK'
    BY <1>1, <1>2, <1>8, <1>9 DEF ChanTypeOK
  <1>11. PICK b : b = Buf /\ b \in Seq(Byte)
    BY <1>1, BufTypes
  <1>12. Buf' = Cat(b, frame)
    <2>1. PICK w : w = FlattenSeq(ring) /\ w \in Seq(Byte)
      BY <1>1, FlattenTypes
    <2>2. FlattenSeq(ring') = Cat(w, frame)
      BY <1>1, <1>2, <1>5, <2>1, FlattenAppend DEF Cat
    <2>3. Cat(Cat(tail, w), frame) = Cat(tail, Cat(w, frame))
      BY <1>1, <1>5, <2>1, CatAssoc
    <2>4. Buf' = Cat(tail, Cat(w, frame)) /\ b = Cat(tail, w)
      BY <1>2, <1>11, <2>1, <2>2 DEF Buf, Cat
    <2>5. QED
      BY <2>3, <2>4
  <1>13. Whole(Cat(b, left)) /\ UpTo(left, ops) /\ fib[f].end = "w"
    BY <1>2, <1>11 DEF ChanInv, FiberHolds
  <1>14. Cat(Cat(b, frame), rest) = Cat(b, left) /\ Cat(b, frame) \in Seq(Byte)
    <2>1. Cat(Cat(b, frame), rest) = Cat(b, Cat(frame, rest))
      BY <1>5, <1>11, CatAssoc
    <2>2. Cat(b, frame) \in Seq(Byte)
      BY <1>5, <1>11 DEF Cat
    <2>3. QED
      BY <1>5, <2>1, <2>2
  <1>15. Whole(Buf)'
    BY <1>5, <1>12, <1>13, <1>14, WholeParts
  <1>16. UpTo(frame, ops) /\ UpTo(rest, ops)
    <2>1. UpTo(Cat(frame, rest), ops) /\ ops \in Nat /\ frame \in Seq(Byte) /\ rest \in Seq(Byte)
      BY <1>1, <1>5, <1>13
    <2>2. QED
      BY <2>1, UpToParts
  <1>17. UpTo(Buf, ops)'
    <2>1. UpTo(b, ops) /\ ops' = ops
      BY <1>1, <1>2, <1>11
    <2>2. UpTo(Cat(b, frame), ops)
      BY <1>1, <1>5, <1>11, <1>16, <2>1, UpToParts
    <2>3. QED
      BY <1>12, <2>1, <2>2
  <1>18. ASSUME NEW g \in Fibers PROVE FiberHolds(fib[g])'
    <2>1. CASE g = f
      <3>1. FiberHolds(fib[f])
        BY DEF ChanInv
      <3>2. QED
        BY <1>2, <1>6, <1>8, <1>12, <1>13, <1>14, <1>16, <2>1, <3>1 DEF FiberHolds
    <2>2. CASE g # f
      <3>1. FiberHolds(fib[g]) /\ fib'[g] = fib[g]
        BY <1>8, <2>2 DEF ChanInv
      <3>2. ~(fib[g].pc # "out" /\ fib[g].op = "write")
        BY <1>2, <1>13, <2>2, <3>1, Alone DEF FiberHolds
      <3>3. QED
        BY <1>2, <3>1, <3>2 DEF FiberHolds
    <2>3. QED
      BY <2>1, <2>2
  <1>19. EdgeOK' /\ closed["w"] = 0 /\ closed["r"] = 0
    BY <1>1, <1>2 DEF EdgeOK
  <1>20. QED
    BY <1>2, <1>5, <1>7, <1>10, <1>11, <1>12, <1>15, <1>17, <1>18, <1>19 DEF ChanInv

\* chan_fill moves a frame from the edge to the read end.
LEMMA FillKeeps ==
  ASSUME ChanInv, tail = << >>, ring # << >>, tail' = Head(ring), ring' = Tail(ring),
         UNCHANGED <<busy, closed, over, fib, ops>>
  PROVE  ChanInv' /\ Buf' = Buf
  <1>1. ring \in Seq(Seq(Byte))
    BY DEF ChanInv, ChanTypeOK
  <1>2. tail' \in Seq(Byte) /\ ring' \in Seq(Seq(Byte))
    BY <1>1
  <1>3. ChanTypeOK'
    BY <1>2 DEF ChanInv, ChanTypeOK
  <1>4. Buf' = Buf
    <2>1. FlattenSeq(ring) = tail' \o FlattenSeq(ring') /\ FlattenSeq(ring) \in Seq(Byte)
      BY <1>1, FlattenHead, FlattenTypes
    <2>2. << >> \o FlattenSeq(ring) = FlattenSeq(ring)
      BY <2>1
    <2>3. QED
      BY <2>1, <2>2 DEF Buf
  <1>5. SlotsOK'
    BY DEF ChanInv, SlotsOK, Inside
  <1>6. EdgeOK' /\ Whole(Buf)' /\ UpTo(Buf, ops)'
    BY <1>4 DEF ChanInv, EdgeOK
  <1>7. ASSUME NEW g \in Fibers PROVE FiberHolds(fib[g])'
    <2>1. FiberHolds(fib[g]) /\ fib'[g] = fib[g]
      BY DEF ChanInv
    <2>2. QED
      BY <1>4, <2>1 DEF FiberHolds
  <1>8. QED
    BY <1>3, <1>4, <1>5, <1>6, <1>7 DEF ChanInv

\* The reader takes bytes t off the read end's tail.
LEMMA TakeKeeps ==
  ASSUME ChanInv, NEW f \in Fibers, NEW t \in Seq(Byte), t # << >>, tail' \in Seq(Byte), tail = Cat(t, tail'),
         UNCHANGED <<closed, ring, over, ops>>,
         \/ UNCHANGED <<busy, fib>>
         \/ fib[f].pc # "out" /\ chan_release(f, "bytes")
  PROVE  ChanInv' /\ Buf = Cat(t, Buf') /\ Buf' \in Seq(Byte)
  <1>1. /\ busy' \in [Ends -> {0, 1}] /\ fib' \in [Fibers -> FiberStates] /\ SlotsOK'
        /\ \A g \in Fibers : fib'[g] = fib[g] \/ (fib'[g].pc = "out" /\ fib'[g].op = "none")
    <2>1. CASE UNCHANGED <<busy, fib>>
      BY <2>1 DEF ChanInv, ChanTypeOK, SlotsOK, Inside
    <2>2. CASE fib[f].pc # "out" /\ chan_release(f, "bytes")
      BY <2>2, ReleaseEffects
    <2>3. QED
      BY <2>1, <2>2
  <1>2. ChanTypeOK'
    BY <1>1 DEF ChanInv, ChanTypeOK
  <1>3. Buf' \in Seq(Byte)
    BY <1>2, BufNext
  <1>4. Buf = Cat(t, Buf')
    <2>1. PICK w : w = FlattenSeq(ring) /\ w \in Seq(Byte)
      BY FlattenTypes DEF ChanInv, ChanTypeOK
    <2>2. Cat(Cat(t, tail'), w) = Cat(t, Cat(tail', w))
      BY <2>1, CatAssoc
    <2>3. Buf = Cat(Cat(t, tail'), w) /\ Buf' = Cat(tail', w)
      BY <2>1 DEF Buf, Cat
    <2>4. QED
      BY <2>2, <2>3
  <1>5. /\ Whole(Buf)' /\ UpTo(Buf, ops)'
        /\ \A l \in Seq(Byte) : Whole(Cat(Buf, l)) => Whole(Cat(Buf', l))
    BY <1>2, <1>4, TakenWhole
  <1>6. EdgeOK'
    BY DEF ChanInv, EdgeOK
  <1>7. ASSUME NEW g \in Fibers PROVE FiberHolds(fib[g])'
    <2>1. CASE fib'[g].pc = "out" /\ fib'[g].op = "none"
      BY <2>1, OutHolds
    <2>2. CASE fib'[g] = fib[g]
      <3>1. FiberHolds(fib[g]) /\ fib[g].left \in Seq(Byte)
        BY DEF ChanInv, ChanTypeOK, FiberStates
      <3>2. QED
        BY <1>5, <2>2, <3>1 DEF FiberHolds
    <2>3. QED
      BY <1>1, <2>1, <2>2
  <1>8. QED
    BY <1>1, <1>2, <1>3, <1>4, <1>5, <1>6, <1>7 DEF ChanInv

\* jacl_chan_read and jacl_collect copy from the front of the tail.
LEMMA ReadKeeps ==
  ASSUME ChanInv, NEW f \in Fibers, ReadOut(f) \/ CollectMore(f)
  PROVE  /\ ChanInv' /\ UNCHANGED <<closed, over, told>> /\ closed["r"] = 0
         /\ \E t \in Seq(Byte) : t # << >> /\ Buf = Cat(t, Buf') /\ Buf' \in Seq(Byte)
  <1>1. /\ tail \in Seq(Byte) /\ fib[f] \in FiberStates /\ FiberHolds(fib[f])
        /\ fib[f].pc = "in" /\ fib[f].op \in {"read", "collect"} /\ tail # << >>
        /\ UNCHANGED <<closed, ring, over, ops, told>>
    BY DEF ChanInv, ChanTypeOK, ReadOut, CollectMore
  <1>2. closed["r"] = 0
    BY <1>1 DEF FiberHolds
  <1>3. CASE ReadOut(f)
    <2> DEFINE k == IF fib[f].n < Len(tail) THEN fib[f].n ELSE Len(tail)
               t == SubSeq(tail, 1, k)
               r == SubSeq(tail, k + 1, Len(tail))
    <2>1. tail' = r /\ chan_release(f, "bytes") /\ fib[f].op = "read"
      BY <1>3 DEF ReadOut
    <2>2. k \in 1 .. Len(tail)
      <3>1. fib[f].n \in Nat /\ fib[f].n # 0
        BY <1>1, <2>1 DEF FiberStates, FiberHolds
      <3>2. Len(tail) \in Nat /\ Len(tail) # 0
        BY <1>1
      <3>3. QED
        BY <3>1, <3>2
    <2> HIDE DEF k
    <2>3. t \in Seq(Byte) /\ r \in Seq(Byte) /\ Len(t) = k
      BY <1>1, <2>2
    <2>4. tail = Cat(t, r)
      <3>1. t \o r = SubSeq(tail, 1, Len(tail))
        BY <1>1, <2>2, ConcatAdjacentSubSeq
      <3>2. SubSeq(tail, 1, Len(tail)) = tail
        BY <1>1
      <3>3. QED
        BY <3>1, <3>2 DEF Cat
    <2> HIDE DEF t, r
    <2>5. t # << >>
      BY <2>2, <2>3
    <2>6. ChanInv' /\ Buf = Cat(t, Buf') /\ Buf' \in Seq(Byte)
      BY <1>1, <2>1, <2>3, <2>4, <2>5, TakeKeeps
    <2>7. QED
      BY <1>1, <1>2, <2>3, <2>5, <2>6
  <1>4. CASE CollectMore(f)
    <2>1. tail' = << >> /\ UNCHANGED <<busy, fib>>
      BY <1>4 DEF CollectMore
    <2>2. tail = Cat(tail, tail') /\ tail' \in Seq(Byte)
      BY <1>1, <2>1 DEF Cat
    <2>3. ChanInv' /\ Buf = Cat(tail, Buf') /\ Buf' \in Seq(Byte)
      BY <1>1, <2>1, <2>2, TakeKeeps
    <2>4. QED
      BY <1>1, <1>2, <2>3
  <1>5. QED
    BY <1>3, <1>4

\* jacl_chan_close: the closed word, and how the edge ends.
LEMMA CloseKeeps ==
  ASSUME ChanInv, NEW f \in Fibers, jacl_chan_close(f)
  PROVE  /\ ChanInv' /\ Buf' = Buf /\ told' = told /\ (over' = "severed" <=> over = "severed")
         /\ \E e \in Ends : closed' = [closed EXCEPT ![e] = 1]
  <1> DEFINE e == fib[f].end
  <1>1. /\ fib[f].pc = "claimed" /\ closed' = [closed EXCEPT ![e] = 1] /\ chan_release(f, "nil")
        /\ over' = IF closed[e] = 1 \/ over # "open" THEN over ELSE IF e = "w" THEN "complete" ELSE "cancel"
        /\ UNCHANGED <<tail, ring, ops, told>>
    BY DEF jacl_chan_close
  <1>2. /\ closed \in [Ends -> {0, 1}] /\ e \in Ends /\ ops \in Nat
        /\ over \in {"open", "complete", "cancel", "severed"}
    BY DEF ChanInv, ChanTypeOK, FiberStates
  <1>3. /\ busy' \in [Ends -> {0, 1}] /\ fib' \in [Fibers -> FiberStates] /\ SlotsOK'
        /\ fib'[f].pc = "out" /\ fib'[f].op = "none" /\ \A g \in Fibers \ {f} : fib'[g] = fib[g]
    BY <1>1, ReleaseEffects
  <1>4. closed' \in [Ends -> {0, 1}] /\ \A d \in Ends : closed'[d] = IF d = e THEN 1 ELSE closed[d]
    BY <1>1, <1>2
  <1>5. over' \in {"open", "complete", "cancel", "severed"}
    BY <1>1, <1>2
  <1>6. ChanTypeOK'
    BY <1>1, <1>3, <1>4, <1>5 DEF ChanInv, ChanTypeOK
  <1>7. Buf' = Buf
    BY <1>1 DEF Buf
  <1>8. EdgeOK' /\ (over' = "severed" <=> over = "severed") /\ (over' = "open" => over = "open")
    BY <1>1, <1>2, <1>4 DEF ChanInv, EdgeOK, Ends
  <1>9. ASSUME NEW g \in Fibers PROVE FiberHolds(fib[g])'
    <2>1. CASE g = f
      BY <1>3, <2>1, OutHolds
    <2>2. CASE g # f
      <3>1. FiberHolds(fib[g]) /\ fib'[g] = fib[g] /\ fib[g].end \in Ends
        BY <1>3, <2>2 DEF ChanInv, ChanTypeOK, FiberStates
      <3>2. fib[g].pc = "in" => closed'[fib[g].end] = 0
        <4>1. fib[g].pc = "in" => fib[g].end # e
          BY <1>1, <2>2, Alone
        <4>2. QED
          BY <1>4, <3>1, <4>1 DEF FiberHolds
      <3>3. QED
        BY <1>1, <1>7, <1>8, <3>1, <3>2 DEF FiberHolds
    <2>3. QED
      BY <2>1, <2>2
  <1>10. Whole(Buf)' /\ UpTo(Buf, ops)'
    BY <1>1, <1>7 DEF ChanInv
  <1>11. QED
    BY <1>1, <1>2, <1>3, <1>6, <1>7, <1>8, <1>9, <1>10 DEF ChanInv

\* The edge is severed: what is on it may be lost, what was read off it is not.
LEMMA SeverKeeps ==
  ASSUME ChanInv, Sever
  PROVE  /\ ChanInv' /\ UNCHANGED <<closed, told>> /\ over = "open" /\ over' = "severed"
         /\ IsPrefix(Buf', Buf)
  <1>1. /\ over = "open" /\ over' = "severed" /\ ring' \in {ring, << >>}
        /\ UNCHANGED <<busy, closed, tail, fib, ops, told>>
    BY DEF Sever
  <1>2. ring' \in Seq(Seq(Byte)) /\ tail \in Seq(Byte) /\ ring \in Seq(Seq(Byte))
    <2>1. << >> \in Seq(Seq(Byte))
      OBVIOUS
    <2>2. ring \in Seq(Seq(Byte)) /\ tail \in Seq(Byte)
      BY DEF ChanInv, ChanTypeOK
    <2>3. ring' = ring \/ ring' = << >>
      BY <1>1
    <2>4. QED
      BY <2>1, <2>2, <2>3
  <1>3. ChanTypeOK'
    BY <1>1, <1>2 DEF ChanInv, ChanTypeOK
  <1>4. SlotsOK'
    BY <1>1 DEF ChanInv, SlotsOK, Inside
  <1>5. PICK w : w \in Seq(Byte) /\ Buf' \in Seq(Byte) /\ Buf = Cat(Buf', w)
    <2>1. PICK v : v = FlattenSeq(ring) /\ v \in Seq(Byte)
      BY <1>2, FlattenTypes
    <2>2. Buf' \in Seq(Byte) /\ Buf \in Seq(Byte)
      BY <1>3, BufNext, BufTypes DEF ChanInv
    <2>3. CASE ring' = ring
      <3>1. Buf' = Buf
        BY <1>1, <2>3 DEF Buf
      <3>2. Buf = Cat(Buf', << >>)
        BY <2>2, <3>1 DEF Cat
      <3>3. << >> \in Seq(Byte)
        OBVIOUS
      <3>4. QED
        BY <2>2, <3>2, <3>3
    <2>4. CASE ring' = << >>
      <3>1. Buf' = tail
        <4>1. Buf' = tail \o << >>
          BY <1>1, <2>4, FlattenEmpty DEF Buf
        <4>2. QED
          BY <1>2, <4>1
      <3>2. Buf = Cat(tail, v)
        BY <2>1 DEF Buf, Cat
      <3>3. QED
        BY <2>1, <2>2, <3>1, <3>2
    <2>5. QED
      BY <1>1, <2>3, <2>4
  <1>6. Whole(Buf)'
    <2>1. Whole(Cat(Buf', w))
      BY <1>5 DEF ChanInv
    <2>2. QED
      BY <1>5, <2>1, WholeParts
  <1>7. UpTo(Buf, ops)'
    <2>1. UpTo(Cat(Buf', w), ops) /\ ops \in Nat /\ ops' = ops
      BY <1>1, <1>5 DEF ChanInv, ChanTypeOK
    <2>2. UpTo(Buf', ops)
      BY <1>5, <2>1, UpToParts
    <2>3. QED
      BY <2>1, <2>2
  <1>8. EdgeOK'
    BY <1>1 DEF EdgeOK
  <1>9. ASSUME NEW g \in Fibers PROVE FiberHolds(fib[g])'
    <2>1. FiberHolds(fib[g]) /\ fib'[g] = fib[g]
      BY <1>1 DEF ChanInv
    <2>2. QED
      BY <1>1, <2>1 DEF FiberHolds
  <1>10. IsPrefix(Buf', Buf)
    BY <1>5, CatPrefix
  <1>11. QED
    BY <1>1, <1>3, <1>4, <1>6, <1>7, <1>8, <1>9, <1>10 DEF ChanInv

-----------------------------------------------------------------------------
(* The theorems. *)

LEMMA ChanInitInv == ChanInit => ChanInv
  <1> SUFFICES ASSUME ChanInit PROVE ChanInv
    OBVIOUS
  <1>1. << >> \in Seq(Byte) /\ << >> \in Seq(Seq(Byte))
    OBVIOUS
  <1>2. fib \in [Fibers -> FiberStates] /\ \A f \in Fibers : fib[f] = Out
    BY OutIs DEF ChanInit
  <1>3. ChanTypeOK
    BY <1>1, <1>2 DEF ChanInit, ChanTypeOK, Ends
  <1>4. SlotsOK
    BY <1>2, OutIs DEF ChanInit, SlotsOK, Inside
  <1>5. EdgeOK
    BY DEF ChanInit, EdgeOK, Ends
  <1>6. Buf = << >>
    BY FlattenEmpty DEF ChanInit, Buf
  <1>7. Whole(Buf) /\ UpTo(Buf, ops)
    BY <1>6 DEF Whole, UpTo
  <1>8. \A f \in Fibers : FiberHolds(fib[f])
    BY <1>2, OutIs DEF FiberHolds
  <1>9. QED
    BY <1>3, <1>4, <1>5, <1>7, <1>8 DEF ChanInv

\* ByteStream compares sequences as this module does.
LEMMA SameOrder ==
  ASSUME NEW a, NEW b
  PROVE  /\ Stream!IsPrefix(a, b) = IsPrefix(a, b)
         /\ Stream!IsStrictPrefix(a, b) = IsStrictPrefix(a, b)
         /\ Stream!IsStrictSuffix(a, b) = IsStrictSuffix(a, b)
  <1>1. \A x : Stream!Reverse(x) = Reverse(x)
    BY DEF Stream!Reverse, Reverse
  <1>2. \A x, y : Stream!IsPrefix(x, y) = IsPrefix(x, y)
    BY DEF Stream!IsPrefix, IsPrefix
  <1>3. QED
    BY <1>1, <1>2 DEF Stream!IsStrictPrefix, IsStrictPrefix, Stream!IsSuffix, IsSuffix,
                      Stream!IsStrictSuffix, IsStrictSuffix

\* Each step keeps ChanInv and is a step of ByteStream, or changes nothing in it.
LEMMA StepRefines ==
  ASSUME ChanInv, ChanNext
  PROVE  ChanInv' /\ (Stream!BsNext \/ UNCHANGED Stream!bsVars)
  <1>1. ASSUME Buf' = Buf, UNCHANGED <<closed, told>>, over' = "severed" <=> over = "severed"
        PROVE  UNCHANGED Stream!bsVars
    BY <1>1 DEF Stream!bsVars, Buf
  <1>2. ASSUME NEW f \in Fibers, jacl_chan_write(f) \/ jacl_chan_read(f) \/ jacl_collect(f) \/ CloseStart(f) \/ ClaimCheck(f)
        PROVE  ChanInv' /\ UNCHANGED Stream!bsVars
    <2>1. ChanInv' /\ UNCHANGED <<closed, tail, ring, over, told>>
      BY <1>2, CallsKeep, CheckKeeps
    <2>2. QED
      BY <2>1, <1>1 DEF Buf
  <1>3. ASSUME NEW f \in Fibers, chan_be_write(f)
        PROVE  ChanInv' /\ (Stream!BsNext \/ UNCHANGED Stream!bsVars)
    <2>1. CASE over = "open"
      <3>1. /\ ChanInv' /\ UNCHANGED <<closed, over, told>> /\ closed["w"] = 0 /\ closed["r"] = 0
            /\ \E b \in Seq(Byte) : b # << >> /\ Buf' = Cat(Buf, b)
        BY <1>3, <2>1, SendKeeps
      <3>2. Buf \in Seq(Byte)
        BY BufTypes DEF ChanInv
      <3>3. IsStrictPrefix(Buf, Buf')
        BY <3>1, <3>2, CatPrefix
      <3>4. Stream!Put
        BY <2>1, <3>1, <3>3, SameOrder DEF Stream!Put, Buf
      <3>5. QED
        BY <3>1, <3>4 DEF Stream!BsNext
    <2>2. CASE over # "open"
      <3>1. /\ fib[f].pc # "out" /\ UNCHANGED <<closed, tail, ring, over, ops, told>>
            /\ chan_release(f, IF over = "severed" THEN "severed" ELSE "reader closed")
        BY <1>3, <2>2 DEF chan_be_write
      <3>2. ChanInv'
        BY <3>1, LeaveKeeps
      <3>3. QED
        BY <1>1, <3>1, <3>2 DEF Buf
    <2>3. QED
      BY <2>1, <2>2
  <1>4. ASSUME NEW f \in Fibers, WriteDone(f)
        PROVE  ChanInv' /\ UNCHANGED Stream!bsVars
    <2>1. fib[f].pc # "out" /\ UNCHANGED <<closed, tail, ring, over, ops, told>> /\ chan_release(f, "nil")
      BY <1>4 DEF WriteDone
    <2>2. ChanInv'
      BY <2>1, LeaveKeeps
    <2>3. QED
      BY <1>1, <2>1, <2>2 DEF Buf
  <1>5. ASSUME NEW f \in Fibers, chan_fill(f)
        PROVE  ChanInv' /\ (Stream!BsNext \/ UNCHANGED Stream!bsVars)
    <2>1. /\ fib[f].pc = "in" /\ fib[f].op \in {"read", "collect"} /\ tail = << >> /\ UNCHANGED <<closed, over, ops>>
      BY <1>5 DEF chan_fill
    <2>2. CASE ring # << >> /\ tail' = Head(ring) /\ ring' = Tail(ring) /\ UNCHANGED <<busy, fib, told>>
      <3>1. ChanInv' /\ Buf' = Buf
        BY <2>1, <2>2, FillKeeps
      <3>2. QED
        BY <1>1, <2>1, <2>2, <3>1
    <2>3. CASE over = "severed" /\ chan_release(f, "severed") /\ UNCHANGED <<tail, ring, told>>
      <3>1. ChanInv'
        BY <2>1, <2>3, LeaveKeeps
      <3>2. QED
        BY <1>1, <2>1, <2>3, <3>1 DEF Buf
    <2>4. CASE ring = << >> /\ over = "complete" /\ chan_release(f, "end") /\ told' = TRUE /\ UNCHANGED <<tail, ring>>
      <3>1. ChanInv'
        BY <2>1, <2>4, LeaveKeeps
      <3>2. closed["w"] = 1 /\ closed["r"] = 0
        BY <2>1, <2>4 DEF ChanInv, EdgeOK, FiberHolds
      <3>3. Buf = << >> /\ Buf' = Buf
        BY <2>1, <2>4, FlattenEmpty DEF Buf
      <3>4. Stream!SeeEnd
        BY <2>1, <2>4, <3>2, <3>3 DEF Stream!SeeEnd, Buf
      <3>5. QED
        BY <3>1, <3>4 DEF Stream!BsNext
    <2>5. QED
      BY <1>5, <2>2, <2>3, <2>4 DEF chan_fill
  <1>6. ASSUME NEW f \in Fibers, ReadOut(f) \/ CollectMore(f)
        PROVE  ChanInv' /\ Stream!BsNext
    <2>1. /\ ChanInv' /\ UNCHANGED <<closed, over, told>> /\ closed["r"] = 0
          /\ \E t \in Seq(Byte) : t # << >> /\ Buf = Cat(t, Buf') /\ Buf' \in Seq(Byte)
      BY <1>6, ReadKeeps
    <2>2. IsStrictSuffix(Buf', Buf)
      BY <2>1, CatSuffix
    <2>3. Stream!Take
      BY <2>1, <2>2, SameOrder DEF Stream!Take, Buf
    <2>4. QED
      BY <2>1, <2>3 DEF Stream!BsNext
  <1>7. ASSUME NEW f \in Fibers, jacl_chan_close(f)
        PROVE  ChanInv' /\ (Stream!BsNext \/ UNCHANGED Stream!bsVars)
    <2>1. /\ ChanInv' /\ Buf' = Buf /\ told' = told /\ (over' = "severed" <=> over = "severed")
          /\ \E e \in Ends : closed' = [closed EXCEPT ![e] = 1]
      BY <1>7, CloseKeeps
    <2>2. PICK e \in Ends : closed' = [closed EXCEPT ![e] = 1]
      BY <2>1
    <2>3. closed \in [Ends -> {0, 1}]
      BY DEF ChanInv, ChanTypeOK
    <2>4. CASE closed[e] = 1
      <3>1. closed' = closed
        BY <2>2, <2>3, <2>4
      <3>2. QED
        BY <1>1, <2>1, <3>1
    <2>5. CASE closed[e] # 1 /\ e = "w"
      <3>1. closed["w"] # 1 /\ closed'["w"] = 1 /\ closed'["r"] = closed["r"]
        BY <2>2, <2>3, <2>5 DEF Ends
      <3>2. Stream!Finish
        BY <2>1, <3>1 DEF Stream!Finish, Buf
      <3>3. QED
        BY <2>1, <3>2 DEF Stream!BsNext
    <2>6. CASE closed[e] # 1 /\ e = "r"
      <3>1. closed["r"] # 1 /\ closed'["r"] = 1 /\ closed'["w"] = closed["w"]
        BY <2>2, <2>3, <2>6 DEF Ends
      <3>2. Stream!Refuse
        BY <2>1, <3>1 DEF Stream!Refuse, Buf
      <3>3. QED
        BY <2>1, <3>2 DEF Stream!BsNext
    <2>7. QED
      BY <2>4, <2>5, <2>6 DEF Ends
  <1>8. CASE Sever
    <2>1. /\ ChanInv' /\ UNCHANGED <<closed, told>> /\ over = "open" /\ over' = "severed" /\ IsPrefix(Buf', Buf)
      BY <1>8, SeverKeeps
    <2>2. Stream!Break
      BY <2>1, SameOrder DEF Stream!Break, Buf
    <2>3. QED
      BY <2>1, <2>2 DEF Stream!BsNext
  <1>9. QED
    BY <1>2, <1>3, <1>4, <1>5, <1>6, <1>7, <1>8 DEF ChanNext

LEMMA StutterKeeps ==
  ASSUME ChanInv, UNCHANGED chanVars
  PROVE  ChanInv' /\ UNCHANGED Stream!bsVars
  <1>1. UNCHANGED <<busy, closed, tail, ring, over, fib, ops, told>>
    BY DEF chanVars
  <1>2. Buf' = Buf
    BY <1>1 DEF Buf
  <1>3. QED
    BY <1>1, <1>2 DEF ChanInv, ChanTypeOK, SlotsOK, Inside, EdgeOK, FiberHolds, Stream!bsVars, Buf

\* Every step of the fibers and of the edge keeps ChanInv (chan.c, chan_unir.c).
THEOREM ChanInvariant == ChanSpec => []ChanInv
  <1>1. ASSUME ChanInv, [ChanNext]_chanVars PROVE ChanInv'
    BY <1>1, StepRefines, StutterKeeps
  <1>2. QED
    BY <1>1, ChanInitInv, PTL DEF ChanSpec

\* For any fibers, edge, frames and lengths: an end is busy exactly while one
\* fiber is inside it, a closed end admits none, and what is in flight is made of
\* whole writes in the order they were made (chan.c:31, :108-138).
THEOREM ChannelHolds == ChanSpec => []ChannelSound
  <1>1. ASSUME ChanInv PROVE ChannelSound
    <2>1. WritesWhole
      BY <1>1 DEF ChanInv, Whole, Buf, WritesWhole
    <2>2. ASSUME NEW e \in Ends
          PROVE  LET users == {f \in Fibers : fib[f].pc # "out" /\ fib[f].end = e}
                 IN /\ Cardinality(users) = busy[e]
                    /\ closed[e] = 1 => \A f \in users : fib[f].pc = "claimed"
      <3> DEFINE users == {f \in Fibers : fib[f].pc # "out" /\ fib[f].end = e}
      <3>1. closed[e] = 1 => \A f \in users : fib[f].pc = "claimed"
        <4>1. ASSUME closed[e] = 1, NEW f \in users PROVE fib[f].pc = "claimed"
          <5>1. f \in Fibers /\ fib[f].pc # "out" /\ fib[f].end = e
            OBVIOUS
          <5>2. FiberHolds(fib[f]) /\ fib[f] \in FiberStates
            BY <1>1, <5>1 DEF ChanInv, ChanTypeOK
          <5>3. fib[f].pc \in {"out", "claimed", "in"}
            BY <5>2 DEF FiberStates
          <5>4. QED
            BY <4>1, <5>1, <5>2, <5>3 DEF FiberHolds
        <4>2. QED
          BY <4>1
      <3>2. busy[e] \in {0, 1}
        BY <1>1 DEF ChanInv, ChanTypeOK
      <3>3. CASE busy[e] = 0
        <4>1. users = {}
          BY <1>1, <3>3 DEF ChanInv, SlotsOK, Inside
        <4>2. QED
          BY <3>1, <3>3, <4>1, FS_EmptySet
      <3>4. CASE busy[e] = 1
        <4>1. PICK f \in Fibers : Inside(f, e)
          BY <1>1, <3>4 DEF ChanInv, SlotsOK
        <4>2. users = {f}
          BY <1>1, <4>1 DEF ChanInv, SlotsOK, Inside
        <4> HIDE DEF users
        <4>3. Cardinality(users) = 1
          BY <4>2, FS_Singleton
        <4>4. QED
          BY <3>1, <3>4, <4>3 DEF users
      <3>5. QED
        BY <3>2, <3>3, <3>4
    <2>3. OneOperation
      BY <2>2 DEF OneOperation
    <2>4. QED
      BY <2>1, <2>3 DEF ChannelSound
  <1>2. QED
    BY <1>1, ChanInvariant, PTL

\* A channel implements the byte queue its documentation promises, step by step:
\* however writes are cut into frames, whatever tail a read leaves and however
\* fibers interleave, nothing is lost, repeated or reordered before a sever, and
\* the end of the stream is seen only after the last byte (docs/UNIR_CHANNELS.md,
\* chan.c, chan_unir.c).
THEOREM ChannelImplementsStream == ChanSpec => StreamRefined
  <1>1. ChanInit => Stream!BsInit
    <2>1. ASSUME ChanInit PROVE Stream!BsInit
      <3>1. tail \o FlattenSeq(ring) = << >>
        BY <2>1, FlattenEmpty DEF ChanInit
      <3>2. QED
        BY <2>1, <3>1 DEF ChanInit, Stream!BsInit, Ends
    <2>2. QED
      BY <2>1
  <1>2. ASSUME ChanInv, [ChanNext]_chanVars
        PROVE  [Stream!BsNext]_(Stream!bsVars)
    BY <1>2, StepRefines, StutterKeeps
  <1>3. QED
    BY <1>1, <1>2, ChanInvariant, PTL DEF ChanSpec, StreamRefined
=============================================================================
