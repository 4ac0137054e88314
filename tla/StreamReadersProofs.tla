------------------------- MODULE StreamReadersProofs -------------------------
(***************************************************************************)
(* Proofs about StreamReaders, for every base Low of the bytes, every set  *)
(* of numbers, byte strings, addresses and logins.  In this order:         *)
(*                                                                         *)
(*   - what the decoders of Codec make of bytes that begin like an encoded *)
(*     value: all of it, the value and how long it was; cut short, an end  *)
(*     of file (Decodes, from VarintDecodes to PrefixDecodes);             *)
(*   - what each reading asks for: never past the end of the piece meant   *)
(*     for it (Asks);                                                      *)
(*   - the invariant RInv, by the piece each reading stands at, and the    *)
(*     theorems.                                                           *)
(*                                                                         *)
(* The recursive definitions are reasoned about by induction from the      *)
(* least element of a set of naturals.                                     *)
(***************************************************************************)
EXTENDS StreamReaders, SequenceTheorems, WellFoundedInduction, TLAPS

----------------------------------------------------------------------------
(* Induction over the naturals, from the least element of a set of them. *)

\* A set of naturals has a least element.
LEMMA LeastNat ==
    ASSUME NEW T, T \subseteq Nat, T # {}
    PROVE  \E n \in T : \A m \in T : n <= m
<1> DEFINE R == OpToRel(<, Nat)
<1>1. IsWellFoundedOn(R, Nat)
  BY NatLessThanWellFounded
<1>2. \A m, n \in Nat : m < n => <<m, n>> \in R
  BY DEF OpToRel
<1> HIDE DEF R
<1>3. PICK n \in T : \A m \in T : <<m, n>> \notin R
  BY <1>1, WFMin
<1>4. n \in Nat /\ \A m \in T : m \in Nat /\ ~(m < n)
  BY <1>2, <1>3
<1>5. \A m \in T : n <= m
  BY <1>4
<1>6. QED
  BY <1>5

\* A set of naturals that holds 0 and every successor is all of them.
LEMMA Induct ==
    ASSUME NEW T, T \subseteq Nat, 0 \in T, \A n \in T : n + 1 \in T
    PROVE  T = Nat
<1> SUFFICES ASSUME Nat \ T # {} PROVE FALSE
  OBVIOUS
<1>1. PICK n \in Nat \ T : \A m \in Nat \ T : n <= m
  BY LeastNat
<1>2. n # 0 /\ n - 1 \in Nat /\ ~(n <= n - 1) /\ (n - 1) + 1 = n
  BY <1>1
<1>3. n - 1 \in T
  BY <1>1, <1>2
<1>4. QED
  BY <1>1, <1>2, <1>3

\* g starts at e and goes on by the functions F[1], F[2], ..., F[k].
Runs(g, D, e, F, k) ==
    g \in [0..k -> D] /\ g[0] = e /\ \A n \in 1..k : g[n] = F[n][g[n - 1]]

\* Such a function exists: what CHOOSE makes of a recursive definition is one.
LEMMA RunExists ==
    ASSUME NEW N \in Nat, NEW D, NEW e \in D, NEW F \in [1..N -> [D -> D]]
    PROVE  \E g : Runs(g, D, e, F, N)
<1> DEFINE T == {k \in Nat : k <= N => \E g : Runs(g, D, e, F, k)}
<1>1. T \subseteq Nat /\ \A k \in Nat : k \in T <=> (k <= N => \E g : Runs(g, D, e, F, k))
  OBVIOUS
<1> HIDE DEF T
<1>2. 0 \in T
  <2>1. Runs([n \in 0..0 |-> e], D, e, F, 0)
    BY DEF Runs
  <2>2. QED
    BY <1>1, <2>1
<1>3. ASSUME NEW k \in T PROVE k + 1 \in T
  <2>1. k \in Nat /\ k + 1 \in Nat
    BY <1>1
  <2>2. ASSUME k + 1 <= N PROVE \E g : Runs(g, D, e, F, k + 1)
    <3>1. PICK g : Runs(g, D, e, F, k)
      BY <1>1, <2>1, <2>2
    <3> DEFINE x == F[k + 1][g[k]]
               h == [n \in 0..(k + 1) |-> IF n = k + 1 THEN x ELSE g[n]]
    <3>2. g \in [0..k -> D] /\ g[0] = e /\ \A n \in 1..k : g[n] = F[n][g[n - 1]]
      BY <3>1 DEF Runs
    <3>3. x \in D
      <4>1. k + 1 \in 1..N /\ k \in 0..k
        BY <2>1, <2>2
      <4>2. F[k + 1] \in [D -> D] /\ g[k] \in D
        BY <3>2, <4>1
      <4>3. QED
        BY <4>2
    <3> HIDE DEF x
    <3>4. h \in [0..(k + 1) -> D] /\ h[k + 1] = x /\ \A n \in 0..k : h[n] = g[n]
      BY <2>1, <3>2, <3>3
    <3> HIDE DEF h
    <3>5. ASSUME NEW n \in 1..(k + 1) PROVE h[n] = F[n][h[n - 1]]
      <4>1. CASE n = k + 1
        <5>1. n - 1 = k /\ k \in 0..k
          BY <2>1, <4>1
        <5>2. QED
          BY <3>4, <4>1, <5>1 DEF x
      <4>2. CASE n # k + 1
        <5>1. n \in 1..k /\ n \in 0..k /\ n - 1 \in 0..k
          BY <2>1, <4>2
        <5>2. QED
          BY <3>2, <3>4, <5>1
      <4>3. QED
        BY <4>1, <4>2
    <3>6. h[0] = e
      BY <2>1, <3>2, <3>4
    <3>7. QED
      BY <3>4, <3>5, <3>6 DEF Runs
  <2>3. QED
    BY <1>1, <2>1, <2>2
<1>4. T = Nat
  BY <1>1, <1>2, <1>3, Induct
<1>5. QED
  BY <1>1, <1>4

----------------------------------------------------------------------------
(* Arithmetic. *)

LEMMA DivMod ==
    ASSUME NEW r \in Nat, r > 0, NEW a \in Nat
    PROVE  a = (a \div r) * r + (a % r) /\ a % r \in 0..(r - 1) /\ a \div r \in Nat
OBVIOUS

LEMMA DivModIs ==
    ASSUME NEW r \in Nat, r > 0, NEW a \in Nat, NEW q \in Nat, NEW d \in 0..(r - 1), a = q * r + d
    PROVE  a \div r = q /\ a % r = d
OBVIOUS

\* Dividing by a product is dividing by one factor, then by the other.
LEMMA DivMul ==
    ASSUME NEW p \in Nat, p > 0, NEW r \in Nat, r > 0, NEW v \in Nat, NEW m \in Nat, m = p * r
    PROVE  /\ m > 0 /\ v \div m = (v \div p) \div r
           /\ v % m = ((v \div p) % r) * p + (v % p)
<1> DEFINE a == v \div p
           d == v % p
           q == a \div r
           s == a % r
           t == s * p + d
<1>1. v = a * p + d /\ d \in 0..(p - 1) /\ a \in Nat
  BY DivMod
<1>2. a = q * r + s /\ s \in 0..(r - 1) /\ q \in Nat
  BY DivMod, <1>1
<1> HIDE DEF a, d, q, s
<1>3. m > 0
  OBVIOUS
<1>4. v = q * m + t
  BY <1>1, <1>2
<1>5. t \in 0..(m - 1)
  <2>1. (s + 1) * p <= r * p
    BY <1>2
  <2>2. s * p + p <= r * p /\ s * p \in Nat
    BY <2>1, <1>2
  <2>3. QED
    BY <2>2, <1>1, <1>3
<1> HIDE DEF t
<1>6. v \div m = q /\ v % m = t
  BY <1>2, <1>3, <1>4, <1>5, DivModIs
<1>7. q = (v \div p) \div r /\ t = ((v \div p) % r) * p + (v % p)
  BY DEF q, a, d, s, t
<1>8. QED
  BY <1>3, <1>6, <1>7

\* One step of Horner's rule, on numbers cut to what fits.
HornerCut(b, r, m, n) == ((b \div r) % m) * r + (b % r) = b % n

LEMMA HornerStep ==
    ASSUME NEW r \in Nat, r > 0, NEW m \in Nat, m > 0, NEW b \in Nat, NEW n \in Nat, n = m * r
    PROVE  HornerCut(b, r, m, n)
<1>1. n = r * m
  OBVIOUS
<1>2. QED
  BY <1>1, DivMul DEF HornerCut

LEMMA Bases ==
    /\ Low \in Nat /\ Low >= 2 /\ Radix \in Nat /\ Radix >= 8 /\ Radix = 4 * Low
    /\ MAX_BODY_LEN \in Nat
BY CodecAssumption DEF Radix

\* The recursive function Power is what it says.
LEMMA Powers ==
    /\ Power[0] = 1 /\ \A n \in 1..7 : Power[n] = Radix * Power[n - 1]
    /\ \A n \in 0..7 : Power[n] \in Nat /\ Power[n] > 0
<1> DEFINE D == Nat \ {0}
           F == [n \in 1..7 |-> [x \in D |-> Radix * x]]
           Is(f) == f = [n \in 0..7 |-> IF n = 0 THEN 1 ELSE Radix * f[n - 1]]
<1>1. F \in [1..7 -> [D -> D]] /\ \A n \in 1..7 : \A x \in D : F[n][x] = Radix * x
  <2>1. \A x \in D : Radix * x \in D
    BY Bases
  <2>2. QED
    BY <2>1
<1>2. 1 \in D /\ 7 \in Nat
  OBVIOUS
<1> HIDE DEF D, F
<1>3. PICK g : Runs(g, D, 1, F, 7)
  BY <1>1, <1>2, RunExists
<1> USE DEF D
<1>4. g \in [0..7 -> D] /\ g[0] = 1 /\ \A n \in 1..7 : g[n] = Radix * g[n - 1]
  BY <1>1, <1>3 DEF Runs
<1>5. Is(g)
  BY <1>4
<1>6. Power = CHOOSE f : Is(f)
  BY DEF Power
<1> HIDE DEF Is
<1>7. Is(Power)
  BY <1>5, <1>6
<1>8. Power = [n \in 0..7 |-> IF n = 0 THEN 1 ELSE Radix * Power[n - 1]]
  BY <1>7 DEF Is
<1>9. Power[0] = 1 /\ \A n \in 1..7 : Power[n] = Radix * Power[n - 1]
  BY <1>8
<1>10. Power[0] \in D
  BY <1>9
<1>11. ASSUME NEW n \in 1..7, Power[n - 1] \in D PROVE Power[n] \in D
  BY <1>9, <1>11, Bases
<1>12. \A n \in 0..7 : Power[n] \in D
  <2>1. Power[1] \in D
    BY <1>10, <1>11
  <2>2. Power[2] \in D
    BY <2>1, <1>11
  <2>3. Power[3] \in D
    BY <2>2, <1>11
  <2>4. Power[4] \in D
    BY <2>3, <1>11
  <2>5. Power[5] \in D
    BY <2>4, <1>11
  <2>6. Power[6] \in D
    BY <2>5, <1>11
  <2>7. Power[7] \in D
    BY <2>6, <1>11
  <2>8. \A n \in 0..7 : n = 0 \/ n = 1 \/ n = 2 \/ n = 3 \/ n = 4 \/ n = 5 \/ n = 6 \/ n = 7
    OBVIOUS
  <2>9. QED
    BY <1>10, <2>1, <2>2, <2>3, <2>4, <2>5, <2>6, <2>7, <2>8
<1>13. QED
  BY <1>9, <1>12

\* Each length of a varint holds more than the one before.
LEMMA Limits ==
    /\ \A n \in 1..8 : Limit(n) \in Nat /\ Limit(n) > 0
    /\ Limit(1) = Low /\ \A n \in 1..7 : Limit(n + 1) = Limit(n) * Radix
    /\ Limit(1) < Limit(2) /\ Limit(2) < Limit(4) /\ Limit(4) < Limit(8)
<1>1. ASSUME NEW n \in 1..8 PROVE Limit(n) \in Nat /\ Limit(n) > 0
  <2>1. n - 1 \in 0..7
    OBVIOUS
  <2>2. Power[n - 1] \in Nat /\ Power[n - 1] > 0
    BY <2>1, Powers
  <2>3. QED
    BY <2>2, Bases DEF Limit
<1>2. Limit(1) = Low
  BY Powers, Bases DEF Limit
<1>3. ASSUME NEW n \in 1..7 PROVE Limit(n + 1) = Limit(n) * Radix
  <2>1. Power[(n + 1) - 1] = Radix * Power[n - 1] /\ Power[n - 1] \in Nat
    BY Powers
  <2>2. QED
    BY <2>1, Bases DEF Limit
<1>4. ASSUME NEW n \in 1..7 PROVE Limit(n) < Limit(n + 1)
  <2>1. Limit(n) \in Nat /\ Limit(n) > 0 /\ Limit(n + 1) = Limit(n) * Radix
    BY <1>1, <1>3
  <2>2. QED
    BY <2>1, Bases
<1>5. /\ Limit(1) < Limit(2) /\ Limit(2) < Limit(3) /\ Limit(3) < Limit(4) /\ Limit(4) < Limit(5)
      /\ Limit(5) < Limit(6) /\ Limit(6) < Limit(7) /\ Limit(7) < Limit(8)
  <2>1. 1 + 1 = 2 /\ 2 + 1 = 3 /\ 3 + 1 = 4 /\ 4 + 1 = 5 /\ 5 + 1 = 6 /\ 6 + 1 = 7 /\ 7 + 1 = 8
    OBVIOUS
  <2>2. /\ Limit(1) < Limit(1 + 1) /\ Limit(2) < Limit(2 + 1) /\ Limit(3) < Limit(3 + 1)
        /\ Limit(4) < Limit(4 + 1) /\ Limit(5) < Limit(5 + 1) /\ Limit(6) < Limit(6 + 1)
        /\ Limit(7) < Limit(7 + 1)
    BY <1>4
  <2>3. QED
    BY <2>1, <2>2
<1>6. /\ Limit(1) \in Nat /\ Limit(2) \in Nat /\ Limit(3) \in Nat /\ Limit(4) \in Nat
      /\ Limit(5) \in Nat /\ Limit(6) \in Nat /\ Limit(7) \in Nat /\ Limit(8) \in Nat
  BY <1>1
<1>7. Limit(1) < Limit(2) /\ Limit(2) < Limit(4) /\ Limit(4) < Limit(8)
  BY <1>5, <1>6
<1>8. QED
  BY <1>1, <1>2, <1>3, <1>7

----------------------------------------------------------------------------
(* Bytes that begin alike. *)

\* b and c are the same as far as both go.
Agree(b, c) == \A i \in 1..Len(b) : i <= Len(c) => b[i] = c[i]

\* What is behind the first k bytes of b.
From(b, k) == SubSeq(b, k + 1, Len(b))

LEMMA Behind ==
    ASSUME NEW b \in Seq(Byte), NEW k \in 0..Len(b)
    PROVE  /\ From(b, k) \in Seq(Byte) /\ Len(From(b, k)) = Len(b) - k
           /\ \A i \in 1..(Len(b) - k) : From(b, k)[i] = b[k + i]
<1>1. Len(b) \in Nat /\ k + 1 \in Int /\ \A i \in (k + 1)..Len(b) : b[i] \in Byte
  OBVIOUS
<1>2. QED
  BY <1>1, SubSeqProperties DEF From

\* Bytes that begin like s \o t begin like s, and go on like t.
LEMMA AgreeSplit ==
    ASSUME NEW b \in Seq(Byte), NEW s \in Seq(Byte), NEW t \in Seq(Byte), Agree(b, s \o t)
    PROVE  Agree(b, s) /\ (Len(s) <= Len(b) => Agree(From(b, Len(s)), t))
<1>1. /\ Len(s) \in Nat /\ Len(t) \in Nat /\ Len(b) \in Nat /\ Len(s \o t) = Len(s) + Len(t)
      /\ \A i \in 1..(Len(s) + Len(t)) : (s \o t)[i] = IF i <= Len(s) THEN s[i] ELSE t[i - Len(s)]
  BY ConcatProperties
<1>2. \A i \in 1..Len(b) : i <= Len(s) + Len(t) => b[i] = (s \o t)[i]
  BY <1>1 DEF Agree
<1>3. ASSUME NEW i \in 1..Len(b), i <= Len(s) PROVE b[i] = s[i]
  BY <1>1, <1>2, <1>3
<1>4. ASSUME Len(s) <= Len(b), NEW i \in 1..(Len(b) - Len(s)), i <= Len(t)
      PROVE  b[Len(s) + i] = t[i]
  <2>1. Len(s) + i \in 1..Len(b) /\ Len(s) + i \in 1..(Len(s) + Len(t)) /\ ~(Len(s) + i <= Len(s))
        /\ (Len(s) + i) - Len(s) = i
    BY <1>1, <1>4
  <2>2. QED
    BY <1>1, <1>2, <2>1
<1>5. ASSUME Len(s) <= Len(b) PROVE Agree(From(b, Len(s)), t)
  <2>1. Len(s) \in 0..Len(b)
    BY <1>1, <1>5
  <2>2. /\ Len(From(b, Len(s))) = Len(b) - Len(s)
        /\ \A i \in 1..(Len(b) - Len(s)) : From(b, Len(s))[i] = b[Len(s) + i]
    BY <2>1, Behind
  <2>3. QED
    BY <1>4, <1>5, <2>2 DEF Agree
<1>6. QED
  BY <1>3, <1>5 DEF Agree

\* Bytes that go on like all of s hold s there.
LEMMA AgreeWhole ==
    ASSUME NEW b \in Seq(Byte), NEW s \in Seq(Byte), NEW k \in 0..Len(b), Agree(From(b, k), s),
           k + Len(s) <= Len(b)
    PROVE  SubSeq(b, k + 1, k + Len(s)) = s
<1>1. Len(s) \in Nat /\ Len(b) \in Nat /\ k \in Nat
  OBVIOUS
<1>2. ASSUME NEW i \in 1..Len(s) PROVE b[k + i] = s[i]
  <2>1. /\ Len(From(b, k)) = Len(b) - k
        /\ \A j \in 1..(Len(b) - k) : From(b, k)[j] = b[k + j]
    BY Behind
  <2>2. i \in 1..(Len(b) - k) /\ i <= Len(s)
    BY <1>1
  <2>3. From(b, k)[i] = s[i]
    BY <2>1, <2>2 DEF Agree
  <2>4. QED
    BY <2>1, <2>2, <2>3
<1> DEFINE x == k + 1
           y == k + Len(s)
           c == SubSeq(b, x, y)
<1>3. x \in Int /\ y \in Int /\ y - x + 1 = Len(s) /\ (x <= y <=> Len(s) # 0)
      /\ \A i \in x..y : b[i] \in Byte
  BY <1>1
<1>4. \A i \in 1..Len(s) : x + i - 1 = k + i
  BY <1>1
<1> HIDE DEF x, y
<1>5. /\ c \in Seq(Byte) /\ Len(c) = IF x <= y THEN y - x + 1 ELSE 0
      /\ \A i \in 1..(y - x + 1) : c[i] = b[x + i - 1]
  BY <1>3, SubSeqProperties
<1>6. c \in Seq(Byte) /\ Len(c) = Len(s) /\ \A i \in 1..Len(s) : c[i] = b[k + i]
  BY <1>3, <1>4, <1>5
<1> HIDE DEF c
<1>7. c = s
  BY <1>2, <1>6, SeqEqual
<1>8. QED
  BY <1>7 DEF c, x, y

\* The rest of the rest is the rest.
LEMMA BehindTwice ==
    ASSUME NEW b \in Seq(Byte), NEW k \in 0..Len(b), NEW n \in 0..(Len(b) - k), NEW m, m = k + n
    PROVE  From(From(b, k), n) = From(b, m) /\ m \in 0..Len(b)
<1> DEFINE c == From(b, k)
           d == From(c, n)
           e == From(b, m)
<1>1. Len(b) \in Nat /\ m \in 0..Len(b)
  OBVIOUS
<1>2. /\ c \in Seq(Byte) /\ Len(c) = Len(b) - k
      /\ \A i \in 1..(Len(b) - k) : c[i] = b[k + i]
  BY Behind
<1>3. /\ e \in Seq(Byte) /\ Len(e) = Len(b) - m
      /\ \A i \in 1..(Len(b) - m) : e[i] = b[m + i]
  BY <1>1, Behind
<1> HIDE DEF c, e
<1>4. /\ d \in Seq(Byte) /\ Len(d) = Len(c) - n
      /\ \A i \in 1..(Len(c) - n) : d[i] = c[n + i]
  BY <1>2, Behind
<1> HIDE DEF d
<1>5. Len(d) = Len(e)
  BY <1>1, <1>2, <1>3, <1>4
<1>6. ASSUME NEW i \in 1..Len(d) PROVE d[i] = e[i]
  <2>1. /\ i \in 1..(Len(c) - n) /\ i \in 1..(Len(b) - m) /\ n + i \in 1..(Len(b) - k)
        /\ k + (n + i) = m + i
    BY <1>1, <1>2, <1>4
  <2>2. QED
    BY <1>2, <1>3, <1>4, <2>1
<1>7. d = e
  BY <1>3, <1>4, <1>5, <1>6, SeqEqual
<1>8. QED
  BY <1>1, <1>7 DEF c, d, e

LEMMA Concat3 ==
    ASSUME NEW x \in Seq(Byte), NEW y \in Seq(Byte), NEW z \in Seq(Byte)
    PROVE  /\ (x \o y) \o z = x \o (y \o z) /\ x \o (y \o z) \in Seq(Byte)
           /\ y \o z \in Seq(Byte) /\ Len(y \o z) = Len(y) + Len(z)
           /\ Len(x \o (y \o z)) = Len(x) + (Len(y) + Len(z))
           /\ Len(x) \in Nat /\ Len(y) \in Nat /\ Len(z) \in Nat
<1>1. (x \o y) \o z = x \o (y \o z)
  BY ConcatAssociative
<1>2. y \o z \in Seq(Byte) /\ Len(y \o z) = Len(y) + Len(z)
  BY ConcatProperties
<1>3. x \o (y \o z) \in Seq(Byte) /\ Len(x \o (y \o z)) = Len(x) + Len(y \o z)
  BY <1>2, ConcatProperties
<1>4. QED
  BY <1>1, <1>2, <1>3

\* Every byte string begins like itself, whatever follows it.
LEMMA AgreeSelf ==
    ASSUME NEW b \in Seq(Byte), NEW t \in Seq(Byte)
    PROVE  Agree(b, b) /\ Agree(b \o t, b)
<1>1. /\ Len(b) \in Nat /\ Len(t) \in Nat /\ Len(b \o t) = Len(b) + Len(t)
      /\ \A i \in 1..(Len(b) + Len(t)) : (b \o t)[i] = IF i <= Len(b) THEN b[i] ELSE t[i - Len(b)]
  BY ConcatProperties
<1>2. QED
  BY <1>1 DEF Agree

LEMMA AgreeStart ==
    ASSUME NEW b \in Seq(Byte), NEW c \in Seq(Byte), Agree(b, c), b # <<>>, c # <<>>
    PROVE  Head(b) = Head(c) /\ Head(b) = b[1] /\ b[1] \in Byte /\ 1 \in 1..Len(b)
<1>1. Len(b) \in Nat \ {0} /\ Len(c) \in Nat \ {0}
  BY EmptySeq
<1>2. b[1] = c[1] /\ b[1] \in Byte
  BY <1>1 DEF Agree
<1>3. QED
  BY <1>1, <1>2

----------------------------------------------------------------------------
(* Varints. *)

Lens == {1, 2, 4, 8}

LEMMA LenTags ==
    \A len \in Lens : /\ len \in 1..8 /\ Tag(len) \in 0..3 /\ 2^Tag(len) = len
                      /\ len - 1 \in 0..7
<1>1. Tag(1) = 0 /\ Tag(2) = 1 /\ Tag(4) = 2 /\ Tag(8) = 3
  BY DEF Tag
<1>2. 2^0 = 1 /\ 2^1 = 2 /\ 2^2 = 4 /\ 2^3 = 8
  OBVIOUS
<1>3. 2^Tag(1) = 1 /\ 2^Tag(2) = 2 /\ 2^Tag(4) = 4 /\ 2^Tag(8) = 8
  BY <1>1, <1>2
<1>4. ASSUME NEW len \in Lens PROVE len = 1 \/ len = 2 \/ len = 4 \/ len = 8
  BY DEF Lens
<1>5. QED
  BY <1>1, <1>3, <1>4

LEMMA ByteLow ==
    ASSUME NEW a \in Nat
    PROVE  a % Radix \in Byte /\ (a % Radix) % Low = a % Low /\ a % Low \in 0..(Low - 1)
<1> DEFINE d == a % Radix
           q == a \div Radix
           e == d % Low
           p == d \div Low
<1>1. a = q * Radix + d /\ d \in 0..(Radix - 1) /\ q \in Nat
  BY DivMod, Bases
<1>2. d = p * Low + e /\ e \in 0..(Low - 1) /\ p \in Nat
  BY DivMod, Bases, <1>1
<1> HIDE DEF d, q, e, p
<1> DEFINE n == q * 4 + p
<1>3. a = n * Low + e
  BY <1>1, <1>2, Bases
<1>4. n \in Nat
  BY <1>1, <1>2
<1> HIDE DEF n
<1>5. a % Low = e
  BY <1>2, <1>3, <1>4, DivModIs, Bases
<1>6. QED
  BY <1>1, <1>2, <1>5 DEF d, e, Byte

\* The bytes of a number: the tag and the high bits, and all others.
LEMMA VarintBytes ==
    ASSUME NEW v \in Nat
    PROVE  LET len == VarintLen(v)
               E == EncodeVarint(v)
           IN  /\ len \in Lens /\ E \in Seq(Byte) /\ Len(E) = len
               /\ E # <<>> /\ PrefixLen(Head(E)) = len
               /\ Head(E) % Low = (v \div Power[len - 1]) % Low
               /\ \A i \in 2..len : E[i] = (v \div Power[len - i]) % Radix
<1> DEFINE len == VarintLen(v)
           E == EncodeVarint(v)
           B == BigEndian(v, len)
           x == (v \div Power[len - 1]) % Low
           t == Tag(len)
<1>1. len \in Lens
  BY DEF VarintLen, Lens
<1>2. len \in 1..8 /\ t \in 0..3 /\ 2^t = len
  BY <1>1, LenTags
<1>3. \A i \in 1..len : v \div Power[len - i] \in Nat
  <2>1. \A i \in 1..len : len - i \in 0..7
    BY <1>2
  <2>2. QED
    BY <2>1, Powers, DivMod
<1> HIDE DEF len
<1>4. /\ B = [i \in 1..len |-> (v \div Power[len - i]) % Radix]
      /\ \A i \in 1..len : B[i] = (v \div Power[len - i]) % Radix /\ B[i] \in Byte
  BY <1>3, ByteLow DEF BigEndian
<1>5. 1 \in 1..len /\ B[1] % Low = x /\ x \in 0..(Low - 1)
  <2> DEFINE y == v \div Power[len - 1]
  <2>1. 1 \in 1..len /\ y \in Nat
    BY <1>2, <1>3
  <2>2. B[1] = y % Radix
    BY <1>4, <2>1
  <2> HIDE DEF y
  <2>3. (y % Radix) % Low = y % Low /\ y % Low \in 0..(Low - 1)
    BY <2>1, ByteLow
  <2>4. x = y % Low
    BY DEF x, y
  <2>5. QED
    BY <2>1, <2>2, <2>3, <2>4
<1> HIDE DEF B, x, t
<1>6. E = [B EXCEPT ![1] = x + t * Low]
  BY <1>4, <1>5 DEF EncodeVarint, len, B, t
<1>7. x + t * Low \in Byte
  <2>1. t = 0 \/ t = 1 \/ t = 2 \/ t = 3
    BY <1>2
  <2>2. QED
    BY <2>1, <1>5, Bases DEF Byte
<1> DEFINE h == x + t * Low
<1>8. h \div Low = t /\ h % Low = x
  <2>1. h = t * Low + x
    BY <1>2, <1>5, Bases
  <2> HIDE DEF h
  <2>2. h \in Nat
    BY <1>7 DEF h, Byte
  <2>3. QED
    BY <2>1, <2>2, <1>2, <1>5, DivModIs, Bases
<1> HIDE DEF h
<1>9. /\ B \in [1..len -> Byte] /\ E = [B EXCEPT ![1] = h] /\ h \in Byte
  BY <1>4, <1>6, <1>7 DEF h
<1>10. E \in [1..len -> Byte] /\ E[1] = h /\ \A i \in 2..len : E[i] = B[i]
  BY <1>2, <1>5, <1>9
<1> HIDE DEF E
<1>11. E \in Seq(Byte) /\ Len(E) = len
  BY <1>2, <1>10
<1>12. E # <<>> /\ Head(E) = h
  BY <1>2, <1>10, <1>11
<1>13. PrefixLen(h) = len
  BY <1>2, <1>8 DEF PrefixLen
<1>14. \A i \in 2..len : E[i] = (v \div Power[len - i]) % Radix
  BY <1>4, <1>10
<1>15. QED
  BY <1>1, <1>8, <1>11, <1>12, <1>13, <1>14 DEF x, len, E

\* What decode_varint computes byte by byte, step by step.
LEMMA HornerRuns ==
    ASSUME NEW len \in Lens, NEW b \in Seq(Byte), len <= Len(b)
    PROVE  \E g \in [0..(len - 1) -> Nat] :
             /\ g[0] = Head(b) % Low /\ \A n \in 1..(len - 1) : g[n] = g[n - 1] * Radix + b[n + 1]
             /\ Horner(b, len) = g[len - 1]
<1> DEFINE N == len - 1
           e == Head(b) % Low
           F == [n \in 1..N |-> [x \in Nat |-> x * Radix + b[n + 1]]]
           Is(f) == f = [i \in 0..(len - 1) |->
                           IF i = 0 THEN Head(b) % Low ELSE f[i - 1] * Radix + b[i + 1]]
           h == CHOOSE f : Is(f)
<1>1. N \in Nat /\ len - 1 = N /\ \A n \in 1..N : n + 1 \in 1..Len(b)
  BY DEF Lens
<1>2. \A n \in 1..N : b[n + 1] \in Nat
  BY <1>1, Bases DEF Byte
<1>3. Head(b) \in Byte
  <2>1. Len(b) # 0
    BY DEF Lens
  <2>2. b # <<>>
    BY <2>1, EmptySeq
  <2>3. QED
    BY <2>2, HeadTailProperties
<1>4. e \in Nat
  BY <1>3, Bases DEF Byte
<1>5. F \in [1..N -> [Nat -> Nat]] /\ \A n \in 1..N : \A x \in Nat : F[n][x] = x * Radix + b[n + 1]
  <2>1. \A n \in 1..N : \A x \in Nat : x * Radix + b[n + 1] \in Nat
    BY <1>2, Bases
  <2>2. QED
    BY <2>1
<1> HIDE DEF F, N, e
<1>6. PICK g : Runs(g, Nat, e, F, N)
  BY <1>1, <1>4, <1>5, RunExists
<1>7. g \in [0..N -> Nat] /\ g[0] = e /\ \A n \in 1..N : g[n] = g[n - 1] * Radix + b[n + 1]
  <2>1. g \in [0..N -> Nat] /\ g[0] = e /\ \A n \in 1..N : g[n] = F[n][g[n - 1]]
    BY <1>6 DEF Runs
  <2>2. \A n \in 1..N : g[n - 1] \in Nat
    BY <2>1, <1>1
  <2>3. QED
    BY <2>1, <2>2, <1>5
<1>8. Is(g)
  BY <1>1, <1>7 DEF e, N
<1>9. Horner(b, len) = h[len - 1]
  BY DEF Horner
<1> HIDE DEF Is
<1>10. Is(h)
  BY <1>8
<1> HIDE DEF h
<1>11. h = [i \in 0..N |-> IF i = 0 THEN e ELSE h[i - 1] * Radix + b[i + 1]]
  BY <1>10 DEF Is, e, N
<1>12. h[0] = e /\ \A n \in 1..N : h[n] = h[n - 1] * Radix + b[n + 1]
  BY <1>1, <1>11
<1> DEFINE T == {n \in Nat : n <= N => h[n] = g[n]}
<1>13. T \subseteq Nat /\ 0 \in T
  BY <1>7, <1>12
<1>14. ASSUME NEW n \in T PROVE n + 1 \in T
  <2>1. n \in Nat /\ n + 1 \in Nat /\ (n + 1) - 1 = n
    OBVIOUS
  <2>2. ASSUME n + 1 <= N PROVE h[n + 1] = g[n + 1]
    <3>1. n + 1 \in 1..N /\ h[n] = g[n]
      BY <1>1, <2>1, <2>2
    <3>2. QED
      BY <1>7, <1>12, <2>1, <3>1
  <2>3. QED
    BY <2>1, <2>2
<1>15. N \in T
  <2> HIDE DEF T
  <2>1. T = Nat
    BY <1>13, <1>14, Induct
  <2>2. QED
    BY <1>1, <2>1
<1>16. h[N] = g[N]
  BY <1>1, <1>15
<1>17. Horner(b, len) = g[N]
  BY <1>1, <1>9, <1>16
<1>18. QED
  BY <1>7, <1>17 DEF e, N

\* What follows the tag and the high bits adds up to the number.
LEMMA HornerIs ==
    ASSUME NEW v \in Nat, NEW b \in Seq(Byte), Agree(b, EncodeVarint(v)), VarintLen(v) <= Len(b)
    PROVE  Horner(b, VarintLen(v)) = v % Limit(VarintLen(v))
<1> DEFINE len == VarintLen(v)
           N == len - 1
           E == EncodeVarint(v)
<1>1. /\ len \in Lens /\ E \in Seq(Byte) /\ Len(E) = len /\ E # <<>>
      /\ Head(E) % Low = (v \div Power[len - 1]) % Low
      /\ \A i \in 2..len : E[i] = (v \div Power[len - i]) % Radix
  BY VarintBytes
<1>2. len \in 1..8 /\ N \in 0..7 /\ len - 1 = N /\ len <= Len(b) /\ Len(b) \in Nat
  BY <1>1, LenTags
<1> HIDE DEF len, E, N
<1>3. Agree(b, E) /\ b # <<>>
  BY <1>2 DEF E
<1>4. Head(b) = Head(E)
  BY <1>1, <1>3, AgreeStart
<1>5. ASSUME NEW n \in 1..N PROVE b[n + 1] = (v \div Power[N - n]) % Radix
  <2>1. n + 1 \in 2..len /\ n + 1 \in 1..Len(b) /\ n + 1 <= Len(E) /\ len - (n + 1) = N - n
    BY <1>1, <1>2
  <2>2. b[n + 1] = E[n + 1]
    BY <1>3, <2>1 DEF Agree
  <2>3. QED
    BY <1>1, <2>1, <2>2
<1>6. PICK g \in [0..(len - 1) -> Nat] :
             /\ g[0] = Head(b) % Low /\ \A n \in 1..(len - 1) : g[n] = g[n - 1] * Radix + b[n + 1]
             /\ Horner(b, len) = g[len - 1]
  BY <1>1, <1>2, HornerRuns
<1>7. /\ g \in [0..N -> Nat] /\ g[0] = Head(b) % Low /\ Horner(b, len) = g[N]
      /\ \A n \in 1..N : g[n] = g[n - 1] * Radix + b[n + 1]
  BY <1>2, <1>6
<1> DEFINE T == {n \in Nat : n <= N => g[n] = (v \div Power[N - n]) % Limit(n + 1)}
<1>8. T \subseteq Nat /\ 0 \in T
  <2>1. N - 0 = N /\ 0 + 1 = 1 /\ Limit(1) = Low
    BY <1>2, Limits
  <2>2. g[0] = (v \div Power[N]) % Low
    BY <1>1, <1>2, <1>4, <1>7
  <2>3. QED
    BY <2>1, <2>2
<1>9. ASSUME NEW n \in T PROVE n + 1 \in T
  <2>1. n \in Nat /\ n + 1 \in Nat /\ (n + 1) - 1 = n
    OBVIOUS
  <2>2. ASSUME n + 1 <= N PROVE g[n + 1] = (v \div Power[N - (n + 1)]) % Limit((n + 1) + 1)
    <3> DEFINE k == n + 1
               c == v \div Power[N - k]
               m == Limit(k)
               o == Limit(k + 1)
    <3>1. k \in 1..N /\ k \in 1..7 /\ k \in 1..8 /\ k + 1 \in 1..8 /\ N - k \in 0..7
          /\ N - n \in 1..7 /\ (N - n) - 1 = N - k /\ n = k - 1
      BY <1>2, <2>1, <2>2
    <3>2. /\ m \in Nat /\ m > 0 /\ o \in Nat /\ o = m * Radix
          /\ Power[N - k] \in Nat /\ Power[N - k] > 0 /\ Power[N - n] \in Nat
      <4>1. /\ Limit(k) \in Nat /\ Limit(k) > 0 /\ Limit(k + 1) \in Nat
            /\ Limit(k + 1) = Limit(k) * Radix
        BY <3>1, Limits
      <4>2. N - n \in 0..7
        BY <3>1
      <4>3. Power[N - k] \in Nat /\ Power[N - k] > 0 /\ Power[N - n] \in Nat
        BY <3>1, <4>2, Powers
      <4>4. QED
        BY <4>1, <4>3
    <3>3. Power[N - n] = Power[N - k] * Radix
      <4>1. Power[N - n] = Radix * Power[N - k]
        BY <3>1, Powers
      <4>2. QED
        BY <3>2, <4>1, Bases
    <3>4. v \div Power[N - n] = c \div Radix /\ c \in Nat
      <4> DEFINE p == Power[N - k]
                 q == Power[N - n]
      <4>1. p \in Nat /\ p > 0 /\ q \in Nat /\ q = p * Radix /\ Radix \in Nat /\ Radix > 0
        BY <3>2, <3>3, Bases
      <4> HIDE DEF p, q
      <4>2. v \div q = (v \div p) \div Radix
        BY <4>1, DivMul
      <4>3. v \div p \in Nat
        BY <4>1, DivMod
      <4>4. QED
        BY <4>2, <4>3 DEF p, q
    <3>5. g[n] = (v \div Power[N - n]) % m
      BY <2>1, <2>2, <1>2
    <3>6. g[k] = g[n] * Radix + b[k + 1] /\ b[k + 1] = c % Radix
      BY <1>5, <1>7, <3>1
    <3> HIDE DEF c, m, o, k
    <3>10. /\ m \in Nat /\ m > 0 /\ o \in Nat /\ o = m * Radix /\ c \in Nat
          /\ Radix \in Nat /\ Radix > 0
      BY <3>2, <3>4, Bases
    <3>7. ((c \div Radix) % m) * Radix + (c % Radix) = c % o
      <4>1. HornerCut(c, Radix, m, o)
        BY <3>10, HornerStep
      <4>2. QED
        BY <4>1 DEF HornerCut
    <3>8. g[k] = c % o
      BY <3>4, <3>5, <3>6, <3>7
    <3>9. QED
      BY <3>8 DEF c, m, o, k
  <2>3. QED
    BY <2>1, <2>2
<1>10. N \in T
  <2> HIDE DEF T
  <2>1. T = Nat
    BY <1>8, <1>9, Induct
  <2>2. QED
    BY <1>2, <2>1
<1>11. g[N] = (v \div Power[N - N]) % Limit(N + 1)
  BY <1>2, <1>10
<1>12. N - N = 0 /\ N + 1 = len /\ Power[0] = 1 /\ v \div 1 = v
  BY <1>2, Powers
<1>13. QED
  BY <1>7, <1>11, <1>12 DEF len

\* r is what decoding b must give, where the bytes of x are E and b begins like E.
Decodes(r, b, E, x) ==
    /\ Len(E) <= Len(b) => r = Ok(x, Len(E))
    /\ Len(b) < Len(E) => r.error = "eof"

LEMMA Outcomes ==
    /\ \A x, n : ~Failed(Ok(x, n)) /\ Ok(x, n).value = x /\ Ok(x, n).used = n
                 /\ Ok(x, n).error = "none"
    /\ Failed(UnexpectedEof) /\ UnexpectedEof.error = "eof"
    /\ Failed(InvalidData) /\ InvalidData.error = "invalid"
    /\ \A r : r.error = "eof" => Failed(r)
BY DEF Failed, Ok, UnexpectedEof, InvalidData

LEMMA SmallMod ==
    ASSUME NEW m \in Nat, NEW a \in Nat, a < m
    PROVE  a % m = a
BY DivModIs

\* decode_varint gives back what encode_varint wrote, in 62 bits, and how long
\* it was, whatever follows; of a varint that was cut it says UnexpectedEof.
THEOREM VarintDecodes ==
    ASSUME NEW v \in Nat, NEW b \in Seq(Byte), Agree(b, EncodeVarint(v))
    PROVE  Decodes(DecodeVarint(b), b, EncodeVarint(v), Wire62(v))
<1> DEFINE len == VarintLen(v)
           E == EncodeVarint(v)
<1>1. /\ len \in Lens /\ E \in Seq(Byte) /\ Len(E) = len /\ E # <<>> /\ PrefixLen(Head(E)) = len
  BY VarintBytes
<1>2. CASE b = <<>>
  <2>1. DecodeVarint(b) = UnexpectedEof /\ Len(b) = 0
    BY <1>2 DEF DecodeVarint
  <2>2. Len(E) # 0
    BY <1>1 DEF Lens
  <2>3. QED
    BY <1>1, <2>1, <2>2, Outcomes DEF Decodes, Lens
<1>3. CASE b # <<>>
  <2>1. PrefixLen(Head(b)) = len
    BY <1>1, <1>3, AgreeStart
  <2>2. DecodeVarint(b) = IF Len(b) < len THEN UnexpectedEof ELSE Ok(Horner(b, len), len)
    BY <1>3, <2>1 DEF DecodeVarint
  <2>3. CASE len <= Len(b)
    <3>1. Horner(b, len) = v % Limit(len)
      BY <2>3, HornerIs
    <3>2. v % Limit(len) = Wire62(v)
      <4>1. CASE len = 8
        BY <4>1 DEF Wire62
      <4>2. CASE len # 8
        <5>1. v < Limit(len) /\ len \in {1, 2, 4}
          BY <1>1, <4>2 DEF VarintLen, Lens
        <5>2. /\ Limit(1) \in Nat /\ Limit(2) \in Nat /\ Limit(4) \in Nat /\ Limit(8) \in Nat
              /\ Limit(1) < Limit(8) /\ Limit(2) < Limit(8) /\ Limit(4) < Limit(8)
          <6>1. Limit(1) \in Nat /\ Limit(2) \in Nat /\ Limit(4) \in Nat /\ Limit(8) \in Nat
            BY Limits
          <6>2. QED
            BY <6>1, Limits
        <5> HIDE DEF len
        <5>3. Limit(len) \in Nat /\ v < Limit(8)
          BY <5>1, <5>2
        <5>4. v % Limit(len) = v /\ v % Limit(8) = v
          BY <5>1, <5>2, <5>3, SmallMod
        <5>5. QED
          BY <5>4 DEF Wire62
      <4>3. QED
        BY <4>1, <4>2
    <3>3. ~(Len(b) < len)
      BY <1>1, <2>3 DEF Lens
    <3>4. QED
      BY <1>1, <2>2, <3>1, <3>2, <3>3 DEF Decodes
  <2>4. CASE Len(b) < len
    <3>1. ~(Len(E) <= Len(b))
      BY <1>1, <2>4 DEF Lens
    <3>2. QED
      BY <2>2, <2>4, <3>1, Outcomes DEF Decodes
  <2>5. QED
    BY <1>1, <2>3, <2>4 DEF Lens
<1>4. QED
  BY <1>2, <1>3

LEMMA LengthFits ==
    ASSUME NEW n \in Nat, n < Limit(8)
    PROVE  Wire62(n) = n
<1>1. Limit(8) \in Nat
  BY Limits
<1>2. QED
  BY <1>1, SmallMod DEF Wire62

----------------------------------------------------------------------------
(* Byte strings and addresses. *)

LEMMA BytesEncoded ==
    ASSUME NEW s \in Seq(Byte)
    PROVE  /\ EncodeVarint(Len(s)) \in Seq(Byte) /\ Len(EncodeVarint(Len(s))) \in Nat
           /\ EncodeBytes(s) \in Seq(Byte)
           /\ Len(EncodeBytes(s)) = Len(EncodeVarint(Len(s))) + Len(s)
           /\ Len(EncodeBytes(s)) \in Nat /\ Len(s) \in Nat
<1>1. Len(s) \in Nat
  OBVIOUS
<1>2. EncodeVarint(Len(s)) \in Seq(Byte)
  BY <1>1, VarintBytes
<1>3. QED
  BY <1>1, <1>2, ConcatProperties DEF EncodeBytes

\* Reader::bytes, likewise.
LEMMA BytesDecode ==
    ASSUME NEW s \in Seq(Byte), Len(s) < Limit(8), NEW b \in Seq(Byte), Agree(b, EncodeBytes(s))
    PROVE  Decodes(DecodeBytes(b), b, EncodeBytes(s), s)
<1> DEFINE V == EncodeVarint(Len(s))
           E == EncodeBytes(s)
           r == DecodeVarint(b)
<1>1. /\ V \in Seq(Byte) /\ Len(V) \in Nat /\ Len(E) = Len(V) + Len(s)
      /\ Len(s) \in Nat /\ Len(b) \in Nat
  BY BytesEncoded
<1>2. Agree(b, V) /\ (Len(V) <= Len(b) => Agree(From(b, Len(V)), s))
  BY <1>1, AgreeSplit DEF EncodeBytes
<1>3. Decodes(r, b, V, Len(s))
  BY <1>1, <1>2, VarintDecodes, LengthFits
<1>4. DecodeBytes(b) = IF Failed(r) THEN r
                       ELSE IF Len(b) < r.used + r.value THEN UnexpectedEof
                       ELSE Ok(SubSeq(b, r.used + 1, r.used + r.value), r.used + r.value)
  BY DEF DecodeBytes
<1> HIDE DEF V, E, r
<1>5. CASE Len(b) < Len(V)
  <2>1. r.error = "eof"
    BY <1>3, <1>5 DEF Decodes
  <2>2. DecodeBytes(b) = r
    BY <1>4, <2>1, Outcomes
  <2>3. ~(Len(E) <= Len(b))
    BY <1>1, <1>5
  <2>4. QED
    BY <2>1, <2>2, <2>3 DEF Decodes, E
<1>6. CASE Len(V) <= Len(b)
  <2>1. r = Ok(Len(s), Len(V))
    BY <1>3, <1>6 DEF Decodes
  <2>2. ~Failed(r) /\ r.used = Len(V) /\ r.value = Len(s)
    BY <2>1, Outcomes
  <2>3. CASE Len(E) <= Len(b)
    <3>1. SubSeq(b, Len(V) + 1, Len(V) + Len(s)) = s
      BY <1>1, <1>2, <1>6, <2>3, AgreeWhole
    <3>2. ~(Len(b) < Len(V) + Len(s))
      BY <1>1, <2>3
    <3>3. DecodeBytes(b) = Ok(s, Len(E))
      BY <1>1, <1>4, <2>2, <3>1, <3>2
    <3>4. QED
      BY <1>1, <2>3, <3>3 DEF Decodes, E
  <2>4. CASE Len(b) < Len(E)
    <3>1. DecodeBytes(b) = UnexpectedEof
      BY <1>1, <1>4, <2>2, <2>4
    <3>2. QED
      BY <1>1, <2>4, <3>1, Outcomes DEF Decodes, E
  <2>5. QED
    BY <1>1, <2>3, <2>4
<1>7. QED
  BY <1>1, <1>5, <1>6

LEMMA OctetsDecode ==
    ASSUME NEW s \in Seq(Byte), NEW b \in Seq(Byte), Agree(b, s)
    PROVE  Decodes(DecodeOctets(b, Len(s)), b, s, s)
<1>1. Len(s) \in Nat /\ Len(b) \in Nat /\ 0 \in 0..Len(b) /\ 0 + 1 = 1 /\ 0 + Len(s) = Len(s)
  OBVIOUS
<1>2. CASE Len(s) <= Len(b)
  <2>1. Agree(From(b, 0), s)
    BY <1>1, SubSeqFull DEF From
  <2>2. SubSeq(b, 1, Len(s)) = s
    <3>1. SubSeq(b, 0 + 1, 0 + Len(s)) = s
      BY <1>1, <1>2, <2>1, AgreeWhole
    <3>2. QED
      BY <1>1, <3>1
  <2>3. ~(Len(b) < Len(s))
    BY <1>1, <1>2
  <2>4. DecodeOctets(b, Len(s)) = Ok(s, Len(s))
    BY <2>2, <2>3 DEF DecodeOctets
  <2>5. QED
    BY <2>3, <2>4 DEF Decodes
<1>3. CASE Len(b) < Len(s)
  BY <1>1, <1>3, Outcomes DEF Decodes, DecodeOctets
<1>4. QED
  BY <1>1, <1>2, <1>3

\* An address as Addresses has them.
WellFormed(a) ==
    /\ a = Address(a.type, a.host, a.port) /\ a.type \in {V4, V6, DOMAIN_NAME}
    /\ a.host \in Seq(Byte) /\ a.port \in Seq(Byte) /\ Len(a.port) = PortLen
    /\ a.type # DOMAIN_NAME => Len(a.host) = HostLen(a.type)
    /\ a.type = DOMAIN_NAME =>
         Len(a.host) < Radix /\ \A i \in DOMAIN a.host : a.host[i] < 2 * Low

\* The bytes of the host, as the address has them.
HostBytes(a) == IF a.type = DOMAIN_NAME THEN EncodeBytes(a.host) ELSE a.host

LEMMA RadixFits == Radix \in Nat /\ Radix < Limit(8) /\ 2 \in Byte /\ {V4, V6, DOMAIN_NAME} \subseteq Byte
<1>1. Limit(1) = Low /\ Limit(2) = Limit(1) * Radix
  <2>1. 1 + 1 = 2 /\ 1 \in 1..7
    OBVIOUS
  <2>2. QED
    BY <2>1, Limits
<1>2. Limit(2) \in Nat /\ Limit(4) \in Nat /\ Limit(8) \in Nat /\ Limit(2) < Limit(4) /\ Limit(4) < Limit(8)
  <2>1. 2 \in 1..8 /\ 4 \in 1..8 /\ 8 \in 1..8
    OBVIOUS
  <2>2. QED
    BY <2>1, Limits
<1>3. Limit(2) >= Radix
  BY <1>1, <1>2, Bases
<1>4. QED
  BY <1>2, <1>3, Bases DEF Byte, V4, V6, DOMAIN_NAME

LEMMA OneByte ==
    ASSUME NEW x \in Byte
    PROVE  <<x>> \in Seq(Byte) /\ Len(<<x>>) = 1 /\ <<x>>[1] = x /\ Head(<<x>>) = x
OBVIOUS

\* The host of an address, from the bytes behind its type.
LEMMA HostDecodes ==
    ASSUME NEW a, WellFormed(a), NEW b \in Seq(Byte), Agree(b, HostBytes(a))
    PROVE  /\ HostBytes(a) \in Seq(Byte)
           /\ Decodes(IF a.type = DOMAIN_NAME THEN DecodeBytes(b) ELSE DecodeOctets(b, HostLen(a.type)),
                      b, HostBytes(a), a.host)
<1>1. CASE a.type = DOMAIN_NAME
  <2>1. Len(a.host) < Limit(8) /\ a.host \in Seq(Byte)
    <3>1. Len(a.host) < Radix /\ a.host \in Seq(Byte) /\ Len(a.host) \in Nat
      BY <1>1 DEF WellFormed
    <3>2. Limit(8) \in Nat
      BY Limits
    <3>3. QED
      BY <3>1, <3>2, RadixFits
  <2>2. HostBytes(a) = EncodeBytes(a.host)
    BY <1>1 DEF HostBytes
  <2>3. QED
    BY <1>1, <2>1, <2>2, BytesDecode, BytesEncoded
<1>2. CASE a.type # DOMAIN_NAME
  <2>1. HostBytes(a) = a.host /\ a.host \in Seq(Byte) /\ Len(a.host) = HostLen(a.type)
    BY <1>2 DEF HostBytes, WellFormed
  <2>2. QED
    BY <1>2, <2>1, OctetsDecode
<1>3. QED
  BY <1>1, <1>2

LEMMA NamesStay ==
    ASSUME NEW s \in Seq(Byte), \A i \in DOMAIN s : s[i] < 2 * Low
    PROVE  Lossy(s) = s
BY DEF Lossy

LEMMA AddressEncoded ==
    ASSUME NEW a, WellFormed(a)
    PROVE  /\ HostBytes(a) \in Seq(Byte) /\ a.port \in Seq(Byte) /\ <<a.type>> \in Seq(Byte)
           /\ EncodeAddress(a) = <<a.type>> \o (HostBytes(a) \o a.port)
           /\ EncodeAddress(a) \in Seq(Byte)
           /\ Len(EncodeAddress(a)) = 1 + Len(HostBytes(a)) + PortLen
           /\ Len(HostBytes(a)) \in Nat
<1>1. HostBytes(a) \in Seq(Byte) /\ a.port \in Seq(Byte) /\ Len(a.port) = PortLen
  <2>1. a.host \in Seq(Byte) /\ a.port \in Seq(Byte) /\ Len(a.port) = PortLen
    BY DEF WellFormed
  <2>2. EncodeBytes(a.host) \in Seq(Byte)
    BY <2>1, BytesEncoded
  <2>3. QED
    BY <2>1, <2>2 DEF HostBytes
<1>2. <<a.type>> \in Seq(Byte) /\ Len(<<a.type>>) = 1
  BY OneByte, RadixFits DEF WellFormed
<1>3. EncodeAddress(a) = (<<a.type>> \o HostBytes(a)) \o a.port
  BY DEF EncodeAddress, HostBytes
<1> DEFINE y == HostBytes(a)
           z == a.port
           x == <<a.type>>
<1>4. x \in Seq(Byte) /\ y \in Seq(Byte) /\ z \in Seq(Byte) /\ Len(x) = 1 /\ Len(z) = PortLen
  BY <1>1, <1>2
<1> HIDE DEF x, y, z
<1>5. /\ (x \o y) \o z = x \o (y \o z) /\ (x \o y) \o z \in Seq(Byte)
      /\ Len((x \o y) \o z) = Len(x) + (Len(y) + Len(z)) /\ Len(y) \in Nat
  <2>1. /\ (x \o y) \o z = x \o (y \o z) /\ x \o (y \o z) \in Seq(Byte)
        /\ Len(x \o (y \o z)) = Len(x) + (Len(y) + Len(z)) /\ Len(y) \in Nat
    BY <1>4, Concat3
  <2>2. QED
    BY <2>1
<1>6. Len((x \o y) \o z) = 1 + Len(y) + PortLen
  BY <1>4, <1>5 DEF PortLen
<1>7. QED
  BY <1>1, <1>2, <1>3, <1>5, <1>6 DEF x, y, z

\* Address::decode gives back what Address::encode wrote, of every type, and
\* how long it was, whatever follows; cut, it says UnexpectedEof.
THEOREM AddressDecodes ==
    ASSUME NEW a, WellFormed(a), NEW b \in Seq(Byte), Agree(b, EncodeAddress(a))
    PROVE  Decodes(DecodeAddress(b), b, EncodeAddress(a), a)
<1> DEFINE E == EncodeAddress(a)
           H == HostBytes(a)
           c == From(b, 1)
           h == IF a.type = DOMAIN_NAME THEN DecodeBytes(Tail(b)) ELSE DecodeOctets(Tail(b), HostLen(a.type))
           end == 1 + h.used + PortLen
           x == IF a.type = DOMAIN_NAME THEN Lossy(h.value) ELSE h.value
<1>1. /\ H \in Seq(Byte) /\ a.port \in Seq(Byte) /\ <<a.type>> \in Seq(Byte)
      /\ E = <<a.type>> \o (H \o a.port) /\ H \o a.port \in Seq(Byte)
      /\ E \in Seq(Byte) /\ Len(E) = 1 + Len(H) + PortLen /\ Len(H) \in Nat /\ Len(b) \in Nat
      /\ a.type \in {V4, V6, DOMAIN_NAME} /\ Len(a.port) = PortLen
  <2>1. H \o a.port \in Seq(Byte)
    BY AddressEncoded, ConcatProperties
  <2>2. a.type \in {V4, V6, DOMAIN_NAME} /\ Len(a.port) = PortLen
    BY DEF WellFormed
  <2>3. Len(b) \in Nat
    OBVIOUS
  <2>4. QED
    BY <2>1, <2>2, <2>3, AddressEncoded
<1>2. CASE b = <<>>
  BY <1>1, <1>2, Outcomes DEF DecodeAddress, Decodes, PortLen
<1>3. CASE b # <<>>
  <2>1. Len(b) >= 1 /\ Len(<<a.type>>) = 1 /\ 1 \in 0..Len(b)
    BY <1>1, <1>3, EmptySeq
  <2>2. Agree(b, <<a.type>>) /\ Agree(c, H \o a.port)
    <3> DEFINE s == <<a.type>>
               t == H \o a.port
    <3>1. s \in Seq(Byte) /\ t \in Seq(Byte) /\ Len(s) = 1 /\ Agree(b, s \o t)
      BY <1>1, <2>1
    <3> HIDE DEF s, t
    <3>2. Agree(b, s) /\ (Len(s) <= Len(b) => Agree(From(b, Len(s)), t))
      BY <3>1, AgreeSplit
    <3>3. Agree(b, s) /\ Agree(From(b, 1), t)
      BY <2>1, <3>1, <3>2
    <3>4. QED
      BY <3>3 DEF s, t
  <2>3. Head(b) = a.type
    <3>1. <<a.type>> # <<>> /\ Head(<<a.type>>) = a.type
      OBVIOUS
    <3>2. QED
      BY <1>1, <1>3, <2>2, <3>1, AgreeStart
  <2>4. c = Tail(b) /\ c \in Seq(Byte) /\ Len(c) = Len(b) - 1
    <3>1. Tail(b) = SubSeq(b, 2, Len(b)) /\ 1 + 1 = 2
      BY <1>3, TailIsSubSeq
    <3>2. c = Tail(b)
      BY <3>1 DEF From
    <3>3. QED
      BY <2>1, <3>2, Behind
  <2>5. Agree(c, H) /\ (Len(H) <= Len(c) => Agree(From(c, Len(H)), a.port))
    BY <1>1, <2>2, <2>4, AgreeSplit
  <2>6. Decodes(h, c, H, a.host)
    BY <2>4, <2>5, HostDecodes
  <2>7. DecodeAddress(b) = IF Failed(h) THEN h ELSE IF Len(b) < end THEN UnexpectedEof
                           ELSE Ok(Address(a.type, x, SubSeq(b, end - PortLen + 1, end)), end)
    BY <1>1, <1>3, <2>3 DEF DecodeAddress
  <2> HIDE DEF h, x, E, H, c
  <2>8. CASE Len(c) < Len(H)
    <3>1. h.error = "eof" /\ Failed(h)
      BY <2>6, <2>8, Outcomes DEF Decodes
    <3>2. ~(Len(E) <= Len(b))
      BY <1>1, <2>4, <2>8 DEF PortLen
    <3>3. QED
      BY <2>7, <3>1, <3>2 DEF Decodes, E
  <2>9. CASE Len(H) <= Len(c)
    <3>1. h = Ok(a.host, Len(H))
      BY <2>6, <2>9 DEF Decodes
    <3>2. ~Failed(h) /\ h.used = Len(H) /\ h.value = a.host /\ end = Len(E)
      BY <1>1, <3>1, Outcomes
    <3>3. x = a.host
      BY <3>2, NamesStay DEF x, WellFormed
    <3>4. CASE Len(b) < Len(E)
      <4>1. DecodeAddress(b) = UnexpectedEof /\ ~(Len(E) <= Len(b))
        BY <1>1, <2>7, <3>2, <3>4 DEF PortLen
      <4>2. QED
        BY <4>1, Outcomes DEF Decodes, E
    <3>5. CASE Len(E) <= Len(b)
      <4> DEFINE k == 1 + Len(H)
      <4>1. k \in 0..Len(b) /\ k + Len(a.port) <= Len(b) /\ Agree(From(b, k), a.port)
        <5>1. Len(H) \in 0..(Len(b) - 1) /\ k \in 0..Len(b) /\ k + Len(a.port) <= Len(b)
          BY <1>1, <2>1, <2>4, <2>9, <3>5 DEF PortLen
        <5>2. From(c, Len(H)) = From(b, k)
          BY <2>1, <5>1, BehindTwice DEF c
        <5>3. QED
          BY <2>5, <2>9, <5>1, <5>2
      <4> HIDE DEF k
      <4>2. SubSeq(b, k + 1, k + Len(a.port)) = a.port
        BY <1>1, <4>1, AgreeWhole
      <4>3. end - PortLen + 1 = k + 1 /\ end = k + Len(a.port)
        BY <1>1, <3>2 DEF PortLen, k
      <4>6. SubSeq(b, end - PortLen + 1, end) = a.port
        BY <4>2, <4>3
      <4>7. ~(Len(b) < Len(E))
        BY <1>1, <3>5 DEF PortLen
      <4>4. DecodeAddress(b) = Ok(Address(a.type, a.host, a.port), Len(E)) /\ ~(Len(b) < Len(E))
        BY <2>7, <3>2, <3>3, <4>6, <4>7
      <4>5. QED
        BY <4>4 DEF Decodes, E, WellFormed
    <3>6. QED
      BY <1>1, <3>4, <3>5 DEF PortLen
  <2>10. QED
    BY <1>1, <2>4, <2>8, <2>9
<1>4. QED
  BY <1>2, <1>3

----------------------------------------------------------------------------
(* Fields. *)

AllFields == {Octets(1), Octets(2), Octets(4), Varint, Bytes, Addr, Body, Zero, Rest}

\* What a field may hold, and what is read back of it: a number is cut to 62 bits.
Fit(field, v) ==
    \/ field.kind = "varint" /\ v \in Nat
    \/ field.kind \in {"bytes", "body"} /\ v \in Seq(Byte) /\ Len(v) < Limit(8)
    \/ field.kind = "address" /\ WellFormed(v)
    \/ field.kind = "octets" /\ v \in Seq(Byte) /\ Len(v) = field.n
    \/ field.kind = "zero" /\ v \in {<<0>>, <<1>>}
    \/ field.kind = "rest" /\ v \in Seq(Byte)
Means(field, v) == IF field.kind = "varint" THEN Wire62(v) ELSE v

\* What the decoder refuses although the encoder writes it.
Bad(field, v) ==
    \/ field.kind = "body" /\ Len(v) > MAX_BODY_LEN
    \/ field.kind = "zero" /\ v # <<0>>

FieldRead(field, v, b) ==
    \/ Decodes(DecodeField(field, b), b, EncodeField(field, v), Means(field, v))
    \/ DecodeField(field, b).error = "invalid" /\ Bad(field, v)

LEMMA Kinds ==
    ASSUME NEW field \in AllFields
    PROVE  /\ field.kind \in {"varint", "bytes", "body", "address", "octets", "zero", "rest"}
           /\ field.kind = "rest" <=> field = Rest
BY DEF AllFields, Octets, Varint, Bytes, Addr, Body, Zero, Rest

\* Every field is written as bytes.
LEMMA FieldEncoded ==
    ASSUME NEW field, NEW v, Fit(field, v)
    PROVE  EncodeField(field, v) \in Seq(Byte) /\ Len(EncodeField(field, v)) \in Nat
<1>1. CASE field.kind = "varint" /\ v \in Nat
  <2>1. EncodeField(field, v) = EncodeVarint(v)
    BY <1>1 DEF EncodeField
  <2>2. EncodeVarint(v) \in Seq(Byte)
    BY <1>1, VarintBytes
  <2>3. QED
    BY <2>1, <2>2, LenProperties
<1>2. CASE field.kind \in {"bytes", "body"} /\ v \in Seq(Byte)
  <2>1. EncodeField(field, v) = EncodeBytes(v)
    BY <1>2 DEF EncodeField
  <2>2. QED
    BY <1>2, <2>1, BytesEncoded
<1>3. CASE field.kind = "address" /\ WellFormed(v)
  <2>1. EncodeField(field, v) = EncodeAddress(v)
    BY <1>3 DEF EncodeField
  <2>2. EncodeAddress(v) \in Seq(Byte)
    BY <1>3, AddressEncoded
  <2>3. QED
    BY <2>1, <2>2, LenProperties
<1>4. CASE field.kind \in {"octets", "zero", "rest"} /\ v \in Seq(Byte)
  <2>1. EncodeField(field, v) = v
    BY <1>4 DEF EncodeField
  <2>2. QED
    BY <1>4, <2>1, LenProperties
<1>5. {<<0>>, <<1>>} \subseteq Seq(Byte)
  <2>1. 0 \in Byte /\ 1 \in Byte
    BY Bases DEF Byte
  <2>2. QED
    BY <2>1
<1>6. QED
  BY <1>1, <1>2, <1>3, <1>4, <1>5 DEF Fit

\* The body of a frame, likewise, but for one that is too long.
LEMMA BodyDecodes ==
    ASSUME NEW v \in Seq(Byte), Len(v) < Limit(8), NEW b \in Seq(Byte), Agree(b, EncodeBytes(v))
    PROVE  \/ Decodes(DecodeBody(b), b, EncodeBytes(v), v)
           \/ DecodeBody(b).error = "invalid" /\ Len(v) > MAX_BODY_LEN
<1> DEFINE r == DecodeVarint(b)
           V == EncodeVarint(Len(v))
<1>1. Decodes(DecodeBytes(b), b, EncodeBytes(v), v)
  BY BytesDecode
<1>2. DecodeBody(b) = IF ~Failed(r) /\ r.value > MAX_BODY_LEN THEN InvalidData ELSE DecodeBytes(b)
  BY DEF DecodeBody
<1>3. V \in Seq(Byte) /\ Len(v) \in Nat /\ Agree(b, V) /\ Len(V) \in Nat /\ Len(b) \in Nat
  BY BytesEncoded, AgreeSplit DEF EncodeBytes
<1>4. Decodes(r, b, V, Len(v))
  BY <1>3, VarintDecodes, LengthFits
<1> HIDE DEF r, V
<1>5. CASE ~Failed(r) /\ r.value > MAX_BODY_LEN
  <2>1. r.error # "eof"
    BY <1>5, Outcomes
  <2>2. r = Ok(Len(v), Len(V))
    BY <1>3, <1>4, <2>1 DEF Decodes
  <2>3. r.value = Len(v)
    BY <2>2, Outcomes
  <2>4. QED
    BY <1>2, <1>5, <2>3, Outcomes
<1>6. QED
  BY <1>1, <1>2, <1>5

LEMMA ZeroDecodes ==
    ASSUME NEW v \in {<< 0 >>, << 1 >>}, NEW b \in Seq(Byte), Agree(b, v)
    PROVE  FieldRead(Zero, v, b)
<1> DEFINE r == DecodeField(Zero, b)
<1>1. r = IF b # <<>> /\ Head(b) # 0 THEN InvalidData ELSE DecodeOctets(b, 1)
  BY DEF DecodeField, Zero
<1>2. v \in Seq(Byte) /\ Len(v) = 1 /\ v # <<>>
  <2>1. 0 \in Byte /\ 1 \in Byte
    BY Bases DEF Byte
  <2>2. <<0>> \in Seq(Byte) /\ Len(<<0>>) = 1 /\ <<1>> \in Seq(Byte) /\ Len(<<1>>) = 1
    BY <2>1
  <2>3. v \in Seq(Byte) /\ Len(v) = 1
    BY <2>2
  <2>4. QED
    BY <2>3, EmptySeq
<1>3. EncodeField(Zero, v) = v /\ Means(Zero, v) = v
  BY DEF EncodeField, Zero, Means
<1>4. CASE b # <<>> /\ Head(b) # 0
  <2>1. Head(v) # 0
    BY <1>2, <1>4, AgreeStart
  <2>2. v # <<0>>
    BY <2>1
  <2>3. Bad(Zero, v)
    BY <2>2 DEF Bad, Zero
  <2>4. QED
    BY <1>1, <1>4, <2>3, Outcomes DEF FieldRead
<1>5. CASE ~(b # <<>> /\ Head(b) # 0)
  <2>1. Decodes(DecodeOctets(b, 1), b, v, v)
    BY <1>2, OctetsDecode
  <2>2. QED
    BY <1>1, <1>3, <1>5, <2>1 DEF FieldRead
<1>6. QED
  BY <1>4, <1>5

\* A field that is followed by others is read back, recognised as cut short, or refused.
LEMMA FieldDecodes ==
    ASSUME NEW field \in AllFields, field # Rest, NEW v, Fit(field, v),
           NEW b \in Seq(Byte), Agree(b, EncodeField(field, v))
    PROVE  FieldRead(field, v, b)
<1>1. CASE field.kind = "varint"
  <2>1. /\ EncodeField(field, v) = EncodeVarint(v) /\ DecodeField(field, b) = DecodeVarint(b)
        /\ Means(field, v) = Wire62(v) /\ v \in Nat
    BY <1>1 DEF EncodeField, DecodeField, Means, Fit
  <2>2. QED
    BY <2>1, VarintDecodes DEF FieldRead
<1>2. CASE field.kind = "bytes"
  <2>1. /\ EncodeField(field, v) = EncodeBytes(v) /\ DecodeField(field, b) = DecodeBytes(b)
        /\ Means(field, v) = v /\ v \in Seq(Byte) /\ Len(v) < Limit(8)
    BY <1>2 DEF EncodeField, DecodeField, Means, Fit
  <2>2. QED
    BY <2>1, BytesDecode DEF FieldRead
<1>3. CASE field.kind = "body"
  <2>1. /\ EncodeField(field, v) = EncodeBytes(v) /\ DecodeField(field, b) = DecodeBody(b)
        /\ Means(field, v) = v /\ v \in Seq(Byte) /\ Len(v) < Limit(8)
    BY <1>3 DEF EncodeField, DecodeField, Means, Fit
  <2>2. QED
    BY <1>3, <2>1, BodyDecodes DEF FieldRead, Bad
<1>4. CASE field.kind = "address"
  <2>1. /\ EncodeField(field, v) = EncodeAddress(v) /\ DecodeField(field, b) = DecodeAddress(b)
        /\ Means(field, v) = v /\ WellFormed(v)
    BY <1>4 DEF EncodeField, DecodeField, Means, Fit
  <2>2. QED
    BY <2>1, AddressDecodes DEF FieldRead
<1>5. CASE field.kind = "octets"
  <2>1. /\ EncodeField(field, v) = v /\ DecodeField(field, b) = DecodeOctets(b, field.n)
        /\ Means(field, v) = v /\ v \in Seq(Byte) /\ Len(v) = field.n
    BY <1>5 DEF EncodeField, DecodeField, Means, Fit
  <2>2. Decodes(DecodeOctets(b, Len(v)), b, v, v)
    BY <2>1, OctetsDecode
  <2>3. QED
    BY <2>1, <2>2 DEF FieldRead
<1>6. CASE field.kind = "zero"
  <2>1. field = Zero
    BY <1>6 DEF AllFields, Octets, Varint, Bytes, Addr, Body, Zero, Rest
  <2>2. v \in {<<0>>, <<1>>} /\ EncodeField(field, v) = v
    BY <1>6 DEF EncodeField, Fit
  <2>3. QED
    BY <2>1, <2>2, ZeroDecodes
<1>7. QED
  BY <1>1, <1>2, <1>3, <1>4, <1>5, <1>6, Kinds

----------------------------------------------------------------------------
(* Messages. *)

\* enc[i] are the bytes of the first i fields of message m.
Encoding(enc, S, m) ==
    /\ enc \in [0..Len(S) -> Seq(Byte)] /\ enc[0] = <<>>
    /\ \A i \in 1..Len(S) : enc[i] = enc[i - 1] \o EncodeField(S[i], m[i])

FitsSchema(S, m) == \A i \in 1..Len(S) : Fit(S[i], m[i])

\* The recursive function of Encode is what it says.
LEMMA EncodeRuns ==
    ASSUME NEW S \in Seq(AllFields), NEW m, FitsSchema(S, m)
    PROVE  \E enc : Encoding(enc, S, m) /\ Encode(S, m) = enc[Len(S)]
<1> DEFINE n == Len(S)
           D == Seq(Byte)
           F == [i \in 1..n |-> [x \in D |-> x \o EncodeField(S[i], m[i])]]
           Is(f) == f = [i \in 0..n |-> IF i = 0 THEN <<>> ELSE f[i - 1] \o EncodeField(S[i], m[i])]
           e == CHOOSE f : Is(f)
<1>1. n \in Nat /\ <<>> \in D
  OBVIOUS
<1>2. \A i \in 1..n : EncodeField(S[i], m[i]) \in D
  BY FieldEncoded DEF FitsSchema
<1>3. F \in [1..n -> [D -> D]] /\ \A i \in 1..n : \A x \in D : F[i][x] = x \o EncodeField(S[i], m[i])
  <2>1. \A i \in 1..n : \A x \in D : x \o EncodeField(S[i], m[i]) \in D
    BY <1>2
  <2>2. QED
    BY <2>1
<1> HIDE DEF F, D, n
<1>4. PICK g : Runs(g, D, <<>>, F, n)
  BY <1>1, <1>3, RunExists
<1>5. g \in [0..n -> D] /\ g[0] = <<>> /\ \A i \in 1..n : g[i] = g[i - 1] \o EncodeField(S[i], m[i])
  <2>1. g \in [0..n -> D] /\ g[0] = <<>> /\ \A i \in 1..n : g[i] = F[i][g[i - 1]]
    BY <1>4 DEF Runs
  <2>2. \A i \in 1..n : g[i - 1] \in D
    BY <1>1, <2>1
  <2>3. QED
    BY <1>3, <2>1, <2>2
<1>6. Is(g)
  <2>1. g = [i \in 0..n |-> g[i]]
    BY <1>5
  <2>2. \A i \in 0..n : g[i] = IF i = 0 THEN <<>> ELSE g[i - 1] \o EncodeField(S[i], m[i])
    BY <1>1, <1>5
  <2>3. QED
    BY <2>1, <2>2
<1>7. Encode(S, m) = e[n]
  BY DEF Encode, n
<1> HIDE DEF Is
<1>8. Is(e)
  BY <1>6
<1> HIDE DEF e
<1>9. /\ DOMAIN e = 0..n /\ e[0] = <<>> /\ \A i \in 1..n : e[i] = e[i - 1] \o EncodeField(S[i], m[i])
      /\ e = [i \in 0..n |-> e[i]]
  BY <1>1, <1>8 DEF Is
<1> DEFINE T == {i \in Nat : i <= n => e[i] \in D}
<1>10. T \subseteq Nat /\ 0 \in T
  BY <1>1, <1>9
<1>11. ASSUME NEW i \in T PROVE i + 1 \in T
  <2>1. i \in Nat /\ i + 1 \in Nat /\ (i + 1) - 1 = i
    OBVIOUS
  <2>2. ASSUME i + 1 <= n PROVE e[i + 1] \in D
    <3>1. i + 1 \in 1..n /\ e[i] \in D
      BY <1>1, <2>1, <2>2
    <3>2. e[i + 1] = e[i] \o EncodeField(S[i + 1], m[i + 1])
      BY <1>9, <2>1, <3>1
    <3>3. QED
      BY <1>2, <3>1, <3>2, ConcatProperties DEF D
  <2>3. QED
    BY <2>1, <2>2
<1>12. \A i \in 0..n : e[i] \in D
  <2> HIDE DEF T
  <2>1. T = Nat
    BY <1>10, <1>11, Induct
  <2>2. \A i \in Nat : i <= n => e[i] \in D
    BY <2>1 DEF T
  <2>3. QED
    BY <1>1, <2>2
<1>13. e \in [0..n -> D]
  BY <1>9, <1>12
<1>14. Encoding(e, S, m)
  BY <1>9, <1>13 DEF Encoding, n, D
<1>15. QED
  BY <1>7, <1>14 DEF n

\* rd[i] is what reading the first i fields comes to.
Decoding(rd, S, b) ==
    rd[0] = Ok(<<>>, 0) /\ \A i \in 1..Len(S) : rd[i] = ReadField(S[i], b, rd[i - 1])

\* The recursive function of Decode is what it says.
LEMMA DecodeRuns ==
    ASSUME NEW S \in Seq(AllFields), NEW b
    PROVE  \E rd : Decoding(rd, S, b) /\ Decode(S, b) = rd[Len(S)]
<1> DEFINE n == Len(S)
           Upto(f, k) == f = [i \in 0..k |-> IF i = 0 THEN Ok(<<>>, 0) ELSE ReadField(S[i], b, f[i - 1])]
           T == {k \in Nat : k <= n => \E f : Upto(f, k)}
           e == CHOOSE f : Upto(f, n)
<1>1. n \in Nat
  OBVIOUS
<1>2. T \subseteq Nat /\ \A k \in Nat : k \in T <=> (k <= n => \E f : Upto(f, k))
  OBVIOUS
<1>3. 0 \in T
  <2> DEFINE f == [i \in 0..0 |-> Ok(<<>>, 0)]
  <2>1. Upto(f, 0)
    OBVIOUS
  <2> HIDE DEF f, Upto, T
  <2>2. QED
    BY <1>2, <2>1
<1> HIDE DEF T
<1>4. ASSUME NEW k \in T PROVE k + 1 \in T
  <2>1. k \in Nat /\ k + 1 \in Nat /\ (k + 1) - 1 = k
    BY <1>2
  <2>2. ASSUME k + 1 <= n PROVE \E f : Upto(f, k + 1)
    <3> HIDE DEF Upto
    <3>1. PICK f : Upto(f, k)
      BY <1>1, <1>2, <2>1, <2>2
    <3> DEFINE x == ReadField(S[k + 1], b, f[k])
               h == [i \in 0..(k + 1) |-> IF i = k + 1 THEN x ELSE f[i]]
    <3>2. f[0] = Ok(<<>>, 0) /\ \A i \in 1..k : f[i] = ReadField(S[i], b, f[i - 1])
      BY <2>1, <3>1 DEF Upto
    <3> HIDE DEF x
    <3>3. h[k + 1] = x /\ \A i \in 0..k : h[i] = f[i]
      BY <2>1
    <3>4. h = [i \in 0..(k + 1) |-> h[i]]
      OBVIOUS
    <3> HIDE DEF h
    <3>5. ASSUME NEW i \in 0..(k + 1) PROVE h[i] = IF i = 0 THEN Ok(<<>>, 0) ELSE ReadField(S[i], b, h[i - 1])
      <4>1. CASE i = k + 1
        <5>1. i # 0 /\ i - 1 = k /\ k \in 0..k
          BY <2>1, <4>1
        <5>2. QED
          BY <3>3, <4>1, <5>1 DEF x
      <4>2. CASE i = 0
        <5>1. 0 \in 0..k
          BY <2>1
        <5>2. QED
          BY <3>2, <3>3, <4>2, <5>1
      <4>3. CASE i # 0 /\ i # k + 1
        <5>1. i \in 1..k /\ i \in 0..k /\ i - 1 \in 0..k
          BY <2>1, <4>3
        <5>2. QED
          BY <3>2, <3>3, <4>3, <5>1
      <4>4. QED
        BY <4>1, <4>2, <4>3
    <3>6. Upto(h, k + 1)
      BY <3>4, <3>5 DEF Upto
    <3>7. QED
      BY <3>6
  <2>3. QED
    BY <1>2, <2>1, <2>2
<1>5. T = Nat
  BY <1>2, <1>3, <1>4, Induct
<1>6. Decode(S, b) = e[n]
  BY DEF Decode
<1> HIDE DEF Upto
<1>7. Upto(e, n)
  BY <1>1, <1>2, <1>5
<1> HIDE DEF e
<1>8. e[0] = Ok(<<>>, 0) /\ \A i \in 1..n : e[i] = ReadField(S[i], b, e[i - 1])
  BY <1>1, <1>7 DEF Upto
<1>9. QED
  BY <1>6, <1>8 DEF Decoding

----------------------------------------------------------------------------
(* What reading a message comes to. *)

Meant(S, m, i) == [j \in 1..i |-> Means(S[j], m[j])]

FieldsRead(rd, S, m, enc, b, i) ==
    \/ Len(enc[i]) <= Len(b) /\ rd[i] = Ok(Meant(S, m, i), Len(enc[i]))
    \/ Len(b) < Len(enc[i]) /\ rd[i].error = "eof"
    \/ rd[i].error = "invalid" /\ \E j \in 1..i : Bad(S[j], m[j])

LEMMA MeantGrows ==
    ASSUME NEW S, NEW m, NEW i \in Nat
    PROVE  Append(Meant(S, m, i), Means(S[i + 1], m[i + 1])) = Meant(S, m, i + 1)
<1> DEFINE v == Means(S[i + 1], m[i + 1])
           V == {Means(S[j], m[j]) : j \in 1..(i + 1)}
           s == Meant(S, m, i)
           t == Meant(S, m, i + 1)
<1>1. s \in Seq(V) /\ Len(s) = i /\ \A j \in 1..i : s[j] = Means(S[j], m[j])
  BY DEF Meant
<1>2. t \in Seq(V) /\ Len(t) = i + 1 /\ \A j \in 1..(i + 1) : t[j] = Means(S[j], m[j])
  BY DEF Meant
<1>3. v \in V /\ i + 1 \in 1..(i + 1) /\ t[i + 1] = v
  BY <1>2
<1>4. \A j \in 1..i : s[j] = t[j]
  BY <1>1, <1>2
<1> HIDE DEF s, t, v, V
<1>5. Append(s, v) \in Seq(V) /\ Len(Append(s, v)) = i + 1
      /\ \A j \in 1..(i + 1) : Append(s, v)[j] = IF j = i + 1 THEN v ELSE s[j]
  BY <1>1, <1>3
<1>6. \A j \in 1..(i + 1) : Append(s, v)[j] = t[j]
  BY <1>3, <1>4, <1>5
<1>7. Append(s, v) = t
  BY <1>2, <1>5, <1>6, SeqEqual
<1>8. QED
  BY <1>7 DEF s, t, v

LEMMA RestDecodes ==
    ASSUME NEW v \in Seq(Byte), NEW b \in Seq(Byte), Agree(b, v), Len(b) = Len(v)
    PROVE  FieldRead(Rest, v, b)
<1>1. Len(b) \in Nat /\ \A j \in 1..Len(b) : b[j] = v[j]
  BY DEF Agree
<1>2. b = v
  BY <1>1, SeqEqual
<1>3. DecodeField(Rest, b) = Ok(b, Len(b)) /\ EncodeField(Rest, v) = v /\ Means(Rest, v) = v
  BY DEF DecodeField, EncodeField, Means, Rest
<1>4. QED
  BY <1>1, <1>2, <1>3 DEF FieldRead, Decodes

\* One more field read by Reader.
LEMMA NextField ==
    ASSUME NEW S \in Seq(AllFields), NEW m, FitsSchema(S, m), NEW enc, Encoding(enc, S, m),
           NEW b \in Seq(Byte), NEW rd, Decoding(rd, S, b),
           NEW i \in Nat, i + 1 <= Len(S), S[i + 1] # Rest \/ b = enc[i + 1],
           Agree(b, enc[i + 1]), Agree(b, enc[i]) => FieldsRead(rd, S, m, enc, b, i)
    PROVE  FieldsRead(rd, S, m, enc, b, i + 1)
<1> DEFINE k == i + 1
           E == EncodeField(S[k], m[k])
           x == Means(S[k], m[k])
           u == Len(enc[i])
           c == From(b, u)
           r == DecodeField(S[k], c)
<1>1. /\ k \in 1..Len(S) /\ k - 1 = i /\ i \in 0..Len(S) /\ k \in 0..Len(S) /\ Len(S) \in Nat
      /\ S[k] \in AllFields
  OBVIOUS
<1>2. Fit(S[k], m[k])
  BY <1>1 DEF FitsSchema
<1>3. E \in Seq(Byte) /\ Len(E) \in Nat /\ enc[i] \in Seq(Byte) /\ enc[k] = enc[i] \o E
  <2>1. E \in Seq(Byte) /\ Len(E) \in Nat
    BY <1>2, FieldEncoded
  <2>2. enc[i] \in Seq(Byte) /\ enc[k] = enc[i] \o E
    BY <1>1 DEF Encoding
  <2>3. QED
    BY <2>1, <2>2
<1>4. rd[k] = ReadField(S[k], b, rd[i])
  BY <1>1 DEF Decoding
<1>5. Agree(b, enc[i]) /\ (u <= Len(b) => Agree(c, E))
  <2>1. Agree(b, enc[i] \o E)
    BY <1>3
  <2> HIDE DEF E
  <2>2. QED
    BY <1>3, <2>1, AgreeSplit
<1>6. u \in Nat /\ Len(b) \in Nat /\ Len(enc[k]) = u + Len(E)
  BY <1>3, ConcatProperties, LenProperties
<1>7. FieldsRead(rd, S, m, enc, b, i)
  BY <1>5
<1>8. CASE u <= Len(b) /\ rd[i] = Ok(Meant(S, m, i), u)
  <2>1. u \in 0..Len(b)
    BY <1>6, <1>8
  <2>2. c \in Seq(Byte) /\ Len(c) = Len(b) - u /\ Agree(c, E)
    <3> HIDE DEF u, E
    <3>1. c \in Seq(Byte) /\ Len(c) = Len(b) - u
      BY <2>1, Behind
    <3> HIDE DEF c
    <3>2. QED
      BY <1>5, <1>8, <3>1
  <2>3. FieldRead(S[k], m[k], c)
    <3>1. CASE S[k] # Rest
      BY <1>1, <1>2, <2>2, <3>1, FieldDecodes
    <3>2. CASE S[k] = Rest
      <4>1. b = enc[k]
        BY <3>2
      <4>2. Len(c) = Len(E)
        <5> HIDE DEF u, E, c
        <5>1. QED
          BY <1>3, <1>6, <2>2, <4>1
      <4>3. m[k] \in Seq(Byte) /\ E = m[k]
        BY <1>2, <3>2 DEF Fit, Rest, EncodeField
      <4>4. FieldRead(Rest, m[k], c)
        BY <2>2, <4>2, <4>3, RestDecodes
      <4>5. QED
        BY <3>2, <4>4
    <3>3. QED
      BY <3>1, <3>2
  <2>4. ~Failed(rd[i]) /\ rd[i].used = u /\ rd[i].value = Meant(S, m, i)
    BY <1>8, Outcomes
  <2>5. rd[k] = IF Failed(r) THEN r ELSE Ok(Append(Meant(S, m, i), r.value), u + r.used)
    BY <1>4, <2>4 DEF ReadField, From
  <2>6. \/ Len(E) <= Len(c) /\ r = Ok(x, Len(E))
        \/ Len(c) < Len(E) /\ r.error = "eof"
        \/ r.error = "invalid" /\ Bad(S[k], m[k])
    <3> HIDE DEF r, x, E, c, k
    <3>1. Decodes(r, c, E, x) \/ (r.error = "invalid" /\ Bad(S[k], m[k]))
      BY <2>3 DEF FieldRead, r, x, E
    <3>2. Len(E) \in Nat
      BY <1>3 DEF E, k
    <3>3. Len(c) \in Nat
      BY <2>2, LenProperties DEF c
    <3>4. QED
      BY <3>1, <3>2, <3>3 DEF Decodes
  <2>7. Append(Meant(S, m, i), x) = Meant(S, m, k)
    BY MeantGrows
  <2> HIDE DEF r, x, E, c
  <2>8. CASE Len(E) <= Len(c) /\ r = Ok(x, Len(E))
    <3>1. ~Failed(r) /\ r.value = x /\ r.used = Len(E)
      BY <2>8, Outcomes
    <3>2. rd[k] = Ok(Meant(S, m, k), Len(enc[k]))
      BY <1>6, <2>5, <2>7, <3>1
    <3>3. Len(enc[k]) <= Len(b)
      BY <1>3, <1>6, <2>2, <2>8
    <3>4. QED
      BY <3>2, <3>3 DEF FieldsRead
  <2>9. CASE Len(c) < Len(E) /\ r.error = "eof"
    <3>1. rd[k].error = "eof"
      BY <2>5, <2>9, Outcomes
    <3>2. Len(b) < Len(enc[k])
      BY <1>3, <1>6, <2>2, <2>9
    <3>3. QED
      BY <3>1, <3>2 DEF FieldsRead
  <2>10. CASE r.error = "invalid" /\ Bad(S[k], m[k])
    <3>1. rd[k].error = "invalid"
      BY <2>5, <2>10 DEF Failed
    <3>2. k \in 1..k
      BY <1>1
    <3>3. QED
      BY <2>10, <3>1, <3>2 DEF FieldsRead
  <2>11. QED
    BY <2>6, <2>8, <2>9, <2>10
<1>9. CASE Len(b) < u /\ rd[i].error = "eof"
  <2>1. rd[k] = rd[i]
    BY <1>4, <1>9 DEF ReadField, Failed
  <2>2. Len(b) < Len(enc[k])
    <3> HIDE DEF u, E
    <3>1. QED
      BY <1>3, <1>6, <1>9
  <2>3. QED
    BY <1>9, <2>1, <2>2 DEF FieldsRead
<1>10. CASE rd[i].error = "invalid" /\ \E j \in 1..i : Bad(S[j], m[j])
  <2>1. rd[k] = rd[i]
    BY <1>4, <1>10 DEF ReadField, Failed
  <2>2. \E j \in 1..k : Bad(S[j], m[j])
    BY <1>1, <1>10
  <2>3. QED
    BY <1>10, <2>1, <2>2 DEF FieldsRead
<1>11. QED
  BY <1>7, <1>8, <1>9, <1>10 DEF FieldsRead

\* All the fields written so far are read, or the first byte missing is missed.
LEMMA PrefixDecodes ==
    ASSUME NEW S \in Seq(AllFields), NEW m, FitsSchema(S, m), NEW enc, Encoding(enc, S, m),
           NEW b \in Seq(Byte), NEW rd, Decoding(rd, S, b), NEW n \in 0..Len(S),
           Agree(b, enc[n]), \A i \in 1..n : S[i] # Rest \/ b = enc[i]
    PROVE  FieldsRead(rd, S, m, enc, b, n)
<1> DEFINE T == {i \in Nat : i <= n => (Agree(b, enc[i]) => FieldsRead(rd, S, m, enc, b, i))}
<1>1. n \in Nat /\ T \subseteq Nat /\ n <= Len(S) /\ Len(S) \in Nat
  OBVIOUS
<1>2. 0 \in T
  <2>1. enc[0] = <<>> /\ rd[0] = Ok(<<>>, 0)
    BY DEF Encoding, Decoding
  <2>2. Meant(S, m, 0) = <<>>
    BY DEF Meant
  <2>3. Len(enc[0]) = 0 /\ 0 <= Len(b)
    BY <2>1
  <2>4. FieldsRead(rd, S, m, enc, b, 0)
    BY <2>1, <2>2, <2>3 DEF FieldsRead
  <2>5. QED
    BY <2>4
<1>3. ASSUME NEW i \in T PROVE i + 1 \in T
  <2>1. i \in Nat /\ i + 1 \in Nat
    OBVIOUS
  <2>2. ASSUME i + 1 <= n, Agree(b, enc[i + 1]) PROVE FieldsRead(rd, S, m, enc, b, i + 1)
    <3>1. i <= n /\ i + 1 \in 1..n /\ i + 1 <= Len(S)
      BY <1>1, <2>1, <2>2
    <3>2. Agree(b, enc[i]) => FieldsRead(rd, S, m, enc, b, i)
      BY <3>1
    <3>3. S[i + 1] # Rest \/ b = enc[i + 1]
      BY <3>1
    <3> HIDE DEF T
    <3>4. QED
      BY <2>1, <2>2, <3>1, <3>2, <3>3, NextField
  <2>3. QED
    BY <2>1, <2>2
<1> HIDE DEF T
<1>4. T = Nat
  BY <1>1, <1>2, <1>3, Induct
<1>5. QED
  BY <1>1, <1>4 DEF T

\* A whole message is read back, one cut short is recognised, whatever follows
\* it, unless it holds what the decoder refuses.
LEMMA MessageDecodes ==
    ASSUME NEW S \in Seq(AllFields), NEW m, FitsSchema(S, m),
           NEW b \in Seq(Byte), Agree(b, Encode(S, m)),
           \A i \in 1..Len(S) : S[i] # Rest \/ (i = Len(S) /\ b = Encode(S, m))
    PROVE  \/ /\ Len(Encode(S, m)) <= Len(b)
              /\ Decode(S, b) = Ok(Meant(S, m, Len(S)), Len(Encode(S, m)))
           \/ Len(b) < Len(Encode(S, m)) /\ Decode(S, b).error = "eof"
           \/ Decode(S, b).error = "invalid" /\ \E i \in 1..Len(S) : Bad(S[i], m[i])
<1>1. PICK enc : Encoding(enc, S, m) /\ Encode(S, m) = enc[Len(S)]
  BY EncodeRuns
<1>2. PICK rd : Decoding(rd, S, b) /\ Decode(S, b) = rd[Len(S)]
  BY DecodeRuns
<1>3. Len(S) \in 0..Len(S) /\ \A i \in 1..Len(S) : S[i] # Rest \/ b = enc[i]
  BY <1>1
<1>4. FieldsRead(rd, S, m, enc, b, Len(S))
  BY <1>1, <1>2, <1>3, PrefixDecodes
<1>5. QED
  BY <1>1, <1>2, <1>4 DEF FieldsRead

LEMMA MessageBytes ==
    ASSUME NEW S \in Seq(AllFields), NEW m, FitsSchema(S, m)
    PROVE  Encode(S, m) \in Seq(Byte) /\ Len(Encode(S, m)) \in Nat
<1>1. PICK enc : Encoding(enc, S, m) /\ Encode(S, m) = enc[Len(S)]
  BY EncodeRuns
<1>2. Len(S) \in 0..Len(S)
  OBVIOUS
<1>3. Encode(S, m) \in Seq(Byte)
  BY <1>1, <1>2 DEF Encoding
<1>4. QED
  BY <1>3, LenProperties

----------------------------------------------------------------------------
(* The messages of the readers fit their schemas. *)

LEMMA Values ==
    ASSUME NEW field \in AllFields, NEW v \in FieldValues(field)
    PROVE  Fit(field, v)
<1>1. CASE field.kind = "varint"
  BY <1>1, ReadersAssumption DEF FieldValues, Fit
<1>2. CASE field.kind \in {"bytes", "body", "rest"}
  BY <1>2, ReadersAssumption DEF FieldValues, Fit
<1>3. CASE field.kind = "address"
  BY <1>3, ReadersAssumption DEF FieldValues, Fit, WellFormed
<1>4. CASE field.kind = "octets"
  <2>1. v = [i \in 1..field.n |-> 1] /\ field.n \in Nat
    BY <1>4 DEF FieldValues, AllFields, Octets, Varint, Bytes, Addr, Body, Zero, Rest
  <2>2. 1 \in Byte
    BY Bases DEF Byte
  <2>3. v \in Seq(Byte) /\ Len(v) = field.n
    BY <2>1, <2>2
  <2>4. QED
    BY <1>4, <2>3 DEF Fit
<1>5. CASE field.kind = "zero"
  BY <1>5 DEF FieldValues, Fit
<1>6. QED
  BY <1>1, <1>2, <1>3, <1>4, <1>5, Kinds

\* The first i fields of a message have values of their kinds.
MessageOf(q, S, V, i) == q \in Seq(V) /\ Len(q) = i /\ \A j \in 1..i : q[j] \in FieldValues(S[j])

LEMMA MessageGrows ==
    ASSUME NEW S, NEW V, NEW i \in Nat, NEW q, MessageOf(q, S, V, i),
           NEW v \in FieldValues(S[i + 1]), FieldValues(S[i + 1]) \subseteq V
    PROVE  MessageOf(Append(q, v), S, V, i + 1)
<1>1. q \in Seq(V) /\ Len(q) = i /\ \A j \in 1..i : q[j] \in FieldValues(S[j])
  BY DEF MessageOf
<1>2. v \in V
  OBVIOUS
<1>3. Append(q, v) \in Seq(V) /\ Len(Append(q, v)) = i + 1
      /\ \A j \in 1..(i + 1) : Append(q, v)[j] = IF j = i + 1 THEN v ELSE q[j]
  BY <1>1, <1>2
<1>4. ASSUME NEW j \in 1..(i + 1) PROVE Append(q, v)[j] \in FieldValues(S[j])
  <2>1. CASE j = i + 1
    BY <1>3, <2>1
  <2>2. CASE j # i + 1
    <3>1. j \in 1..i
      BY <2>2
    <3>2. QED
      BY <1>1, <1>3, <2>2, <3>1
  <2>3. QED
    BY <2>1, <2>2
<1>5. QED
  BY <1>3, <1>4 DEF MessageOf

\* The messages of x with one field more.
Longer(x, W) == {Append(q, v) : q \in x, v \in W}

LEMMA LongerIs ==
    ASSUME NEW x, NEW W
    PROVE  \A p : p \in Longer(x, W) <=> \E q \in x, v \in W : p = Append(q, v)
<1>1. ASSUME NEW p \in Longer(x, W) PROVE \E q \in x, v \in W : p = Append(q, v)
  BY <1>1 DEF Longer
<1>2. ASSUME NEW q \in x, NEW v \in W PROVE Append(q, v) \in Longer(x, W)
  BY DEF Longer
<1>3. QED
  BY <1>1, <1>2

\* The messages a peer may send have the fields of their schema.
LEMMA MessagesFit ==
    ASSUME NEW S \in Seq(AllFields), NEW m \in Messages(S)
    PROVE  FitsSchema(S, m) /\ DOMAIN m = 1..Len(S) /\ m = [i \in 1..Len(S) |-> m[i]]
<1> DEFINE n == Len(S)
           V == UNION {FieldValues(S[i]) : i \in 1..n}
           D == SUBSET Seq(V)
           F == [i \in 1..n |-> [x \in D |-> Longer(x, FieldValues(S[i]))]]
           Is(f) == f = [i \in 0..n |-> IF i = 0 THEN {<<>>} ELSE Longer(f[i - 1], FieldValues(S[i]))]
           e == CHOOSE f : Is(f)
<1>1. n \in Nat /\ {<<>>} \in D
  OBVIOUS
<1>2. \A i \in 1..n : FieldValues(S[i]) \subseteq V
  OBVIOUS
<1> HIDE DEF V
<1>3. F \in [1..n -> [D -> D]] /\ \A i \in 1..n : \A x \in D : F[i][x] = Longer(x, FieldValues(S[i]))
  <2>1. ASSUME NEW i \in 1..n, NEW x \in D PROVE Longer(x, FieldValues(S[i])) \in D
    <3>1. ASSUME NEW q \in x, NEW v \in FieldValues(S[i]) PROVE Append(q, v) \in Seq(V)
      <4>1. q \in Seq(V) /\ v \in V
        BY <1>2, <2>1, <3>1
      <4>2. QED
        BY <4>1
    <3>2. QED
      BY <3>1, LongerIs
  <2>2. QED
    BY <2>1
<1> HIDE DEF F, D, n
<1>4. PICK g : Runs(g, D, {<<>>}, F, n)
  BY <1>1, <1>3, RunExists
<1>5. g \in [0..n -> D] /\ g[0] = {<<>>} /\ \A i \in 1..n : g[i] = Longer(g[i - 1], FieldValues(S[i]))
  <2>1. g \in [0..n -> D] /\ g[0] = {<<>>} /\ \A i \in 1..n : g[i] = F[i][g[i - 1]]
    BY <1>4 DEF Runs
  <2>2. \A i \in 1..n : g[i - 1] \in D
    BY <1>1, <2>1
  <2>3. QED
    BY <1>3, <2>1, <2>2
<1>6. Is(g)
  <2>1. g = [i \in 0..n |-> g[i]]
    BY <1>5
  <2>2. \A i \in 0..n : g[i] = IF i = 0 THEN {<<>>} ELSE Longer(g[i - 1], FieldValues(S[i]))
    BY <1>1, <1>5
  <2>3. QED
    BY <2>1, <2>2
<1>7. Messages(S) = e[n]
  BY DEF Messages, n, Longer
<1> HIDE DEF Is
<1>8. Is(e)
  BY <1>6
<1> HIDE DEF e
<1>9. e[0] = {<<>>} /\ \A i \in 1..n : e[i] = Longer(e[i - 1], FieldValues(S[i]))
  <2>1. 0 \in 0..n /\ \A i \in 1..n : i \in 0..n /\ i # 0
    BY <1>1
  <2>2. e = [i \in 0..n |-> IF i = 0 THEN {<<>>} ELSE Longer(e[i - 1], FieldValues(S[i]))]
    BY <1>8 DEF Is
  <2>3. \A i \in 0..n : e[i] = IF i = 0 THEN {<<>>} ELSE Longer(e[i - 1], FieldValues(S[i]))
    BY Zenon, <2>2
  <2>4. QED
    BY <2>1, <2>3
<1> DEFINE T == {i \in Nat : i <= n => \A q \in e[i] : MessageOf(q, S, V, i)}
<1>10. T \subseteq Nat
  OBVIOUS
<1>11. 0 \in T
  <2>1. <<>> \in Seq(V) /\ Len(<<>>) = 0
    OBVIOUS
  <2>2. MessageOf(<<>>, S, V, 0)
    BY <2>1 DEF MessageOf
  <2>3. QED
    BY <1>9, <2>2
<1>12. ASSUME NEW i \in T PROVE i + 1 \in T
  <2>1. i \in Nat /\ i + 1 \in Nat /\ (i + 1) - 1 = i
    OBVIOUS
  <2>2. ASSUME i + 1 <= n, NEW p \in e[i + 1] PROVE MessageOf(p, S, V, i + 1)
    <3>1. i + 1 \in 1..n /\ i <= n
      BY <1>1, <2>1, <2>2
    <3>2. PICK q \in e[i], v \in FieldValues(S[i + 1]) : p = Append(q, v)
      BY <1>9, <2>1, <2>2, <3>1, LongerIs
    <3>3. MessageOf(q, S, V, i)
      BY <3>1, <3>2
    <3> HIDE DEF T
    <3>4. QED
      BY <1>2, <2>1, <3>1, <3>2, <3>3, MessageGrows
  <2>3. QED
    BY <2>1, <2>2
<1> HIDE DEF T
<1>13. T = Nat
  BY <1>10, <1>11, <1>12, Induct
<1>14. MessageOf(m, S, V, n)
  BY <1>1, <1>7, <1>13 DEF T
<1>15. m \in Seq(V) /\ Len(m) = n /\ \A j \in 1..n : m[j] \in FieldValues(S[j])
  BY <1>14 DEF MessageOf
<1>16. FitsSchema(S, m)
  <2>1. \A j \in 1..Len(S) : S[j] \in AllFields
    OBVIOUS
  <2>2. QED
    BY <1>15, <2>1, Values DEF FitsSchema, n
<1>17. QED
  BY <1>15, <1>16 DEF n

----------------------------------------------------------------------------
(* The schemas. *)

LEMMA FieldKinds ==
    /\ Octets(1).kind = "octets" /\ Octets(2).kind = "octets" /\ Octets(4).kind = "octets"
    /\ Varint.kind = "varint" /\ Bytes.kind = "bytes" /\ Addr.kind = "address"
    /\ Body.kind = "body" /\ Zero.kind = "zero" /\ Rest.kind = "rest"
BY DEF Octets, Varint, Bytes, Addr, Body, Zero, Rest

\* No field of s reads what is left, and none holds what the decoder refuses.
Plain(s) == \A i \in 1..Len(s) : s[i].kind \in {"octets", "varint", "bytes", "address"}

LEMMA StreamSchemaFields ==
    ASSUME NEW s \in StreamSchemas
    PROVE  s \in Seq(AllFields) /\ s # <<>> /\ Plain(s)
<1>1. CASE s = AuthRequest
  BY <1>1, FieldKinds DEF AuthRequest, AllFields, Plain
<1>2. CASE s = AuthResponse
  BY <1>2, FieldKinds DEF AuthResponse, AllFields, Plain
<1>3. CASE s = OpenStream
  BY <1>3, FieldKinds DEF OpenStream, AllFields, Plain
<1>4. CASE s = OpenStreamAck
  BY <1>4, FieldKinds DEF OpenStreamAck, AllFields, Plain
<1>5. QED
  BY <1>1, <1>2, <1>3, <1>4 DEF StreamSchemas

LEMMA FrameFields ==
    /\ Frame \in Seq(AllFields) /\ Len(Frame) = 3 /\ Frame # <<>>
    /\ Frame[1] = Varint /\ Frame[2] = Octets(1) /\ Frame[3] = Body
BY DEF Frame, AllFields

LEMMA DatagramFields ==
    /\ Datagram \in Seq(AllFields) /\ Len(Datagram) = 6 /\ Datagram # <<>>
    /\ Datagram[1] = Octets(4) /\ Datagram[2] = Octets(2) /\ Datagram[3] = Octets(1)
    /\ Datagram[4] = Octets(1) /\ Datagram[5] = Addr /\ Datagram[6] = Rest
BY DEF Datagram, AllFields

LEMMA UdpPacketFields ==
    /\ UdpPacket \in Seq(AllFields) /\ Len(UdpPacket) = 4 /\ UdpPacket # <<>>
    /\ UdpPacket[1] = Octets(2) /\ UdpPacket[2] = Zero /\ UdpPacket[3] = Addr /\ UdpPacket[4] = Rest
BY DEF UdpPacket, AllFields

LEMMA PlainFields ==
    ASSUME NEW s, Plain(s), NEW m
    PROVE  \A i \in 1..Len(s) : s[i] # Rest /\ ~Bad(s[i], m[i])
BY FieldKinds DEF Plain, Bad

----------------------------------------------------------------------------
(* The bytes of a message, cut short. *)

LEMMA Prefix ==
    ASSUME NEW b \in Seq(Byte), NEW k \in 0..Len(b)
    PROVE  /\ SubSeq(b, 1, k) \in Seq(Byte) /\ Len(SubSeq(b, 1, k)) = k
           /\ \A i \in 1..k : SubSeq(b, 1, k)[i] = b[i]
           /\ Agree(SubSeq(b, 1, k), b)
<1>1. 1 \in Int /\ k \in Int /\ k - 1 + 1 = k /\ \A i \in 1..k : b[i] \in Byte /\ 1 + i - 1 = i
  OBVIOUS
<1>2. /\ SubSeq(b, 1, k) \in Seq(Byte) /\ Len(SubSeq(b, 1, k)) = IF 1 <= k THEN k - 1 + 1 ELSE 0
      /\ \A i \in 1..(k - 1 + 1) : SubSeq(b, 1, k)[i] = b[1 + i - 1]
  BY <1>1, SubSeqProperties
<1>3. Len(SubSeq(b, 1, k)) = k /\ \A i \in 1..k : SubSeq(b, 1, k)[i] = b[i]
  BY <1>1, <1>2
<1>4. QED
  BY <1>2, <1>3 DEF Agree

\* A message cut at any byte is reported as cut.
LEMMA CutMessage ==
    ASSUME NEW s \in StreamSchemas \cup {Frame}, NEW m \in Messages(s),
           NEW k \in 0..(Len(Encode(s, m)) - 1)
    PROVE  Decode(s, SubSeq(Encode(s, m), 1, k)).error \in
             {"eof"} \cup (IF s = Frame /\ Len(m[3]) > MAX_BODY_LEN THEN {"invalid"} ELSE {})
<1> DEFINE E == Encode(s, m)
           c == SubSeq(E, 1, k)
<1>1. s \in Seq(AllFields)
  BY StreamSchemaFields, FrameFields
<1>2. FitsSchema(s, m)
  BY <1>1, MessagesFit
<1>3. E \in Seq(Byte) /\ Len(E) \in Nat
  BY <1>1, <1>2, MessageBytes
<1> HIDE DEF E
<1>4. k \in 0..Len(E) /\ k < Len(E)
  BY <1>3 DEF E
<1>5. c \in Seq(Byte) /\ Len(c) = k /\ Agree(c, E)
  BY <1>3, <1>4, Prefix
<1> HIDE DEF c
<1>6. ASSUME NEW i \in 1..Len(s)
      PROVE  s[i] # Rest /\ (Bad(s[i], m[i]) => s = Frame /\ Len(m[3]) > MAX_BODY_LEN)
  <2>1. CASE s = Frame
    <3>1. i = 1 \/ i = 2 \/ i = 3
      BY <2>1, FrameFields
    <3>2. s[i].kind # "rest" /\ s[i].kind # "zero" /\ (s[i].kind = "body" => i = 3)
      BY <2>1, <3>1, FrameFields, FieldKinds
    <3>3. QED
      BY <2>1, <3>2, FieldKinds DEF Bad
  <2>2. CASE s \in StreamSchemas
    BY <2>2, StreamSchemaFields, PlainFields
  <2>3. QED
    BY <2>1, <2>2
<1>7. \/ Len(E) <= Len(c)
      \/ Decode(s, c).error = "eof"
      \/ Decode(s, c).error = "invalid" /\ \E i \in 1..Len(s) : Bad(s[i], m[i])
  BY <1>1, <1>2, <1>5, <1>6, MessageDecodes DEF E
<1>8. QED
  <2>1. Decode(s, c).error \in
          {"eof"} \cup (IF s = Frame /\ Len(m[3]) > MAX_BODY_LEN THEN {"invalid"} ELSE {})
    BY <1>3, <1>4, <1>5, <1>6, <1>7
  <2>2. QED
    BY <2>1 DEF c, E

----------------------------------------------------------------------------
(* The bytes of a SOCKS5 address and packet. *)

LEMMA SmallBytes == {0, 1, 2, 3, 4, 5} \subseteq Byte
BY Bases DEF Byte

LEMMA TwoBytes ==
    ASSUME NEW x \in Byte, NEW y \in Byte
    PROVE  /\ <<x, y>> \in Seq(Byte) /\ Len(<<x, y>>) = 2
           /\ <<x, y>>[1] = x /\ <<x, y>>[2] = y /\ <<x, y>> = <<x>> \o <<y>>
<1>1. /\ <<x, y>> \in Seq(Byte) /\ Len(<<x, y>>) = 2
      /\ <<x, y>>[1] = x /\ <<x, y>>[2] = y
  OBVIOUS
<1>2. <<x>> \in Seq(Byte) /\ Len(<<x>>) = 1 /\ <<x>>[1] = x /\ <<y>> \in Seq(Byte) /\ Len(<<y>>) = 1 /\ <<y>>[1] = y
  OBVIOUS
<1> DEFINE a == <<x>>
           b == <<y>>
           c == <<x, y>>
<1> HIDE DEF a, b, c
<1>3. /\ a \o b \in Seq(Byte) /\ Len(a \o b) = 1 + 1
      /\ \A i \in 1..(1 + 1) : (a \o b)[i] = IF i <= 1 THEN a[i] ELSE b[i - 1]
  BY <1>2, ConcatProperties DEF a, b
<1>4. \A i \in 1..2 : c[i] = (a \o b)[i]
  <2>1. \A i \in 1..2 : i = 1 \/ i = 2
    OBVIOUS
  <2>2. (a \o b)[1] = x /\ (a \o b)[2] = y
    BY <1>2, <1>3 DEF a, b
  <2>3. QED
    BY <1>1, <2>1, <2>2 DEF c
<1>5. c = a \o b
  BY <1>1, <1>3, <1>4, SeqEqual DEF c
<1>6. QED
  BY <1>1, <1>5 DEF a, b, c

LEMMA ShortLength ==
    ASSUME NEW n \in Nat, n < Low
    PROVE  EncodeVarint(n) = <<n>> /\ n \in Byte
<1>1. VarintLen(n) = 1
  BY Limits DEF VarintLen
<1>2. n < Radix /\ Radix \in Nat /\ Low \in Nat /\ n \in Byte
  BY Bases DEF Byte
<1>3. n % Radix = n /\ n % Low = n
  BY <1>2, SmallMod
<1>4. n \div Power[1 - 1] = n
  BY Powers
<1>5. BigEndian(n, 1) = [i \in 1..1 |-> n]
  <2>1. \A i \in 1..1 : (n \div Power[1 - i]) % Radix = n
    BY <1>3, <1>4
  <2>2. QED
    BY <2>1 DEF BigEndian
<1>6. Tag(1) = 0
  BY DEF Tag
<1>7. EncodeVarint(n) = [BigEndian(n, 1) EXCEPT ![1] = (@ % Low) + 0 * Low]
  BY <1>1, <1>6 DEF EncodeVarint
<1>8. 0 * Low = 0 /\ n + 0 = n
  BY <1>2
<1>9. EncodeVarint(n) = [i \in 1..1 |-> n]
  BY <1>3, <1>5, <1>7, <1>8
<1>10. [i \in 1..1 |-> n] = <<n>>
  OBVIOUS
<1>11. QED
  BY <1>2, <1>9, <1>10

\* A name whose length byte is a varint too, or no name.
SameBytes(a) == a.type = V4 \/ ShortName(a)

\* A SOCKS5 address, which is one of hydr where the name is short.
LEMMA SocksAddressBytes ==
    ASSUME NEW a, WellFormed(a)
    PROVE  /\ SocksAddress(a) \in Seq(Byte)
           /\ a.type = V4 => SocksAddress(a)[1] = V4 /\ Len(SocksAddress(a)) = 7
           /\ a.type = V6 => SocksAddress(a)[1] = ATYP_V6 /\ Len(SocksAddress(a)) = 19
           /\ a.type = DOMAIN_NAME =>
                /\ SocksAddress(a)[1] = DOMAIN_NAME /\ SocksAddress(a)[2] = Len(a.host)
                /\ Len(SocksAddress(a)) = 4 + Len(a.host) /\ Len(a.host) \in Nat
           /\ SameBytes(a) => SocksAddress(a) = EncodeAddress(a)
<1> DEFINE p == IF a.type = DOMAIN_NAME THEN <<a.type, Len(a.host)>>
                ELSE <<IF a.type = V6 THEN ATYP_V6 ELSE a.type>>
<1>1. SocksAddress(a) = (p \o a.host) \o a.port
  BY DEF SocksAddress
<1>2. a.host \in Seq(Byte) /\ a.port \in Seq(Byte) /\ Len(a.port) = 2 /\ Len(a.host) \in Nat
  BY DEF WellFormed, PortLen
<1>3. V4 = 1 /\ V6 = 2 /\ DOMAIN_NAME = 3 /\ ATYP_V6 = 4 /\ a.type \in {1, 2, 3}
  BY DEF V4, V6, DOMAIN_NAME, ATYP_V6, WellFormed
<1>4. a.type = DOMAIN_NAME => /\ p \in Seq(Byte) /\ Len(p) = 2 /\ p[1] = 3 /\ p[2] = Len(a.host)
                              /\ p = <<a.type>> \o <<Len(a.host)>>
  <2>1. ASSUME a.type = DOMAIN_NAME PROVE a.type \in Byte /\ Len(a.host) \in Byte
    BY <1>2, <1>3, <2>1, SmallBytes, Bases DEF WellFormed, Byte
  <2>2. QED
    BY <1>3, <2>1, TwoBytes
<1>5. a.type # DOMAIN_NAME => /\ p \in Seq(Byte) /\ Len(p) = 1
                              /\ p[1] = IF a.type = V6 THEN 4 ELSE 1
  BY <1>3, SmallBytes
<1>6. a.type = V4 => p = <<a.type>>
  BY <1>3
<1> HIDE DEF p
<1>7. /\ p \o a.host \in Seq(Byte) /\ Len(p \o a.host) = Len(p) + Len(a.host)
      /\ \A i \in 1..(Len(p) + Len(a.host)) :
            (p \o a.host)[i] = IF i <= Len(p) THEN p[i] ELSE a.host[i - Len(p)]
  BY <1>2, <1>4, <1>5, ConcatProperties
<1> DEFINE q == p \o a.host
<1> HIDE DEF q
<1>8. /\ q \o a.port \in Seq(Byte) /\ Len(q \o a.port) = Len(q) + 2
      /\ \A i \in 1..(Len(q) + 2) :
            (q \o a.port)[i] = IF i <= Len(q) THEN q[i] ELSE a.port[i - Len(q)]
  <2>1. q \in Seq(Byte)
    BY <1>7 DEF q
  <2>2. /\ q \o a.port \in Seq(Byte) /\ Len(q \o a.port) = Len(q) + Len(a.port)
        /\ \A i \in 1..(Len(q) + Len(a.port)) :
              (q \o a.port)[i] = IF i <= Len(q) THEN q[i] ELSE a.port[i - Len(q)]
    BY <1>2, <2>1, ConcatProperties
  <2>3. QED
    BY <1>2, <2>2
<1>9. SocksAddress(a) \in Seq(Byte) /\ Len(SocksAddress(a)) = Len(p) + Len(a.host) + 2
  BY <1>1, <1>2, <1>4, <1>5, <1>7, <1>8 DEF q
<1>10. \A i \in 1..Len(p) : SocksAddress(a)[i] = p[i]
  <2>1. Len(p) \in Nat
    BY <1>4, <1>5
  <2>2. ASSUME NEW i \in 1..Len(p) PROVE (q \o a.port)[i] = p[i]
    <3>1. i \in 1..(Len(p) + Len(a.host)) /\ i <= Len(p) /\ Len(q) = Len(p) + Len(a.host)
          /\ i \in 1..(Len(q) + 2) /\ i <= Len(q)
      BY <1>2, <1>7, <2>1, <2>2 DEF q
    <3>2. (p \o a.host)[i] = p[i]
      BY <1>7, <3>1
    <3>3. QED
      BY <1>8, <3>1, <3>2 DEF q
  <2>3. QED
    BY <1>1, <2>2 DEF q
<1>11. ASSUME a.type = V4
       PROVE  SocksAddress(a)[1] = V4 /\ Len(SocksAddress(a)) = 7 /\ SocksAddress(a) = EncodeAddress(a)
  <2>1. Len(a.host) = 4 /\ a.type # DOMAIN_NAME
    BY <1>3, <1>11 DEF WellFormed, HostLen
  <2>2. Len(p) = 1 /\ p[1] = 1 /\ p = <<a.type>>
    BY <1>3, <1>5, <1>6, <1>11
  <2>3. EncodeAddress(a) = (<<a.type>> \o a.host) \o a.port
    BY <2>1 DEF EncodeAddress
  <2>4. SocksAddress(a) = EncodeAddress(a)
    BY <1>1, <2>2, <2>3
  <2>5. SocksAddress(a)[1] = V4 /\ Len(SocksAddress(a)) = 7
    BY <1>3, <1>9, <1>10, <2>1, <2>2
  <2>6. QED
    BY <2>4, <2>5
<1>12. ASSUME a.type = V6
       PROVE  SocksAddress(a)[1] = ATYP_V6 /\ Len(SocksAddress(a)) = 19
  <2>1. Len(a.host) = 16 /\ a.type # DOMAIN_NAME
    BY <1>3, <1>12 DEF WellFormed, HostLen
  <2>2. Len(p) = 1 /\ p[1] = 4
    BY <1>3, <1>5, <1>12
  <2>3. QED
    BY <1>3, <1>9, <1>10, <2>1, <2>2
<1>13. ASSUME a.type = DOMAIN_NAME
       PROVE  /\ SocksAddress(a)[1] = DOMAIN_NAME /\ SocksAddress(a)[2] = Len(a.host)
              /\ Len(SocksAddress(a)) = 4 + Len(a.host)
              /\ Len(a.host) < Low => SocksAddress(a) = EncodeAddress(a)
  <2>1. Len(p) = 2 /\ p[1] = 3 /\ p[2] = Len(a.host) /\ p = <<a.type>> \o <<Len(a.host)>>
    BY <1>4, <1>13
  <2>2. ASSUME Len(a.host) < Low PROVE SocksAddress(a) = EncodeAddress(a)
    <3>1. EncodeVarint(Len(a.host)) = <<Len(a.host)>> /\ Len(a.host) \in Byte
      BY <1>2, <2>2, ShortLength
    <3>2. EncodeAddress(a) = (<<a.type>> \o (<<Len(a.host)>> \o a.host)) \o a.port
      BY <1>13, <3>1 DEF EncodeAddress, EncodeBytes
    <3>3. <<a.type>> \in Seq(Byte) /\ <<Len(a.host)>> \in Seq(Byte)
      BY <1>3, <3>1, SmallBytes
    <3>4. <<a.type>> \o (<<Len(a.host)>> \o a.host) = p \o a.host
      BY <1>2, <2>1, <3>3, ConcatAssociative
    <3>5. QED
      BY <1>1, <3>2, <3>4
  <2>3. QED
    BY <1>2, <1>3, <1>9, <1>10, <2>1, <2>2
<1>14. QED
  BY <1>2, <1>3, <1>9, <1>11, <1>12, <1>13 DEF SameBytes, ShortName

----------------------------------------------------------------------------
(* What each reading asks for, from what it has read so far. *)

\* w leads a reading to exactly the bytes of X.
Asks(w, b, X) == w \in Nat /\ w <= Len(X) /\ (w <= Len(b) => Len(X) <= Len(b))

LEMMA AsksAll ==
    ASSUME NEW w, NEW b, NEW X, w = Len(X), Len(X) \in Nat
    PROVE  Asks(w, b, X)
BY DEF Asks

LEMMA AsksMore ==
    ASSUME NEW w, NEW b, NEW X, w \in Nat, w <= Len(X), ~(w <= Len(b))
    PROVE  Asks(w, b, X)
BY DEF Asks

\* A part of a sequence.
LEMMA Part ==
    ASSUME NEW s \in Seq(Byte), NEW t \in Seq(Byte), NEW w \in Seq(Byte), NEW b, b = s \o (t \o w)
    PROVE  /\ b \in Seq(Byte) /\ Len(b) = Len(s) + (Len(t) + Len(w))
           /\ SubSeq(b, Len(s) + 1, Len(s) + Len(t)) = t
           /\ \A i \in 1..Len(s) : b[i] = s[i]
           /\ \A i \in 1..Len(t) : b[Len(s) + i] = t[i]
           /\ Len(s) \in Nat /\ Len(t) \in Nat /\ Len(w) \in Nat
<1>1. /\ b \in Seq(Byte) /\ t \o w \in Seq(Byte) /\ Len(b) = Len(s) + (Len(t) + Len(w))
      /\ Len(s) \in Nat /\ Len(t) \in Nat /\ Len(w) \in Nat /\ Len(b) \in Nat
  BY Concat3, LenProperties
<1>2. Agree(b, b)
  BY <1>1, AgreeSelf
<1>3. Agree(b, s) /\ Len(s) <= Len(b) /\ Agree(From(b, Len(s)), t \o w)
  <2>1. Agree(b, s \o (t \o w)) /\ Len(s) <= Len(b)
    BY <1>1, <1>2
  <2>2. Agree(b, s) /\ (Len(s) <= Len(b) => Agree(From(b, Len(s)), t \o w))
    <3> DEFINE c == t \o w
    <3>1. Agree(b, s \o c) /\ c \in Seq(Byte)
      BY <1>1, <2>1
    <3> HIDE DEF c
    <3>2. Agree(b, s) /\ (Len(s) <= Len(b) => Agree(From(b, Len(s)), c))
      BY <1>1, <3>1, AgreeSplit
    <3>3. QED
      BY <3>2 DEF c
  <2>3. QED
    BY <2>1, <2>2
<1>4. Len(s) \in 0..Len(b) /\ Len(s) + Len(t) <= Len(b)
  BY <1>1
<1>5. /\ From(b, Len(s)) \in Seq(Byte) /\ Len(From(b, Len(s))) = Len(b) - Len(s)
      /\ \A i \in 1..(Len(b) - Len(s)) : From(b, Len(s))[i] = b[Len(s) + i]
  BY <1>1, <1>4, Behind
<1>6. Agree(From(b, Len(s)), t)
  BY <1>1, <1>3, <1>5, AgreeSplit
<1>7. SubSeq(b, Len(s) + 1, Len(s) + Len(t)) = t
  BY <1>1, <1>4, <1>6, AgreeWhole
<1>8. \A i \in 1..Len(s) : b[i] = s[i]
  BY <1>1, <1>3 DEF Agree
<1>9. ASSUME NEW i \in 1..Len(t) PROVE b[Len(s) + i] = t[i]
  <2>1. i \in 1..(Len(b) - Len(s)) /\ i <= Len(t)
    BY <1>1
  <2>2. From(b, Len(s))[i] = t[i]
    BY <1>5, <1>6, <2>1 DEF Agree
  <2>3. QED
    BY <1>5, <2>1, <2>2
<1>10. QED
  BY <1>1, <1>7, <1>8, <1>9

\* read_message asks for the bytes of its message and no more.
LEMMA MessageAsks ==
    ASSUME NEW E \in Seq(Byte), Len(E) < Limit(8), NEW b \in Seq(Byte), Agree(b, LengthPrefixed(E))
    PROVE  /\ Asks(WantedForMessage(b), b, LengthPrefixed(E))
           /\ b # <<>> => PrefixLen(Head(b)) = Len(EncodeVarint(Len(E)))
<1> DEFINE V == EncodeVarint(Len(E))
           X == LengthPrefixed(E)
           n == Len(V)
<1>1. /\ Len(E) \in Nat /\ V \in Seq(Byte) /\ X \in Seq(Byte) /\ Len(X) = n + Len(E) /\ n \in Nat
      /\ Len(b) \in Nat /\ X = V \o E
  BY BytesEncoded DEF LengthPrefixed, EncodeBytes
<1>2. V # <<>> /\ PrefixLen(Head(V)) = n /\ n > 0
  <2>1. V # <<>> /\ PrefixLen(Head(V)) = VarintLen(Len(E)) /\ Len(V) = VarintLen(Len(E))
    BY <1>1, VarintBytes
  <2>2. QED
    BY <1>1, <2>1, EmptySeq
<1>3. Agree(b, V)
  BY <1>1, AgreeSplit
<1>4. Decodes(DecodeVarint(b), b, V, Len(E))
  BY <1>1, <1>3, VarintDecodes, LengthFits
<1> HIDE DEF V, X, n
<1>5. CASE b = <<>>
  <2>1. WantedForMessage(b) = 1 /\ Len(b) = 0
    BY <1>5 DEF WantedForMessage
  <2>2. QED
    BY <1>1, <1>2, <1>5, <2>1 DEF Asks, X
<1>6. CASE b # <<>>
  <2>1. PrefixLen(Head(b)) = n
    BY <1>1, <1>2, <1>3, <1>6, AgreeStart
  <2>2. CASE Len(b) < n
    <3>1. WantedForMessage(b) = n
      BY <1>6, <2>1, <2>2 DEF WantedForMessage
    <3>2. QED
      BY <1>1, <2>1, <2>2, <3>1 DEF Asks, X, n, V
  <2>3. CASE n <= Len(b)
    <3>1. DecodeVarint(b) = Ok(Len(E), n)
      BY <1>4, <2>3 DEF Decodes, n
    <3>2. DecodeVarint(b).value = Len(E)
      BY <3>1, Outcomes
    <3>3. WantedForMessage(b) = n + Len(E)
      BY <1>1, <1>6, <2>1, <2>3, <3>2 DEF WantedForMessage
    <3>4. QED
      BY <1>1, <2>1, <2>3, <3>3 DEF Asks, X, n, V
  <2>4. QED
    BY <1>1, <2>2, <2>3
<1>7. QED
  BY <1>5, <1>6

MethodBytes(m) == <<SOCKS_VERSION, Len(m)>> \o m

\* negotiate_method asks for the bytes of the greeting and no more.
LEMMA MethodsAsk ==
    ASSUME NEW m \in Seq(Byte), Len(m) \in Byte, NEW b \in Seq(Byte), Agree(b, MethodBytes(m))
    PROVE  Asks(WantedForMethods(b), b, MethodBytes(m)) /\ MethodBytes(m) \in Seq(Byte)
<1> DEFINE p == <<SOCKS_VERSION, Len(m)>>
           X == MethodBytes(m)
<1>1. p \in Seq(Byte) /\ Len(p) = 2 /\ p[2] = Len(m)
  BY SmallBytes, TwoBytes DEF SOCKS_VERSION
<1>2. X = p \o m
  BY DEF MethodBytes
<1> HIDE DEF p, X
<1>3. /\ X \in Seq(Byte) /\ Len(X) = 2 + Len(m) /\ Len(m) \in Nat /\ Len(b) \in Nat
      /\ \A i \in 1..(Len(p) + Len(m)) : X[i] = IF i <= Len(p) THEN p[i] ELSE m[i - Len(p)]
  <2>1. /\ p \o m \in Seq(Byte) /\ Len(p \o m) = Len(p) + Len(m)
        /\ \A i \in 1..(Len(p) + Len(m)) : (p \o m)[i] = IF i <= Len(p) THEN p[i] ELSE m[i - Len(p)]
    BY <1>1, ConcatProperties
  <2>2. QED
    BY <1>1, <1>2, <2>1
<1>4. X[2] = Len(m)
  <2>1. 2 \in 1..(Len(p) + Len(m)) /\ 2 <= Len(p)
    BY <1>1, <1>3
  <2>2. QED
    BY <1>1, <1>3, <2>1
<1>5. Len(b) >= 2 => b[2] = Len(m)
  <2>1. Agree(b, X)
    BY DEF X
  <2>2. Len(b) >= 2 => 2 \in 1..Len(b) /\ 2 <= Len(X)
    BY <1>3
  <2>3. QED
    BY <1>4, <2>1, <2>2 DEF Agree
<1>6. WantedForMethods(b) = IF Len(b) < 2 THEN 2 ELSE 2 + b[2]
  BY DEF WantedForMethods
<1>7. Asks(WantedForMethods(b), b, X)
  BY <1>3, <1>5, <1>6 DEF Asks
<1>8. QED
  BY <1>3, <1>7 DEF X

UserpassBytes(u, p) == <<1, Len(u)>> \o u \o <<Len(p)>> \o p

\* Where the parts of a login are.
LEMMA UserpassParts ==
    ASSUME NEW u \in Seq(Byte), Len(u) \in Byte, NEW p \in Seq(Byte), Len(p) \in Byte, NEW X,
           X = UserpassBytes(u, p)
    PROVE  /\ X \in Seq(Byte) /\ Len(X) = 3 + Len(u) + Len(p) /\ Len(u) \in Nat /\ Len(p) \in Nat
           /\ X[1] = 1 /\ X[2] = Len(u) /\ X[3 + Len(u)] = Len(p)
           /\ SubSeq(X, 3, 2 + Len(u)) = u /\ SubSeq(X, 4 + Len(u), Len(X)) = p
<1> DEFINE a == <<1, Len(u)>>
           c == <<Len(p)>>
<1>1. /\ a \in Seq(Byte) /\ Len(a) = 2 /\ a[1] = 1 /\ a[2] = Len(u)
      /\ c \in Seq(Byte) /\ Len(c) = 1 /\ c[1] = Len(p)
  BY SmallBytes, TwoBytes, OneByte
<1>2. X = ((a \o u) \o c) \o p
  BY DEF UserpassBytes
<1> HIDE DEF a, c
<1>3. a \o u \in Seq(Byte) /\ Len(a \o u) = 2 + Len(u) /\ Len(u) \in Nat /\ Len(p) \in Nat
  <2>1. a \o u \in Seq(Byte) /\ Len(a \o u) = Len(a) + Len(u)
    BY <1>1, ConcatProperties
  <2>2. Len(u) \in Nat /\ Len(p) \in Nat
    BY LenProperties
  <2>3. QED
    BY <1>1, <2>1, <2>2
<1>4. c \o p \in Seq(Byte) /\ Len(c \o p) = 1 + Len(p)
  <2>1. c \o p \in Seq(Byte) /\ Len(c \o p) = Len(c) + Len(p)
    BY <1>1, ConcatProperties
  <2>2. QED
    BY <1>1, <2>1
<1>5. X = (a \o u) \o (c \o p)
  <2>1. a \o u \in Seq(Byte) /\ c \in Seq(Byte)
    BY <1>1, <1>3
  <2>2. QED
    BY <1>2, <2>1, ConcatAssociative
<1>6. X = a \o (u \o (c \o p))
  <2> DEFINE w == c \o p
  <2>1. a \in Seq(Byte) /\ w \in Seq(Byte) /\ X = (a \o u) \o w
    BY <1>1, <1>4, <1>5
  <2> HIDE DEF w
  <2>2. X = a \o (u \o w)
    BY <2>1, ConcatAssociative
  <2>3. QED
    BY <2>2 DEF w
<1>7. /\ X \in Seq(Byte) /\ Len(X) = 2 + (Len(u) + (1 + Len(p)))
      /\ SubSeq(X, 2 + 1, 2 + Len(u)) = u /\ \A i \in 1..2 : X[i] = a[i]
  <2> DEFINE w == c \o p
  <2>1. a \in Seq(Byte) /\ w \in Seq(Byte) /\ X = a \o (u \o w)
    BY <1>1, <1>4, <1>6
  <2>4. Len(w) = 1 + Len(p)
    BY <1>4
  <2> HIDE DEF w
  <2>2. /\ X \in Seq(Byte) /\ Len(X) = Len(a) + (Len(u) + Len(w))
        /\ SubSeq(X, Len(a) + 1, Len(a) + Len(u)) = u /\ \A i \in 1..Len(a) : X[i] = a[i]
    BY <2>1, Part
  <2>3. QED
    BY <1>1, <2>2, <2>4
<1>8. X[3 + Len(u)] = Len(p)
  <2> DEFINE s == a \o u
  <2>1. s \in Seq(Byte) /\ c \in Seq(Byte) /\ X = s \o (c \o p)
    BY <1>1, <1>3, <1>5
  <2>5. Len(s) = 2 + Len(u)
    BY <1>3
  <2> HIDE DEF s
  <2>2. \A i \in 1..Len(c) : X[Len(s) + i] = c[i]
    BY <2>1, Part
  <2>3. 1 \in 1..Len(c) /\ Len(s) + 1 = 3 + Len(u)
    BY <1>1, <1>3, <2>5
  <2>4. QED
    BY <1>1, <2>2, <2>3
<1>9. SubSeq(X, 4 + Len(u), Len(X)) = p
  <2> DEFINE s == (a \o u) \o c
             e == <<>>
  <2>1. s \in Seq(Byte) /\ Len(s) = 3 + Len(u)
    <3> HIDE DEF e
    <3>1. s \in Seq(Byte) /\ Len(s) = Len(a \o u) + Len(c)
      BY <1>1, <1>3, ConcatProperties
    <3> HIDE DEF s
    <3>2. QED
      BY <1>1, <1>3, <3>1
  <2>2. e \in Seq(Byte) /\ p \o e = p
    BY ConcatEmptySeq
  <2>3. X = s \o (p \o e)
    BY <1>2, <2>2
  <2> HIDE DEF s, e
  <2>7. s \in Seq(Byte) /\ e \in Seq(Byte)
    BY <2>1, <2>2
  <2>4. SubSeq(X, Len(s) + 1, Len(s) + Len(p)) = p
    BY <2>3, <2>7, Part
  <2>5. Len(s) + 1 = 4 + Len(u) /\ Len(s) + Len(p) = Len(X)
    BY <1>3, <1>7, <2>1
  <2>6. QED
    BY <2>4, <2>5
<1>10. 2 + 1 = 3 /\ 1 \in 1..2 /\ 2 \in 1..2 /\ Len(X) = 3 + Len(u) + Len(p)
  BY <1>3, <1>7
<1>11. QED
  BY <1>1, <1>3, <1>7, <1>8, <1>9, <1>10

\* verify_userpass asks for the bytes of the login and no more.
LEMMA UserpassAsks ==
    ASSUME NEW u \in Seq(Byte), Len(u) \in Byte, NEW p \in Seq(Byte), Len(p) \in Byte,
           NEW b \in Seq(Byte), Agree(b, UserpassBytes(u, p))
    PROVE  Asks(WantedForUserpass(b), b, UserpassBytes(u, p))
<1> DEFINE X == UserpassBytes(u, p)
<1>1. /\ X \in Seq(Byte) /\ Len(X) = 3 + Len(u) + Len(p) /\ Len(u) \in Nat /\ Len(p) \in Nat
      /\ X[1] = 1 /\ X[2] = Len(u) /\ X[3 + Len(u)] = Len(p)
  BY UserpassParts
<1>2. Agree(b, X) /\ Len(b) \in Nat
  OBVIOUS
<1> HIDE DEF X
<1>3. Len(b) >= 2 => b[2] = Len(u)
  <2>1. Len(b) >= 2 => 2 \in 1..Len(b) /\ 2 <= Len(X)
    BY <1>1, <1>2
  <2>2. QED
    BY <1>1, <1>2, <2>1 DEF Agree
<1>4. Len(b) >= 3 + Len(u) => b[3 + Len(u)] = Len(p)
  <2>1. Len(b) >= 3 + Len(u) => 3 + Len(u) \in 1..Len(b) /\ 3 + Len(u) <= Len(X)
    BY <1>1, <1>2
  <2>2. QED
    BY <1>1, <1>2, <2>1 DEF Agree
<1>5. WantedForUserpass(b) = IF Len(b) < 2 THEN 2
                             ELSE IF Len(b) < 2 + Len(u) THEN 2 + Len(u)
                             ELSE IF Len(b) < 3 + Len(u) THEN 3 + Len(u)
                             ELSE 3 + Len(u) + Len(p)
  <2>1. CASE Len(b) < 2
    BY <2>1 DEF WantedForUserpass
  <2>2. CASE Len(b) >= 2
    <3>1. b[2] = Len(u)
      BY <1>3, <2>2
    <3>2. CASE Len(b) < 3 + Len(u)
      BY <1>1, <1>2, <2>2, <3>1, <3>2 DEF WantedForUserpass
    <3>3. CASE Len(b) >= 3 + Len(u)
      <4>1. b[3 + b[2]] = Len(p)
        BY <1>4, <3>1, <3>3
      <4>2. QED
        BY <1>1, <1>2, <2>2, <3>1, <3>3, <4>1 DEF WantedForUserpass
    <3>4. QED
      BY <1>1, <1>2, <3>2, <3>3
  <2>3. QED
    BY <1>2, <2>1, <2>2
<1>6. Asks(WantedForUserpass(b), b, X)
  <2>1. CASE Len(b) < 2
    <3>1. WantedForUserpass(b) = 2
      BY <1>1, <1>2, <1>5, <2>1
    <3>2. 2 \in Nat /\ 2 <= Len(X) /\ ~(2 <= Len(b))
      BY <1>1, <1>2, <2>1
    <3>3. QED
      BY <3>1, <3>2, AsksMore
  <2>2. CASE Len(b) >= 2 /\ Len(b) < 2 + Len(u)
    <3>1. WantedForUserpass(b) = 2 + Len(u)
      BY <1>1, <1>2, <1>5, <2>2
    <3>2. 2 + Len(u) \in Nat /\ 2 + Len(u) <= Len(X) /\ ~(2 + Len(u) <= Len(b))
      BY <1>1, <1>2, <2>2
    <3>3. QED
      BY <3>1, <3>2, AsksMore
  <2>3. CASE Len(b) >= 2 + Len(u) /\ Len(b) < 3 + Len(u)
    <3>1. WantedForUserpass(b) = 3 + Len(u)
      BY <1>1, <1>2, <1>5, <2>3
    <3>2. 3 + Len(u) \in Nat /\ 3 + Len(u) <= Len(X) /\ ~(3 + Len(u) <= Len(b))
      BY <1>1, <1>2, <2>3
    <3>3. QED
      BY <3>1, <3>2, AsksMore
  <2>4. CASE Len(b) >= 3 + Len(u)
    <3>1. WantedForUserpass(b) = Len(X) /\ Len(X) \in Nat
      BY <1>1, <1>2, <1>5, <2>4
    <3>2. QED
      BY <3>1, AsksAll
  <2>5. QED
    BY <1>1, <1>2, <2>1, <2>2, <2>3, <2>4
<1>7. QED
  BY <1>6 DEF X

RequestBytes(c, a) == <<SOCKS_VERSION, c, 0>> \o SocksAddress(a)

\* Where the parts of a request are.
LEMMA RequestParts ==
    ASSUME NEW c \in Byte, NEW a, WellFormed(a), NEW X, X = RequestBytes(c, a)
    PROVE  /\ X \in Seq(Byte) /\ Len(X) = 3 + Len(SocksAddress(a)) /\ Len(SocksAddress(a)) >= 2
           /\ Len(SocksAddress(a)) \in Nat /\ X[1] = SOCKS_VERSION /\ X[2] = c
           /\ X[4] = SocksAddress(a)[1] /\ X[5] = SocksAddress(a)[2]
           /\ SubSeq(X, 4, Len(X)) = SocksAddress(a)
<1> DEFINE h == <<SOCKS_VERSION, c, 0>>
           A == SocksAddress(a)
           e == <<>>
<1>1. h \in Seq(Byte) /\ Len(h) = 3 /\ h[1] = SOCKS_VERSION /\ h[2] = c
  BY SmallBytes DEF SOCKS_VERSION
<1>2. A \in Seq(Byte) /\ Len(A) \in Nat /\ Len(A) >= 2
  <2>1. a.type \in {V4, V6, DOMAIN_NAME}
    BY DEF WellFormed
  <2>2. A \in Seq(Byte)
    BY SocksAddressBytes
  <2>3. CASE a.type = V4
    <3>1. Len(A) = 7
      BY <2>3, SocksAddressBytes
    <3>2. QED
      BY <2>2, <3>1
  <2>4. CASE a.type = V6
    <3>1. Len(A) = 19
      BY <2>4, SocksAddressBytes
    <3>2. QED
      BY <2>2, <3>1
  <2>5. CASE a.type = DOMAIN_NAME
    <3>1. Len(A) = 4 + Len(a.host) /\ Len(a.host) \in Nat
      BY <2>5, SocksAddressBytes
    <3>2. Len(A) >= 2 /\ Len(A) \in Nat
      BY <3>1
    <3>3. QED
      BY <2>2, <3>2
  <2>6. QED
    BY <2>1, <2>3, <2>4, <2>5
<1>3. X = h \o A /\ e \in Seq(Byte) /\ A \o e = A /\ Len(e) = 0
  BY <1>2, ConcatEmptySeq DEF RequestBytes
<1> HIDE DEF h, A, e
<1>4. /\ X \in Seq(Byte) /\ Len(X) = Len(h) + (Len(A) + Len(e))
      /\ SubSeq(X, Len(h) + 1, Len(h) + Len(A)) = A
      /\ \A i \in 1..Len(h) : X[i] = h[i]
      /\ \A i \in 1..Len(A) : X[Len(h) + i] = A[i]
  <2>1. h \in Seq(Byte) /\ A \in Seq(Byte) /\ e \in Seq(Byte) /\ X = h \o (A \o e)
    BY <1>1, <1>2, <1>3
  <2>2. QED
    BY <2>1, Part
<1>5. /\ 1 \in 1..3 /\ 2 \in 1..3 /\ 3 + 1 = 4 /\ 3 + 2 = 5 /\ 1 \in 1..Len(A) /\ 2 \in 1..Len(A)
      /\ Len(X) = 3 + Len(A)
  BY <1>1, <1>2, <1>3, <1>4
<1>6. X[1] = SOCKS_VERSION /\ X[2] = c /\ X[4] = A[1] /\ X[5] = A[2]
  <2>1. X[1] = h[1] /\ X[2] = h[2] /\ X[3 + 1] = A[1] /\ X[3 + 2] = A[2]
    BY <1>1, <1>4, <1>5
  <2>2. QED
    BY <1>1, <1>5, <2>1
<1>7. SubSeq(X, 4, Len(X)) = A
  <2>1. SubSeq(X, 3 + 1, 3 + Len(A)) = A
    BY <1>1, <1>4
  <2>2. QED
    BY <1>5, <2>1
<1>8. QED
  BY <1>2, <1>4, <1>5, <1>6, <1>7 DEF A

\* read_request asks for the bytes of the request and no more.
LEMMA RequestAsks ==
    ASSUME NEW c \in Byte, NEW a, WellFormed(a), NEW b \in Seq(Byte), Agree(b, RequestBytes(c, a))
    PROVE  Asks(WantedForRequest(b), b, RequestBytes(c, a))
<1> DEFINE X == RequestBytes(c, a)
           A == SocksAddress(a)
<1>1. /\ X \in Seq(Byte) /\ Len(X) = 3 + Len(A) /\ Len(A) >= 2 /\ Len(A) \in Nat
      /\ X[4] = A[1] /\ X[5] = A[2] /\ Agree(b, X) /\ Len(b) \in Nat
  BY RequestParts
<1>2. a.type \in {V4, V6, DOMAIN_NAME}
  BY DEF WellFormed
<1>3. /\ a.type = V4 => A[1] = V4 /\ Len(A) = 7
      /\ a.type = V6 => A[1] = ATYP_V6 /\ Len(A) = 19
      /\ a.type = DOMAIN_NAME => /\ A[1] = DOMAIN_NAME /\ A[2] = Len(a.host)
                                 /\ Len(A) = 4 + Len(a.host) /\ Len(a.host) \in Nat
  BY SocksAddressBytes
<1> HIDE DEF X, A
<1>4. Len(b) >= 4 => b[4] = A[1]
  <2>1. Len(b) >= 4 => 4 \in 1..Len(b) /\ 4 <= Len(X)
    BY <1>1
  <2>2. QED
    BY <1>1, <2>1 DEF Agree
<1>5. Len(b) >= 5 => b[5] = A[2]
  <2>1. Len(b) >= 5 => 5 \in 1..Len(b) /\ 5 <= Len(X)
    BY <1>1
  <2>2. QED
    BY <1>1, <2>1 DEF Agree
<1>6. V4 = 1 /\ DOMAIN_NAME = 3 /\ ATYP_V6 = 4
  BY DEF V4, DOMAIN_NAME, ATYP_V6
<1>7. Asks(WantedForRequest(b), b, X)
  <2>1. CASE Len(b) < 4
    <3>1. WantedForRequest(b) = 4
      BY <2>1 DEF WantedForRequest
    <3>2. QED
      BY <1>1, <2>1, <3>1 DEF Asks
  <2>2. CASE Len(b) >= 4 /\ a.type = V4
    <3>1. WantedForRequest(b) = 10
      BY <1>1, <1>3, <1>4, <1>6, <2>2 DEF WantedForRequest
    <3>2. Len(A) = 7
      BY <1>3, <2>2
    <3>3. Len(X) = 3 + Len(A)
      BY <1>1
    <3>4. WantedForRequest(b) = Len(X) /\ Len(X) \in Nat
      BY <3>1, <3>2, <3>3
    <3>5. QED
      BY <3>4, AsksAll
  <2>3. CASE Len(b) >= 4 /\ a.type = V6
    <3>1. WantedForRequest(b) = 22
      BY <1>1, <1>3, <1>4, <1>6, <2>3 DEF WantedForRequest
    <3>2. Len(A) = 19
      BY <1>3, <2>3
    <3>3. Len(X) = 3 + Len(A)
      BY <1>1
    <3>4. WantedForRequest(b) = Len(X) /\ Len(X) \in Nat
      BY <3>1, <3>2, <3>3
    <3>5. QED
      BY <3>4, AsksAll
  <2>4. CASE Len(b) >= 4 /\ a.type = DOMAIN_NAME
    <3>1. WantedForRequest(b) = IF Len(b) < 5 THEN 5 ELSE 5 + b[5] + 2
      BY <1>1, <1>3, <1>4, <1>6, <2>4 DEF WantedForRequest
    <3>2. WantedForRequest(b) = IF Len(b) < 5 THEN 5 ELSE 5 + Len(a.host) + 2
      BY <1>1, <1>3, <1>5, <2>4, <3>1
    <3>3. Len(X) = 5 + Len(a.host) + 2 /\ Len(a.host) \in Nat
      BY <1>1, <1>3, <2>4
    <3>4. CASE Len(b) < 5
      <4>1. WantedForRequest(b) = 5 /\ 5 <= Len(X) /\ ~(5 <= Len(b))
        BY <1>1, <3>2, <3>3, <3>4
      <4>2. QED
        BY <4>1, AsksMore
    <3>5. CASE Len(b) >= 5
      <4>1. WantedForRequest(b) = Len(X) /\ Len(X) \in Nat
        BY <1>1, <3>2, <3>3, <3>5
      <4>2. QED
        BY <4>1, AsksAll
    <3>6. QED
      BY <1>1, <3>4, <3>5
  <2>5. QED
    BY <1>1, <1>2, <2>1, <2>2, <2>3, <2>4
<1>8. QED
  BY <1>7 DEF X

----------------------------------------------------------------------------
(* The pieces a peer's bytes are made of. *)

MethodPart(s) == MethodBytes(s.methods)
LoginPart(s) == IF s.login = <<>> THEN <<>> ELSE UserpassBytes(s.login[1], s.login[2])
RequestPart(s) == RequestBytes(s.cmd, s.address)

LEMMA SessionValues ==
    ASSUME NEW s \in Sessions
    PROVE  /\ s.methods \in Seq(Byte) /\ Len(s.methods) \in Byte
           /\ s.cmd \in Byte /\ WellFormed(s.address) /\ s.address \in Addresses
           /\ s.login # <<>> => /\ s.login = <<s.login[1], s.login[2]>>
                                /\ s.login[1] \in Seq(Byte) /\ Len(s.login[1]) \in Byte
                                /\ s.login[2] \in Seq(Byte) /\ Len(s.login[2]) \in Byte
<1>1. /\ s.methods \in {<<0>>, <<2>>, <<0, 2>>} /\ s.login \in Logins \cup {<<>>}
      /\ s.cmd \in {1, 2, 3} /\ s.address \in Addresses
  BY DEF Sessions, CMD_CONNECT, CMD_BIND, CMD_UDP_ASSOCIATE
<1>2. s.methods \in Seq(Byte) /\ Len(s.methods) \in Byte
  <2>1. 0 \in Byte /\ 2 \in Byte /\ 1 \in Byte
    BY SmallBytes
  <2>2. <<0>> \in Seq(Byte) /\ Len(<<0>>) = 1 /\ <<2>> \in Seq(Byte) /\ Len(<<2>>) = 1
    BY <2>1
  <2>3. <<0, 2>> \in Seq(Byte) /\ Len(<<0, 2>>) = 2
    BY <2>1
  <2>4. s.methods = <<0>> \/ s.methods = <<2>> \/ s.methods = <<0, 2>>
    BY <1>1
  <2>5. QED
    BY <2>1, <2>2, <2>3, <2>4
<1>3. s.cmd \in Byte
  BY <1>1, SmallBytes
<1>4. WellFormed(s.address)
  BY <1>1, ReadersAssumption DEF WellFormed
<1>5. ASSUME s.login # <<>>
      PROVE  /\ s.login = <<s.login[1], s.login[2]>>
             /\ s.login[1] \in Seq(Byte) /\ Len(s.login[1]) \in Byte
             /\ s.login[2] \in Seq(Byte) /\ Len(s.login[2]) \in Byte
  <2>1. s.login \in Logins
    BY <1>1, <1>5
  <2>2. s.login = <<s.login[1], s.login[2]>>
    BY <2>1, ReadersAssumption
  <2>3. \A i \in 1..2 : s.login[i] \in Seq(Byte) /\ Len(s.login[i]) < Radix
    BY <2>1, ReadersAssumption
  <2>4. \A i \in 1..2 : Len(s.login[i]) \in Nat
    BY <2>3, LenProperties
  <2>5. 1 \in 1..2 /\ 2 \in 1..2
    OBVIOUS
  <2>6. \A n \in Nat : n < Radix => n \in Byte
    BY Bases DEF Byte
  <2>7. QED
    BY <2>2, <2>3, <2>4, <2>5, <2>6
<1>6. QED
  BY <1>1, <1>2, <1>3, <1>4, <1>5

LEMMA SessionBytes ==
    ASSUME NEW s \in Sessions
    PROVE  /\ MethodPart(s) \in Seq(Byte) /\ LoginPart(s) \in Seq(Byte) /\ RequestPart(s) \in Seq(Byte)
           /\ SocksBytes(s) = (MethodPart(s) \o LoginPart(s)) \o RequestPart(s)
<1> DEFINE M == MethodPart(s)
           L == LoginPart(s)
           h == <<SOCKS_VERSION, s.cmd, 0>>
           A == SocksAddress(s.address)
<1>1. M \in Seq(Byte)
  <2>1. s.methods \in Seq(Byte) /\ Len(s.methods) \in Byte
    BY SessionValues
  <2>2. <<SOCKS_VERSION, Len(s.methods)>> \in Seq(Byte)
    BY <2>1, SmallBytes DEF SOCKS_VERSION
  <2>3. QED
    BY <2>1, <2>2, ConcatProperties DEF MethodPart, MethodBytes
<1>2. L \in Seq(Byte)
  <2>1. CASE s.login = <<>>
    BY <2>1 DEF LoginPart
  <2>2. CASE s.login # <<>>
    BY <2>2, SessionValues, UserpassParts DEF LoginPart
  <2>3. QED
    BY <2>1, <2>2
<1>3. h \in Seq(Byte) /\ A \in Seq(Byte)
  BY SessionValues, SmallBytes, SocksAddressBytes DEF SOCKS_VERSION
<1>4. RequestPart(s) = h \o A
  BY DEF RequestPart, RequestBytes
<1>5. RequestPart(s) \in Seq(Byte)
  BY <1>3, <1>4, ConcatProperties
<1>6. SocksBytes(s) = ((M \o L) \o h) \o A
  BY DEF SocksBytes, MethodPart, MethodBytes, LoginPart, UserpassBytes
<1> HIDE DEF M, L, h, A
<1>7. M \o L \in Seq(Byte)
  BY <1>1, <1>2, ConcatProperties
<1>8. SocksBytes(s) = (M \o L) \o (h \o A)
  <2> DEFINE w == M \o L
  <2>1. w \in Seq(Byte) /\ SocksBytes(s) = (w \o h) \o A
    BY <1>6, <1>7
  <2> HIDE DEF w
  <2>2. SocksBytes(s) = w \o (h \o A)
    BY <1>3, <2>1, ConcatAssociative
  <2>3. QED
    BY <2>2 DEF w
<1>9. QED
  BY <1>1, <1>2, <1>4, <1>5, <1>8 DEF M, L

\* What a reading has got of the piece X, which begins behind P.
Place(P, X, g, t) ==
    g \in Seq(Byte) /\ Len(g) <= Len(X) /\ t = Len(P) + Len(g) /\ Agree(g, X)

\* A reading begins with nothing read of its piece.
LEMMA PlaceStart ==
    ASSUME NEW P \in Seq(Byte), NEW X \in Seq(Byte)
    PROVE  Place(P, X, <<>>, Len(P))
<1>1. Len(P) \in Nat /\ Len(X) \in Nat
  OBVIOUS
<1>2. <<>> \in Seq(Byte) /\ Len(<<>>) = 0
  OBVIOUS
<1>3. Agree(<<>>, X)
  BY <1>2 DEF Agree
<1>4. QED
  BY <1>1, <1>2, <1>3 DEF Place

\* One that has read as much as its piece has read its piece.
LEMMA PlaceEnd ==
    ASSUME NEW P \in Seq(Byte), NEW X \in Seq(Byte), NEW g, NEW t, Place(P, X, g, t), Len(X) <= Len(g)
    PROVE  g = X /\ t = Len(P) + Len(X)
<1>1. g \in Seq(Byte) /\ Len(g) = Len(X) /\ t = Len(P) + Len(X)
  BY DEF Place
<1>2. \A i \in 1..Len(g) : g[i] = X[i]
  BY <1>1 DEF Place, Agree
<1>3. QED
  BY <1>1, <1>2, SeqEqual

\* The bytes read last, of b.
LastRead(b, g, t) == SubSeq(b, t - Len(g) + 1, t) = g

\* What a reading has got is what was read last.
LEMMA PlaceHolds ==
    ASSUME NEW P \in Seq(Byte), NEW X \in Seq(Byte), NEW Z \in Seq(Byte), NEW b, b = P \o (X \o Z),
           NEW g, NEW t, Place(P, X, g, t)
    PROVE  LastRead(b, g, t)
<1>1. /\ b \in Seq(Byte) /\ Len(P) \in Nat /\ Len(X) \in Nat /\ Len(Z) \in Nat
      /\ Len(b) = Len(P) + (Len(X) + Len(Z)) /\ \A i \in 1..Len(X) : b[Len(P) + i] = X[i]
  BY Part
<1>2. g \in Seq(Byte) /\ Len(g) \in Nat /\ Len(g) <= Len(X) /\ t = Len(P) + Len(g) /\ Agree(g, X)
  BY LenProperties DEF Place
<1>3. ASSUME NEW i \in 1..Len(g) PROVE b[Len(P) + i] = g[i]
  <2>1. i \in 1..Len(X) /\ i <= Len(X)
    BY <1>1, <1>2
  <2>2. g[i] = X[i]
    BY <1>2, <2>1 DEF Agree
  <2>3. QED
    BY <1>1, <2>1, <2>2
<1> DEFINE c == From(b, Len(P))
<1>4. Len(P) \in 0..Len(b) /\ Len(P) + Len(g) <= Len(b)
  BY <1>1, <1>2
<1>5. /\ c \in Seq(Byte) /\ Len(c) = Len(b) - Len(P)
      /\ \A i \in 1..(Len(b) - Len(P)) : c[i] = b[Len(P) + i]
  BY <1>1, <1>4, Behind
<1> HIDE DEF c
<1>6. Agree(c, g)
  <2>1. ASSUME NEW i \in 1..Len(c), i <= Len(g) PROVE c[i] = g[i]
    <3>1. i \in 1..Len(g) /\ i \in 1..(Len(b) - Len(P))
      BY <1>1, <1>5, <2>1
    <3>2. QED
      BY <1>3, <1>5, <3>1
  <2>2. QED
    BY <2>1 DEF Agree
<1>7. SubSeq(b, Len(P) + 1, Len(P) + Len(g)) = g
  BY <1>1, <1>2, <1>4, <1>6, AgreeWhole DEF c
<1>8. t - Len(g) = Len(P)
  BY <1>1, <1>2
<1>9. QED
  BY <1>2, <1>7, <1>8 DEF LastRead

LEMMA Cut ==
    ASSUME NEW b \in Seq(Byte), NEW x \in Nat, NEW y \in Nat, 1 <= x, x <= y, y <= Len(b)
    PROVE  /\ SubSeq(b, x, y) \in Seq(Byte) /\ Len(SubSeq(b, x, y)) = y - x + 1
           /\ \A i \in 1..(y - x + 1) : SubSeq(b, x, y)[i] = b[x + i - 1]
<1>1. x \in Int /\ y \in Int /\ \A i \in x..y : b[i] \in Byte
  OBVIOUS
<1>2. /\ SubSeq(b, x, y) \in Seq(Byte) /\ Len(SubSeq(b, x, y)) = (IF x <= y THEN y - x + 1 ELSE 0)
      /\ \A i \in 1..(y - x + 1) : SubSeq(b, x, y)[i] = b[x + i - 1]
  BY <1>1, SubSeqProperties
<1>3. QED
  BY <1>2

\* A read_exact of what the reading asks for stays inside its piece.
LEMMA PlaceGrows ==
    ASSUME NEW P \in Seq(Byte), NEW X \in Seq(Byte), NEW Z \in Seq(Byte), NEW b, b = P \o (X \o Z),
           NEW g, NEW t, Place(P, X, g, t), NEW w, Asks(w, g, X), ~(Len(g) >= w)
    PROVE  /\ w - Len(g) \in Nat /\ t + (w - Len(g)) \in Nat
           /\ Place(P, X, g \o SubSeq(b, t + 1, t + (w - Len(g))), t + (w - Len(g)))
<1>1. /\ b \in Seq(Byte) /\ Len(P) \in Nat /\ Len(X) \in Nat /\ Len(Z) \in Nat
      /\ Len(b) = Len(P) + (Len(X) + Len(Z)) /\ \A i \in 1..Len(X) : b[Len(P) + i] = X[i]
  BY Part
<1>2. g \in Seq(Byte) /\ Len(g) \in Nat /\ Len(g) <= Len(X) /\ t = Len(P) + Len(g) /\ Agree(g, X)
  BY LenProperties DEF Place
<1>3. w \in Nat /\ w <= Len(X)
  BY DEF Asks
<1> DEFINE lp == Len(P)
           lx == Len(X)
           lg == Len(g)
           lb == Len(b)
<1>4. /\ lp \in Nat /\ lx \in Nat /\ lg \in Nat /\ lb \in Nat /\ lp + lx <= lb
      /\ lg <= lx /\ t = lp + lg /\ w \in Nat /\ w <= lx /\ lg < w
  BY <1>1, <1>2, <1>3
<1> HIDE DEF lp, lx, lg, lb
<1> DEFINE n == w - lg
           x == t + 1
           y == t + n
           c == SubSeq(b, x, y)
           d == g \o c
<1>5. /\ n \in Nat /\ x \in Nat /\ y \in Nat /\ y = lp + w /\ 1 <= x /\ x <= y /\ y <= lb
      /\ y - x + 1 = n /\ lg + n = w /\ t + n \in Nat
      /\ \A i \in 1..n : x + i - 1 = lp + (lg + i) /\ lg + i \in 1..lx
  BY <1>4
<1> HIDE DEF n, x, y
<1>6. c \in Seq(Byte) /\ Len(c) = n /\ \A i \in 1..n : c[i] = b[x + i - 1]
  <2>1. /\ c \in Seq(Byte) /\ Len(c) = y - x + 1 /\ \A i \in 1..(y - x + 1) : c[i] = b[x + i - 1]
    <3>1. b \in Seq(Byte) /\ x \in Nat /\ y \in Nat /\ 1 <= x /\ x <= y /\ y <= Len(b)
      BY <1>1, <1>5 DEF lb
    <3>2. QED
      BY <3>1, Cut
  <2> HIDE DEF c
  <2>2. QED
    BY <1>5, <2>1
<1>7. ASSUME NEW i \in 1..n PROVE c[i] = X[lg + i]
  <2>1. c[i] = b[lp + (lg + i)] /\ lg + i \in 1..lx
    BY <1>5, <1>6
  <2>2. \A j \in 1..lx : b[lp + j] = X[j]
    BY <1>1 DEF lp, lx
  <2> HIDE DEF c
  <2>3. QED
    BY <2>1, <2>2
<1> HIDE DEF c
<1>8. /\ d \in Seq(Byte) /\ Len(d) = lg + n
      /\ \A i \in 1..(lg + n) : d[i] = IF i <= lg THEN g[i] ELSE c[i - lg]
  <2>1. g \in Seq(Byte) /\ c \in Seq(Byte) /\ Len(c) = n
    BY <1>2, <1>6
  <2>2. /\ d \in Seq(Byte) /\ Len(d) = lg + Len(c)
        /\ \A i \in 1..(lg + Len(c)) : d[i] = IF i <= lg THEN g[i] ELSE c[i - lg]
    BY <2>1, ConcatProperties DEF lg
  <2>3. QED
    BY <2>1, <2>2
<1> HIDE DEF d
<1>9. ASSUME NEW i \in 1..w PROVE d[i] = X[i]
  <2>1. i \in 1..(lg + n)
    BY <1>5
  <2>2. CASE i <= lg
    <3>1. i \in 1..lg /\ i <= lx
      BY <1>4, <2>2
    <3>2. g[i] = X[i]
      BY <1>2, <3>1 DEF Agree, lg, lx
    <3>3. QED
      BY <1>8, <2>1, <2>2, <3>2
  <2>3. CASE ~(i <= lg)
    <3>1. i - lg \in 1..n /\ lg + (i - lg) = i
      BY <1>4, <1>5, <2>3
    <3>2. c[i - lg] = X[lg + (i - lg)]
      BY <1>7, <3>1
    <3>3. QED
      BY <1>8, <2>1, <2>3, <3>1, <3>2
  <2>4. QED
    BY <2>2, <2>3
<1>10. Len(d) = w
  BY <1>5, <1>8
<1>11. Place(P, X, d, y)
  <2>1. Agree(d, X)
    BY <1>9, <1>10 DEF Agree
  <2>2. Len(d) <= Len(X) /\ y = Len(P) + Len(d)
    BY <1>4, <1>5, <1>10 DEF lx, lp
  <2>3. QED
    BY <1>8, <2>1, <2>2 DEF Place
<1>12. QED
  BY <1>5, <1>11 DEF d, c, x, y, n, lg

----------------------------------------------------------------------------
(* What is read back of a whole message, request or packet. *)

\* A whole message is read back, or refused.
LEMMA WholeMessage ==
    ASSUME NEW S \in Seq(AllFields), NEW m, FitsSchema(S, m),
           \A i \in 1..Len(S) : S[i] = Rest => i = Len(S)
    PROVE  Failed(Decode(S, Encode(S, m))) \/ Decode(S, Encode(S, m)).value = Meant(S, m, Len(S))
<1> DEFINE E == Encode(S, m)
<1>1. E \in Seq(Byte) /\ Len(E) \in Nat
  BY MessageBytes
<1>2. Agree(E, E)
  BY <1>1, AgreeSelf
<1>3. \/ Decode(S, E) = Ok(Meant(S, m, Len(S)), Len(E))
      \/ Decode(S, E).error = "eof"
      \/ Decode(S, E).error = "invalid"
  BY <1>1, <1>2, MessageDecodes
<1> HIDE DEF E
<1>4. Failed(Decode(S, E)) \/ Decode(S, E).value = Meant(S, m, Len(S))
  BY <1>3, Outcomes DEF Failed
<1>5. QED
  BY <1>4 DEF E

LEMMA OnlyLastIsRest ==
    ASSUME NEW s \in StreamSchemas \cup PacketSchemas
    PROVE  s \in Seq(AllFields) /\ s # <<>> /\ \A i \in 1..Len(s) : s[i] = Rest => i = Len(s)
<1>1. CASE s \in StreamSchemas
  BY <1>1, StreamSchemaFields, PlainFields
<1>2. Octets(1) # Rest /\ Octets(2) # Rest /\ Octets(4) # Rest /\ Varint # Rest /\ Addr # Rest
      /\ Body # Rest /\ Zero # Rest
  BY FieldKinds
<1>3. CASE s = Frame
  <2>1. \A i \in 1..3 : i = 1 \/ i = 2 \/ i = 3
    OBVIOUS
  <2>2. QED
    BY <1>2, <1>3, <2>1, FrameFields
<1>4. CASE s = Datagram
  <2>1. \A i \in 1..6 : i = 1 \/ i = 2 \/ i = 3 \/ i = 4 \/ i = 5 \/ i = 6
    OBVIOUS
  <2>2. QED
    BY <1>2, <1>4, <2>1, DatagramFields
<1>5. CASE s = UdpPacket
  <2>1. \A i \in 1..4 : i = 1 \/ i = 2 \/ i = 3 \/ i = 4
    OBVIOUS
  <2>2. QED
    BY <1>2, <1>5, <2>1, UdpPacketFields
<1>6. QED
  BY <1>1, <1>3, <1>4, <1>5 DEF PacketSchemas

\* Of each number, 62 bits.
LEMMA ReadAsSaid ==
    ASSUME NEW s \in StreamSchemas \cup PacketSchemas, NEW m \in Messages(s)
    PROVE  \/ Failed(Decode(s, Encode(s, m)))
           \/ Decode(s, Encode(s, m)).value =
                [i \in DOMAIN s |-> IF s[i].kind = "varint" THEN Wire62(m[i]) ELSE m[i]]
<1>1. s \in Seq(AllFields) /\ \A i \in 1..Len(s) : s[i] = Rest => i = Len(s)
  BY OnlyLastIsRest
<1>2. FitsSchema(s, m)
  BY <1>1, MessagesFit
<1>3. Failed(Decode(s, Encode(s, m))) \/ Decode(s, Encode(s, m)).value = Meant(s, m, Len(s))
  BY <1>1, <1>2, WholeMessage
<1>4. DOMAIN s = 1..Len(s)
  BY <1>1, LenProperties
<1>5. Meant(s, m, Len(s)) = [i \in DOMAIN s |-> IF s[i].kind = "varint" THEN Wire62(m[i]) ELSE m[i]]
  BY <1>4 DEF Meant, Means
<1>6. QED
  BY <1>3, <1>5

LEMMA UdpPacketBytes ==
    ASSUME NEW m \in Messages(UdpPacket)
    PROVE  /\ m[1] \in Seq(Byte) /\ Len(m[1]) = 2 /\ m[2] \in {<<0>>, <<1>>}
           /\ WellFormed(m[3]) /\ m[4] \in Seq(Byte)
           /\ Encode(UdpPacket, m) = ((m[1] \o m[2]) \o EncodeAddress(m[3])) \o m[4]
           /\ SocksPacket(m) = ((m[1] \o m[2]) \o SocksAddress(m[3])) \o m[4]
           /\ FitsSchema(UdpPacket, m)
<1>1. /\ UdpPacket \in Seq(AllFields) /\ Len(UdpPacket) = 4 /\ UdpPacket[1] = Octets(2)
      /\ UdpPacket[2] = Zero /\ UdpPacket[3] = Addr /\ UdpPacket[4] = Rest
  BY UdpPacketFields
<1>2. FitsSchema(UdpPacket, m)
  BY <1>1, MessagesFit
<1>3. 1 \in 1..4 /\ 2 \in 1..4 /\ 3 \in 1..4 /\ 4 \in 1..4
  OBVIOUS
<1>4. Fit(Octets(2), m[1]) /\ Fit(Zero, m[2]) /\ Fit(Addr, m[3]) /\ Fit(Rest, m[4])
  BY <1>1, <1>2, <1>3 DEF FitsSchema
<1>5. m[1] \in Seq(Byte) /\ Len(m[1]) = 2 /\ m[2] \in {<<0>>, <<1>>} /\ WellFormed(m[3]) /\ m[4] \in Seq(Byte)
  BY <1>4 DEF Fit, Octets, Zero, Addr, Rest
<1>6. PICK enc : Encoding(enc, UdpPacket, m) /\ Encode(UdpPacket, m) = enc[4]
  BY <1>1, <1>2, EncodeRuns
<1>7. /\ EncodeField(Octets(2), m[1]) = m[1] /\ EncodeField(Zero, m[2]) = m[2]
      /\ EncodeField(Addr, m[3]) = EncodeAddress(m[3]) /\ EncodeField(Rest, m[4]) = m[4]
  BY DEF EncodeField, Octets, Zero, Addr, Rest
<1>8. /\ enc[0] = <<>> /\ enc[1] = enc[0] \o m[1] /\ enc[2] = enc[1] \o m[2]
      /\ enc[3] = enc[2] \o EncodeAddress(m[3]) /\ enc[4] = enc[3] \o m[4]
  <2>1. enc[0] = <<>> /\ \A i \in 1..4 : enc[i] = enc[i - 1] \o EncodeField(UdpPacket[i], m[i])
    BY <1>1, <1>6 DEF Encoding
  <2>2. 1 - 1 = 0 /\ 2 - 1 = 1 /\ 3 - 1 = 2 /\ 4 - 1 = 3
    OBVIOUS
  <2>3. /\ enc[1] = enc[1 - 1] \o EncodeField(Octets(2), m[1])
        /\ enc[2] = enc[2 - 1] \o EncodeField(Zero, m[2])
        /\ enc[3] = enc[3 - 1] \o EncodeField(Addr, m[3])
        /\ enc[4] = enc[4 - 1] \o EncodeField(Rest, m[4])
    BY <1>1, <1>3, <2>1
  <2>4. QED
    BY <1>7, <2>1, <2>2, <2>3
<1>9. enc[1] = m[1]
  BY <1>5, <1>8, ConcatEmptySeq
<1>10. Encode(UdpPacket, m) = ((m[1] \o m[2]) \o EncodeAddress(m[3])) \o m[4]
  BY <1>6, <1>8, <1>9
<1>11. QED
  BY <1>2, <1>5, <1>10 DEF SocksPacket

\* ATYP 4 is no type of the wire's addresses.
LEMMA V6Refused ==
    ASSUME NEW a, WellFormed(a), a.type = V6, NEW w \in Seq(Byte)
    PROVE  Failed(DecodeAddress(SocksAddress(a))) /\ Failed(DecodeAddress(SocksAddress(a) \o w))
<1>1. SocksAddress(a) \in Seq(Byte) /\ SocksAddress(a)[1] = ATYP_V6 /\ Len(SocksAddress(a)) = 19
  BY SocksAddressBytes
<1>2. ATYP_V6 \notin {V4, V6, DOMAIN_NAME}
  BY DEF ATYP_V6, V4, V6, DOMAIN_NAME
<1> DEFINE A == SocksAddress(a)
<1> HIDE DEF A
<1>3. A \in Seq(Byte) /\ A[1] = ATYP_V6 /\ Len(A) = 19
  BY <1>1 DEF A
<1>4. A # <<>> /\ Head(A) = ATYP_V6
  <2>1. A # <<>>
    <3>1. Len(<<>>) = 0
      BY EmptySeq
    <3>2. Len(A) # 0
      BY <1>3
    <3>3. QED
      BY <3>1, <3>2
  <2>2. Head(A) = A[1]
    BY <1>3, <2>1
  <2>3. QED
    BY <1>3, <2>1, <2>2
<1>5. A \o w \in Seq(Byte) /\ A \o w # <<>> /\ Head(A \o w) = ATYP_V6
  <2>1. A \o w \in Seq(Byte) /\ Agree(A \o w, A)
    BY <1>3, ConcatProperties, AgreeSelf
  <2>2. A \o w # <<>>
    BY <1>3, <1>4, ConcatEqualIffEmpty
  <2>3. Head(A \o w) = Head(A)
    BY <1>3, <1>4, <2>1, <2>2, AgreeStart
  <2>4. QED
    BY <1>4, <2>1, <2>2, <2>3
<1>6. DecodeAddress(A) = InvalidData /\ DecodeAddress(A \o w) = InvalidData
  <2>1. \A b : b # <<>> /\ Head(b) = ATYP_V6 => DecodeAddress(b) = InvalidData
    BY <1>2 DEF DecodeAddress
  <2>2. QED
    BY <1>4, <1>5, <2>1
<1>7. QED
  BY <1>6, Outcomes DEF A

\* A UDP packet for an IPv6 address is refused: SOCKS5 calls its type 4.
LEMMA V6PacketRefused ==
    ASSUME NEW m \in Messages(UdpPacket), m[3].type = V6
    PROVE  Failed(Decode(UdpPacket, SocksPacket(m)))
<1> DEFINE S == UdpPacket
           p == m[1] \o m[2]
           A == SocksAddress(m[3])
           w == m[4]
           b == SocksPacket(m)
<1>1. /\ m[1] \in Seq(Byte) /\ Len(m[1]) = 2 /\ m[2] \in {<<0>>, <<1>>} /\ WellFormed(m[3])
      /\ w \in Seq(Byte) /\ b = (p \o A) \o w /\ FitsSchema(S, m)
  BY UdpPacketBytes
<1>2. p \in Seq(Byte) /\ Len(p) = 3 /\ m[2] \in Seq(Byte)
  <2>1. m[2] \in Seq(Byte) /\ Len(m[2]) = 1
    <3>1. 0 \in Byte /\ 1 \in Byte
      BY SmallBytes
    <3>2. <<0>> \in Seq(Byte) /\ Len(<<0>>) = 1 /\ <<1>> \in Seq(Byte) /\ Len(<<1>>) = 1
      BY <3>1
    <3>3. QED
      BY <1>1, <3>2
  <2>2. p \in Seq(Byte) /\ Len(p) = Len(m[1]) + Len(m[2])
    BY <1>1, <2>1, ConcatProperties
  <2> HIDE DEF p
  <2>3. QED
    BY <1>1, <2>1, <2>2
<1>3. A \in Seq(Byte)
  BY <1>1, SocksAddressBytes
<1>4. S \in Seq(AllFields) /\ Len(S) = 4 /\ S[1] # Rest /\ S[2] # Rest /\ S[3] = Addr
  BY UdpPacketFields, FieldKinds
<1>5. PICK enc : Encoding(enc, S, m)
  BY <1>1, <1>4, EncodeRuns
<1>6. PICK rd : Decoding(rd, S, b) /\ Decode(S, b) = rd[4]
  BY <1>4, DecodeRuns
<1> HIDE DEF S
<1>7. enc[2] = p
  <2>1. enc[0] = <<>> /\ \A i \in 1..4 : enc[i] = enc[i - 1] \o EncodeField(S[i], m[i])
    BY <1>4, <1>5 DEF Encoding
  <2>2. 1 \in 1..4 /\ 2 \in 1..4 /\ 1 - 1 = 0 /\ 2 - 1 = 1
    OBVIOUS
  <2>3. EncodeField(S[1], m[1]) = m[1] /\ EncodeField(S[2], m[2]) = m[2]
    BY UdpPacketFields DEF EncodeField, Octets, Zero, S
  <2>4. enc[1] = enc[0] \o m[1] /\ enc[2] = enc[1] \o m[2]
    BY <2>1, <2>2, <2>3
  <2>5. enc[1] = m[1]
    BY <1>1, <2>1, <2>4, ConcatEmptySeq
  <2>6. QED
    BY <2>4, <2>5
<1>8. b = p \o (A \o w) /\ A \o w \in Seq(Byte) /\ b \in Seq(Byte)
  <2>4. p \in Seq(Byte) /\ A \in Seq(Byte) /\ w \in Seq(Byte) /\ b = (p \o A) \o w
    BY <1>1, <1>2, <1>3
  <2> HIDE DEF p, A, w, b
  <2>1. b = p \o (A \o w)
    BY <2>4, ConcatAssociative
  <2>2. A \o w \in Seq(Byte)
    BY <1>1, <1>3, ConcatProperties
  <2>3. QED
    BY <1>2, <2>1, <2>2, ConcatProperties
<1>9. Agree(b, p) /\ From(b, 3) = A \o w
  <2> DEFINE c == A \o w
             e == <<>>
  <2>1. c \in Seq(Byte) /\ b = p \o c /\ p \in Seq(Byte) /\ e \in Seq(Byte)
    BY <1>2, <1>8
  <2> HIDE DEF p, c, b
  <2>2. Agree(b, p)
    BY <2>1, AgreeSelf
  <2>3. c \o e = c
    BY <2>1, ConcatEmptySeq
  <2>4. b = p \o (c \o e)
    BY <2>1, <2>3
  <2> HIDE DEF e
  <2>5. Len(b) = Len(p) + (Len(c) + Len(e)) /\ SubSeq(b, Len(p) + 1, Len(p) + Len(c)) = c
    BY <2>1, <2>4, Part
  <2>6. Len(e) = 0 /\ Len(c) \in Nat
    BY <2>1 DEF e
  <2>7. Len(p) + Len(c) = Len(b) /\ Len(p) = 3
    <3>1. Len(p) = 3
      BY <1>2
    <3>2. QED
      BY <2>5, <2>6, <3>1
  <2>8. SubSeq(b, 3 + 1, Len(b)) = c
    <3>1. SubSeq(b, Len(p) + 1, Len(p) + Len(c)) = c
      BY <2>5
    <3>2. Len(p) + 1 = 3 + 1 /\ Len(p) + Len(c) = Len(b)
      BY <2>7
    <3>3. QED
      BY <3>1, <3>2
  <2>10. From(b, 3) = c
    BY <2>8 DEF From
  <2>9. QED
    BY <2>2, <2>10 DEF c
<1>10. FieldsRead(rd, S, m, enc, b, 2)
  <2>1. 2 \in 0..Len(S) /\ \A i \in 1..2 : i = 1 \/ i = 2
    BY <1>4
  <2>2. \A i \in 1..2 : S[i] # Rest
    BY <1>4, <2>1
  <2>3. Agree(b, enc[2])
    BY <1>7, <1>9
  <2> HIDE DEF b, p
  <2>4. QED
    BY <1>1, <1>4, <1>5, <1>6, <1>8, <2>1, <2>2, <2>3, PrefixDecodes
<1> HIDE DEF b, p, A, w
<1>11. rd[3] = ReadField(Addr, b, rd[2]) /\ rd[4] = ReadField(S[4], b, rd[3])
  <2>1. \A i \in 1..4 : rd[i] = ReadField(S[i], b, rd[i - 1])
    BY <1>4, <1>6 DEF Decoding
  <2>2. 3 \in 1..4 /\ 4 \in 1..4 /\ 3 - 1 = 2 /\ 4 - 1 = 3
    OBVIOUS
  <2>3. QED
    BY <1>4, <2>1, <2>2
<1>12. Failed(rd[3])
  <2>1. CASE Failed(rd[2])
    BY <1>11, <2>1 DEF ReadField
  <2>2. CASE ~Failed(rd[2])
    <3>1. rd[2] = Ok(Meant(S, m, 2), Len(enc[2]))
      BY <1>10, <2>2 DEF FieldsRead, Failed
    <3>2. rd[2].used = 3
      BY <1>2, <1>7, <3>1, Outcomes
    <3>3. SubSeq(b, rd[2].used + 1, Len(b)) = A \o w
      BY <1>9, <3>2 DEF From
    <3>4. Failed(DecodeAddress(A \o w))
      BY <1>1, V6Refused DEF A, w
    <3>5. DecodeField(Addr, A \o w) = DecodeAddress(A \o w)
      BY DEF DecodeField, Addr
    <3>6. QED
      BY <1>11, <2>2, <3>3, <3>4, <3>5 DEF ReadField
  <2>3. QED
    BY <2>1, <2>2
<1>13. Failed(rd[4])
  BY <1>11, <1>12 DEF ReadField
<1>14. QED
  BY <1>6, <1>13 DEF S, b

----------------------------------------------------------------------------
(* The invariant.  A reading stands at a piece of what the peer sends: what  *)
(* has been read before it, the piece itself and what comes after make up    *)
(* the peer's bytes.  Of a session that does not keep to the order the reader *)
(* expects, the piece is whatever comes first.                               *)

Stages == {"message", "methods", "userpass", "request"}

Passed ==
    CASE stage \in {"message", "methods"} -> <<>>
      [] stage = "userpass" -> MethodPart(said)
      [] stage = "request" ->
            IF require_auth THEN MethodPart(said) \o LoginPart(said) ELSE MethodPart(said)
Piece ==
    CASE stage = "message" -> LengthPrefixed(Encode(schema, said))
      [] stage = "methods" -> MethodPart(said)
      [] stage = "userpass" -> IF said.login = <<>> THEN RequestPart(said) ELSE LoginPart(said)
      [] stage = "request" -> IF require_auth \/ said.login = <<>> THEN RequestPart(said)
                              ELSE LoginPart(said) \o RequestPart(said)
Ahead ==
    CASE stage \in {"message", "request"} -> data
      [] stage = "methods" -> (LoginPart(said) \o RequestPart(said)) \o data
      [] stage = "userpass" -> IF said.login = <<>> THEN data ELSE RequestPart(said) \o data

MessageSent ==
    /\ schema \in StreamSchemas /\ said \in Messages(schema)
    /\ sent = LengthPrefixed(Encode(schema, said)) \o data
    /\ stage \in {"message", "served", "refused"}
PacketSent ==
    /\ schema \in PacketSchemas /\ said \in Messages(schema) /\ data = <<>>
    /\ sent = (IF schema = UdpPacket THEN SocksPacket(said) ELSE Encode(schema, said))
    /\ stage \in {"packet", "served", "refused"}
SessionSent ==
    /\ schema = <<>> /\ said \in Sessions
    /\ sent = SocksBytes(said) \o data
    /\ stage \in {"methods", "userpass", "request", "served", "refused"}

PeerInv ==
    /\ data \in Strings /\ require_auth \in BOOLEAN
    /\ MessageSent \/ PacketSent \/ SessionSent
ReadInv ==
    /\ arrived \in 0..Len(sent) /\ taken \in 0..arrived
    /\ stage \in Stages => Place(Passed, Piece, got, taken)
    /\ stage \notin Stages => got = <<>>
    /\ stage = "packet" => taken = 0
AuthInv ==
    /\ stage = "userpass" => require_auth
    /\ schema = <<>> /\ stage \in {"request", "served"} /\ require_auth => said.login = <<User, Pass>>
RInv == PeerInv /\ ReadInv /\ AuthInv /\ ReadBack /\ DataLeft

LEMMA DataBytes ==
    ASSUME PeerInv
    PROVE  data \in Seq(Byte)
BY ReadersAssumption DEF PeerInv

LEMMA MessageWhole ==
    ASSUME NEW s \in StreamSchemas \cup PacketSchemas, NEW m \in Messages(s)
    PROVE  Encode(s, m) \in Seq(Byte) /\ LengthPrefixed(Encode(s, m)) \in Seq(Byte)
<1>1. Encode(s, m) \in Seq(Byte)
  BY OnlyLastIsRest, MessagesFit, MessageBytes
<1>2. QED
  BY <1>1, BytesEncoded DEF LengthPrefixed, EncodeBytes

\* All a peer sends is bytes.
LEMMA SentBytes ==
    ASSUME PeerInv
    PROVE  sent \in Seq(Byte)
<1>1. CASE MessageSent
  <2> DEFINE E == LengthPrefixed(Encode(schema, said))
  <2>1. E \in Seq(Byte) /\ sent = E \o data
    BY <1>1, MessageWhole DEF MessageSent
  <2> HIDE DEF E
  <2>2. QED
    BY <2>1, DataBytes, ConcatProperties
<1>2. CASE PacketSent /\ schema # UdpPacket
  BY <1>2, MessageWhole DEF PacketSent
<1>3. CASE PacketSent /\ schema = UdpPacket
  <2>1. said \in Messages(UdpPacket) /\ sent = SocksPacket(said)
    BY <1>3 DEF PacketSent
  <2>2. /\ said[1] \in Seq(Byte) /\ said[2] \in {<<0>>, <<1>>} /\ WellFormed(said[3]) /\ said[4] \in Seq(Byte)
        /\ SocksPacket(said) = ((said[1] \o said[2]) \o SocksAddress(said[3])) \o said[4]
    BY <2>1, UdpPacketBytes
  <2>3. said[2] \in Seq(Byte)
    <3>1. 0 \in Byte /\ 1 \in Byte
      BY SmallBytes
    <3>2. <<0>> \in Seq(Byte) /\ <<1>> \in Seq(Byte)
      BY <3>1
    <3>3. QED
      BY <2>2, <3>2
  <2>4. SocksAddress(said[3]) \in Seq(Byte)
    BY <2>2, SocksAddressBytes
  <2>5. said[1] \o said[2] \in Seq(Byte)
    BY <2>2, <2>3, ConcatProperties
  <2>6. (said[1] \o said[2]) \o SocksAddress(said[3]) \in Seq(Byte)
    BY <2>4, <2>5, ConcatProperties
  <2>7. QED
    BY <2>1, <2>2, <2>6, ConcatProperties
<1>4. CASE SessionSent
  <2> DEFINE q == MethodPart(said) \o LoginPart(said)
             e == q \o RequestPart(said)
  <2>1. /\ MethodPart(said) \in Seq(Byte) /\ LoginPart(said) \in Seq(Byte) /\ RequestPart(said) \in Seq(Byte)
        /\ SocksBytes(said) = e
    BY <1>4, SessionBytes DEF SessionSent
  <2>2. q \in Seq(Byte)
    BY <2>1, ConcatProperties
  <2> HIDE DEF q
  <2>3. e \in Seq(Byte)
    BY <2>1, <2>2, ConcatProperties
  <2>4. sent = e \o data
    BY <1>4, <2>1 DEF SessionSent
  <2> HIDE DEF e
  <2>5. QED
    BY <2>3, <2>4, DataBytes, ConcatProperties
<1>5. QED
  BY <1>1, <1>2, <1>3, <1>4 DEF PeerInv

\* What was passed, the piece and what is ahead make up all the peer sends.
LEMMA Pieces ==
    ASSUME PeerInv, stage \in Stages
    PROVE  /\ Passed \in Seq(Byte) /\ Piece \in Seq(Byte) /\ Ahead \in Seq(Byte)
           /\ sent = Passed \o (Piece \o Ahead)
<1>1. data \in Seq(Byte)
  BY DataBytes
<1>2. CASE MessageSent
  <2> DEFINE E == LengthPrefixed(Encode(schema, said))
  <2>1. stage = "message" /\ E \in Seq(Byte) /\ sent = E \o data
    BY <1>2, MessageWhole DEF MessageSent, Stages
  <2>2. Passed = <<>> /\ Piece = E /\ Ahead = data
    BY <2>1 DEF Passed, Piece, Ahead
  <2> HIDE DEF E
  <2>3. E \o data \in Seq(Byte)
    BY <1>1, <2>1, ConcatProperties
  <2>4. <<>> \o (E \o data) = E \o data /\ <<>> \in Seq(Byte)
    BY <2>3, ConcatEmptySeq
  <2>5. QED
    BY <1>1, <2>1, <2>2, <2>4
<1>3. CASE SessionSent
  <2> DEFINE M == MethodPart(said)
             L == LoginPart(said)
             R == RequestPart(said)
  <2>1. M \in Seq(Byte) /\ L \in Seq(Byte) /\ R \in Seq(Byte) /\ sent = ((M \o L) \o R) \o data
    BY <1>3, SessionBytes DEF SessionSent
  <2>2. said.login = <<>> => L = <<>>
    BY DEF LoginPart
  <2>3. /\ stage = "methods" => Passed = <<>> /\ Piece = M /\ Ahead = (L \o R) \o data
        /\ stage = "userpass" => /\ Passed = M
                                 /\ Piece = IF said.login = <<>> THEN R ELSE L
                                 /\ Ahead = IF said.login = <<>> THEN data ELSE R \o data
        /\ stage = "request" => /\ Passed = IF require_auth THEN M \o L ELSE M
                                /\ Piece = IF require_auth \/ said.login = <<>> THEN R ELSE L \o R
                                /\ Ahead = data
    BY DEF Passed, Piece, Ahead
  <2>4. stage = "methods" \/ stage = "userpass" \/ stage = "request"
    BY <1>3 DEF SessionSent, Stages
  <2> HIDE DEF M, L, R
  <2>5. M \o L \in Seq(Byte) /\ L \o R \in Seq(Byte) /\ R \o data \in Seq(Byte)
    BY <1>1, <2>1, ConcatProperties
  <2>6. (M \o L) \o R = M \o (L \o R)
    BY <2>1, ConcatAssociative
  <2>7. sent = (M \o L) \o (R \o data)
    <3> DEFINE q == M \o L
    <3>1. q \in Seq(Byte) /\ R \in Seq(Byte) /\ data \in Seq(Byte) /\ sent = (q \o R) \o data
      BY <1>1, <2>1, <2>5
    <3> HIDE DEF q
    <3>2. sent = q \o (R \o data)
      BY <3>1, ConcatAssociative
    <3>3. QED
      BY <3>2 DEF q
  <2>8. sent = M \o ((L \o R) \o data)
    <3> DEFINE q == L \o R
    <3>1. M \in Seq(Byte) /\ q \in Seq(Byte) /\ data \in Seq(Byte) /\ sent = (M \o q) \o data
      BY <1>1, <2>1, <2>5, <2>6
    <3> HIDE DEF q
    <3>2. sent = M \o (q \o data)
      BY <3>1, ConcatAssociative
    <3>3. QED
      BY <3>2 DEF q
  <2>9. sent = M \o (L \o (R \o data))
    <3>1. (L \o R) \o data = L \o (R \o data)
      BY <1>1, <2>1, ConcatAssociative
    <3>2. QED
      BY <2>8, <3>1
  <2>10. (L \o R) \o data \in Seq(Byte)
    BY <1>1, <2>5, ConcatProperties
  <2>11. CASE stage = "methods"
    <3> DEFINE q == (L \o R) \o data
    <3>1. sent = M \o q /\ q \in Seq(Byte)
      BY <2>8, <2>10
    <3> HIDE DEF q
    <3>2. M \o q \in Seq(Byte)
      BY <2>1, <3>1, ConcatProperties
    <3>3. <<>> \o (M \o q) = M \o q /\ <<>> \in Seq(Byte)
      BY <3>2, ConcatEmptySeq
    <3>4. QED
      BY <2>1, <2>3, <2>11, <3>1, <3>3 DEF q
  <2>12. CASE stage = "userpass" /\ said.login = <<>>
    <3>1. L \o (R \o data) = R \o data
      BY <2>2, <2>5, <2>12, ConcatEmptySeq
    <3>2. QED
      BY <1>1, <2>1, <2>3, <2>9, <2>12, <3>1
  <2>13. CASE stage = "userpass" /\ said.login # <<>>
    BY <1>1, <2>1, <2>3, <2>5, <2>9, <2>13
  <2>14. CASE stage = "request" /\ require_auth
    BY <1>1, <2>1, <2>3, <2>5, <2>7, <2>14
  <2>15. CASE stage = "request" /\ ~require_auth /\ said.login = <<>>
    <3>1. L \o (R \o data) = R \o data
      BY <2>2, <2>5, <2>15, ConcatEmptySeq
    <3>2. QED
      BY <1>1, <2>1, <2>3, <2>9, <2>15, <3>1
  <2>16. CASE stage = "request" /\ ~require_auth /\ said.login # <<>>
    BY <1>1, <2>1, <2>3, <2>5, <2>8, <2>16
  <2>17. QED
    BY <2>4, <2>11, <2>12, <2>13, <2>14, <2>15, <2>16
<1>4. ~PacketSent
  BY DEF PacketSent, Stages
<1>5. QED
  BY <1>2, <1>3, <1>4 DEF PeerInv

\* A login does not look like a request,
LEMMA LoginStarts ==
    ASSUME NEW s \in Sessions, s.login # <<>>
    PROVE  /\ LoginPart(s)[1] = 1 /\ Len(LoginPart(s)) >= 3
           /\ (LoginPart(s) \o RequestPart(s))[1] = 1 /\ Len(LoginPart(s) \o RequestPart(s)) >= 8
<1> DEFINE L == LoginPart(s)
           R == RequestPart(s)
<1>1. L = UserpassBytes(s.login[1], s.login[2])
  BY DEF LoginPart
<1>2. /\ s.login[1] \in Seq(Byte) /\ s.login[2] \in Seq(Byte)
      /\ Len(s.login[1]) \in Byte /\ Len(s.login[2]) \in Byte
      /\ s.cmd \in Byte /\ WellFormed(s.address)
  BY SessionValues
<1>3. /\ L \in Seq(Byte) /\ L[1] = 1
      /\ Len(L) = 3 + Len(s.login[1]) + Len(s.login[2])
  <2> DEFINE u == s.login[1]
             p == s.login[2]
  <2>1. /\ u \in Seq(Byte) /\ p \in Seq(Byte) /\ Len(u) \in Byte /\ Len(p) \in Byte
        /\ L = UserpassBytes(u, p)
    BY <1>1, <1>2
  <2> HIDE DEF u, p, L
  <2>2. L \in Seq(Byte) /\ L[1] = 1 /\ Len(L) = 3 + Len(u) + Len(p)
    BY <2>1, UserpassParts
  <2>3. QED
    BY <2>2 DEF u, p
<1>4. R = RequestBytes(s.cmd, s.address)
  BY DEF RequestPart
<1>5. R \in Seq(Byte) /\ Len(R) = 3 + Len(SocksAddress(s.address)) /\ Len(SocksAddress(s.address)) >= 2
      /\ Len(SocksAddress(s.address)) \in Nat
  BY <1>2, <1>4, RequestParts
<1> HIDE DEF L, R
<1>6. Len(s.login[1]) \in Nat /\ Len(s.login[2]) \in Nat
  BY <1>2, LenProperties
<1>7. Len(L) >= 3 /\ Len(L) \in Nat
  <2> DEFINE a == Len(s.login[1])
             b == Len(s.login[2])
             l == Len(L)
  <2>1. a \in Nat /\ b \in Nat /\ l = 3 + a + b
    BY <1>3, <1>6
  <2> HIDE DEF a, b, l
  <2>2. l >= 3 /\ l \in Nat
    BY <2>1
  <2>3. QED
    BY <2>2 DEF l
<1>8. Len(R) >= 5 /\ Len(R) \in Nat
  BY <1>5
<1>9. L \in Seq(Byte) /\ R \in Seq(Byte)
  BY <1>3, <1>5
<1>10. /\ Len(L \o R) = Len(L) + Len(R)
       /\ \A i \in 1..(Len(L) + Len(R)) : (L \o R)[i] = IF i <= Len(L) THEN L[i] ELSE R[i - Len(L)]
  BY <1>9, ConcatProperties
<1>11. 1 \in 1..(Len(L) + Len(R)) /\ 1 <= Len(L) /\ Len(L) + Len(R) >= 8
  BY <1>7, <1>8
<1>12. (L \o R)[1] = 1 /\ Len(L \o R) >= 8
  BY <1>3, <1>10, <1>11
<1>13. QED
  BY <1>3, <1>7, <1>12 DEF L, R

\* nor a request like a login.
LEMMA RequestStarts ==
    ASSUME NEW s \in Sessions
    PROVE  RequestPart(s)[1] = SOCKS_VERSION /\ Len(RequestPart(s)) >= 5
<1>1. /\ RequestPart(s)[1] = SOCKS_VERSION /\ Len(RequestPart(s)) = 3 + Len(SocksAddress(s.address))
      /\ Len(SocksAddress(s.address)) >= 2 /\ Len(SocksAddress(s.address)) \in Nat
  BY SessionValues, RequestParts DEF RequestPart
<1>2. QED
  BY <1>1

\* Each reading stops at the end of its piece; one that stands at a piece not
\* meant for it stops before.
LEMMA WantedAsks ==
    ASSUME PeerInv, stage \in Stages, Place(Passed, Piece, got, taken), Reading
    PROVE  Asks(Wanted, got, Piece)
<1>1. Passed \in Seq(Byte) /\ Piece \in Seq(Byte)
  BY Pieces
<1>2. got \in Seq(Byte) /\ Len(got) <= Len(Piece) /\ Agree(got, Piece) /\ Len(got) \in Nat /\ Len(Piece) \in Nat
  BY <1>1, LenProperties DEF Place
<1>3. ~Malformed
  BY DEF Reading
<1>4. CASE stage = "message"
  <2> DEFINE E == Encode(schema, said)
  <2>1. schema \in StreamSchemas /\ said \in Messages(schema)
    BY <1>4 DEF PeerInv, MessageSent, PacketSent, SessionSent
  <2>2. E \in Seq(Byte) /\ Len(E) < Limit(8)
    BY <2>1, MessageWhole, LengthAssumption
  <2>3. Piece = LengthPrefixed(E) /\ Wanted = WantedForMessage(got)
    BY <1>4 DEF Piece, Wanted
  <2> HIDE DEF E
  <2>4. QED
    BY <1>2, <2>2, <2>3, MessageAsks
<1>5. CASE stage # "message"
  <2>1. said \in Sessions
    BY <1>5 DEF PeerInv, MessageSent, PacketSent, SessionSent, Stages
  <2>2. CASE stage = "methods"
    <3>1. Piece = MethodBytes(said.methods) /\ Wanted = WantedForMethods(got)
      BY <2>2 DEF Piece, Wanted, MethodPart
    <3>2. QED
      BY <1>2, <2>1, <3>1, SessionValues, MethodsAsk
  <2>3. CASE stage = "userpass" /\ said.login # <<>>
    <3>1. Piece = UserpassBytes(said.login[1], said.login[2]) /\ Wanted = WantedForUserpass(got)
      BY <2>3 DEF Piece, Wanted, LoginPart
    <3>2. QED
      BY <1>2, <2>1, <2>3, <3>1, SessionValues, UserpassAsks
  <2>4. CASE stage = "userpass" /\ said.login = <<>>
    <3>1. Piece = RequestPart(said) /\ Wanted = WantedForUserpass(got)
      BY <2>4 DEF Piece, Wanted
    <3>2. Piece[1] = 5 /\ Len(Piece) >= 5
      BY <2>1, <3>1, RequestStarts DEF SOCKS_VERSION
    <3>3. Len(got) >= 2 => got[1] = 1
      BY <1>3, <2>4 DEF Malformed
    <3>4. Len(got) >= 2 => got[1] = 5
      <4>1. Len(got) >= 2 => 1 \in 1..Len(got) /\ 1 <= Len(Piece)
        BY <1>2, <3>2
      <4>2. QED
        BY <1>2, <3>2, <4>1 DEF Agree
    <3>5. Len(got) < 2
      BY <1>2, <3>3, <3>4
    <3>6. Wanted = 2
      BY <3>1, <3>5 DEF WantedForUserpass
    <3>7. 2 \in Nat /\ 2 <= Len(Piece) /\ ~(2 <= Len(got))
      BY <1>2, <3>2, <3>5
    <3>8. QED
      BY <3>6, <3>7, AsksMore
  <2>5. CASE stage = "request" /\ (require_auth \/ said.login = <<>>)
    <3>1. Piece = RequestBytes(said.cmd, said.address) /\ Wanted = WantedForRequest(got)
      BY <2>5 DEF Piece, Wanted, RequestPart
    <3>2. QED
      BY <1>2, <2>1, <3>1, SessionValues, RequestAsks
  <2>6. CASE stage = "request" /\ ~(require_auth \/ said.login = <<>>)
    <3>1. Piece = LoginPart(said) \o RequestPart(said) /\ Wanted = WantedForRequest(got)
      BY <2>6 DEF Piece, Wanted
    <3>2. Piece[1] = 1 /\ Len(Piece) >= 8
      BY <2>1, <2>6, <3>1, LoginStarts
    <3>3. Len(got) >= 4 => got[1] = 5
      BY <1>3, <2>6 DEF Malformed, SOCKS_VERSION
    <3>4. Len(got) >= 4 => got[1] = 1
      <4>1. Len(got) >= 4 => 1 \in 1..Len(got) /\ 1 <= Len(Piece)
        BY <1>2, <3>2
      <4>2. QED
        BY <1>2, <3>2, <4>1 DEF Agree
    <3>5. Len(got) < 4
      BY <1>2, <3>3, <3>4
    <3>6. Wanted = 4
      BY <3>1, <3>5 DEF WantedForRequest
    <3>7. 4 \in Nat /\ 4 <= Len(Piece) /\ ~(4 <= Len(got))
      BY <1>2, <3>2, <3>5
    <3>8. QED
      BY <3>6, <3>7, AsksMore
  <2>7. QED
    BY <1>5, <2>2, <2>3, <2>4, <2>5, <2>6 DEF Stages
<1>6. QED
  BY <1>4, <1>5

\* A reading that is complete has read its piece, and all of it.
LEMMA CompleteIsPiece ==
    ASSUME PeerInv, stage \in Stages, Place(Passed, Piece, got, taken), Complete
    PROVE  got = Piece /\ taken = Len(Passed) + Len(Piece)
<1>1. Passed \in Seq(Byte) /\ Piece \in Seq(Byte)
  BY Pieces
<1>2. Asks(Wanted, got, Piece) /\ Len(got) >= Wanted
  BY WantedAsks DEF Complete
<1>3. Wanted \in Nat /\ Len(got) \in Nat
  BY <1>2, LenProperties DEF Asks, Place
<1>4. Len(Piece) <= Len(got)
  BY <1>2, <1>3 DEF Asks
<1>5. QED
  BY <1>1, <1>4, PlaceEnd

\* So only what is meant for a reading completes it.
LEMMA CompleteIsMeant ==
    ASSUME PeerInv, stage \in Stages, Place(Passed, Piece, got, taken), Complete
    PROVE  /\ stage = "userpass" => said.login # <<>> /\ got = UserpassBytes(said.login[1], said.login[2])
           /\ stage = "request" => (require_auth \/ said.login = <<>>) /\ got = RequestPart(said)
<1>1. got = Piece /\ ~Malformed
  BY CompleteIsPiece DEF Complete, Reading
<1>2. ASSUME stage \in {"userpass", "request"} PROVE said \in Sessions
  BY <1>2 DEF PeerInv, MessageSent, PacketSent, SessionSent
<1>3. ASSUME stage = "userpass"
      PROVE  said.login # <<>> /\ got = UserpassBytes(said.login[1], said.login[2])
  <2>1. ASSUME said.login = <<>> PROVE FALSE
    <3>1. got = RequestPart(said)
      BY <1>1, <1>3, <2>1 DEF Piece
    <3>2. got[1] = 5 /\ Len(got) >= 5
      BY <1>2, <1>3, <3>1, RequestStarts DEF SOCKS_VERSION
    <3>3. Len(got) \in Nat
      BY LenProperties DEF Place
    <3>4. Len(got) >= 2 /\ got[1] # 1
      BY <3>2, <3>3
    <3>5. QED
      BY <1>1, <1>3, <3>4 DEF Malformed
  <2>2. QED
    BY <1>1, <1>3, <2>1 DEF Piece, LoginPart
<1>4. ASSUME stage = "request"
      PROVE  (require_auth \/ said.login = <<>>) /\ got = RequestPart(said)
  <2>1. ASSUME ~(require_auth \/ said.login = <<>>) PROVE FALSE
    <3>1. got = LoginPart(said) \o RequestPart(said)
      BY <1>1, <1>4, <2>1 DEF Piece
    <3>2. got[1] = 1 /\ Len(got) >= 8
      BY <1>2, <1>4, <2>1, <3>1, LoginStarts
    <3>3. Len(got) \in Nat
      BY LenProperties DEF Place
    <3>4. Len(got) >= 4 /\ got[1] # SOCKS_VERSION
      BY <3>2, <3>3 DEF SOCKS_VERSION
    <3>5. QED
      BY <1>1, <1>4, <3>4 DEF Malformed
  <2>2. QED
    BY <1>1, <1>4, <2>1 DEF Piece
<1>5. QED
  BY <1>3, <1>4

----------------------------------------------------------------------------
(* Every step keeps the invariant.                                         *)

\* What comes behind a prefix is the rest.
LEMMA Rest2 ==
    ASSUME NEW q \in Seq(Byte), NEW w \in Seq(Byte), NEW b, b = q \o w
    PROVE  SubSeq(b, Len(q) + 1, Len(b)) = w /\ Len(q) \in 0..Len(b) /\ b \in Seq(Byte)
<1>1. Len(q) \in Nat /\ Len(w) \in Nat /\ <<>> \in Seq(Byte) /\ Len(<<>>) = 0
  BY LenProperties
<1>2. w \o <<>> = w
  BY ConcatEmptySeq
<1>3. b = q \o (w \o <<>>)
  BY <1>2
<1>4. b \in Seq(Byte) /\ Len(b) = Len(q) + (Len(w) + Len(<<>>)) /\ SubSeq(b, Len(q) + 1, Len(q) + Len(w)) = w
  BY <1>1, <1>3, Part
<1>5. Len(b) = Len(q) + Len(w)
  BY <1>1, <1>4
<1>6. QED
  BY <1>1, <1>4, <1>5

\* Behind a last piece there is the application data.
LEMMA DataFollows ==
    ASSUME PeerInv, stage \in Stages, Ahead = data, taken = Len(Passed) + Len(Piece)
    PROVE  SubSeq(sent, taken + 1, Len(sent)) = data
<1> DEFINE q == Passed \o Piece
<1>1. /\ Passed \in Seq(Byte) /\ Piece \in Seq(Byte) /\ data \in Seq(Byte)
      /\ sent = Passed \o (Piece \o data)
  BY Pieces
<1>2. q \in Seq(Byte) /\ Len(q) = taken
  BY <1>1, ConcatProperties
<1>3. sent = q \o data
  BY <1>1, ConcatAssociative
<1> HIDE DEF q
<1>4. SubSeq(sent, Len(q) + 1, Len(sent)) = data
  BY <1>1, <1>2, <1>3, Rest2
<1>5. QED
  BY <1>2, <1>4

\* No step changes what the peer means.
LEMMA PeerStays ==
    ASSUME PeerInv, UNCHANGED peerVars,
           \/ stage' \in {stage, "served", "refused"}
           \/ schema = <<>> /\ stage' \in {"userpass", "request"}
    PROVE  PeerInv'
<1>1. \A s \in StreamSchemas \cup PacketSchemas : s # <<>>
  BY OnlyLastIsRest
<1>2. UNCHANGED <<schema, said, data, require_auth, sent>>
  BY DEF peerVars
<1>3. CASE MessageSent
  <2>1. MessageSent'
    BY <1>1, <1>2, <1>3 DEF MessageSent
  <2>2. QED
    BY <1>2, <2>1 DEF PeerInv
<1>4. CASE PacketSent
  <2>1. PacketSent'
    BY <1>1, <1>2, <1>4 DEF PacketSent
  <2>2. QED
    BY <1>2, <2>1 DEF PeerInv
<1>5. CASE SessionSent
  <2>1. SessionSent'
    BY <1>1, <1>2, <1>5 DEF SessionSent
  <2>2. QED
    BY <1>2, <2>1 DEF PeerInv
<1>6. QED
  BY <1>3, <1>4, <1>5 DEF PeerInv

\* Which kind of peer is on the other side shows in the stage.
LEMMA Sides ==
    ASSUME PeerInv
    PROVE  /\ stage \in {"methods", "userpass", "request"} => SessionSent
           /\ stage = "message" => MessageSent
           /\ stage = "packet" => PacketSent
           /\ schema = <<>> => SessionSent
           /\ schema # <<>> => MessageSent \/ PacketSent
           /\ stage \in {"message", "packet", "methods", "userpass", "request", "served", "refused"}
<1>1. \A s \in StreamSchemas \cup PacketSchemas : s # <<>>
  BY OnlyLastIsRest
<1>2. QED
  BY <1>1 DEF PeerInv, MessageSent, PacketSent, SessionSent

\* The start, and then every step in a lemma of its own.
LEMMA StartHolds == Init => RInv
<1> SUFFICES ASSUME Init PROVE RInv
  OBVIOUS
<1>1. PeerInv
  BY DEF Init, PeerInv, MessageSent, PacketSent, SessionSent
<1>2. arrived = 0 /\ taken = 0 /\ got = <<>> /\ stage \in {"message", "packet", "methods"}
  BY DEF Init
<1>3. Len(sent) \in Nat
  BY <1>1, SentBytes, LenProperties
<1>4. ASSUME stage \in Stages PROVE Place(Passed, Piece, got, taken)
  <2>1. Piece \in Seq(Byte) /\ <<>> \in Seq(Byte) /\ Len(<<>>) = 0
    BY <1>1, <1>4, Pieces
  <2>2. Passed = <<>>
    BY <1>2, <1>4 DEF Passed, Stages
  <2>3. Place(<<>>, Piece, <<>>, Len(<<>>))
    BY <2>1, PlaceStart
  <2>4. QED
    BY <1>2, <2>1, <2>2, <2>3
<1>5. ReadInv
  BY <1>2, <1>3, <1>4 DEF ReadInv
<1>6. QED
  BY <1>1, <1>2, <1>5 DEF RInv, AuthInv, ReadBack, DataLeft

\* A reading that goes on stands at the same piece.
LEMMA SameReading ==
    ASSUME UNCHANGED <<peerVars, stage>>
    PROVE  Passed' = Passed /\ Piece' = Piece
BY DEF peerVars, Passed, Piece

LEMMA ReadBackStays ==
    ASSUME ReadBack, UNCHANGED <<peerVars, stage, result>>
    PROVE  ReadBack'
BY DEF ReadBack, Expected, SocksTarget, peerVars

LEMMA ArriveHolds == RInv /\ Arrive => RInv'
<1> SUFFICES ASSUME RInv, Arrive PROVE RInv'
  OBVIOUS
<1>1. UNCHANGED <<peerVars, closed, taken, stage, got, result>>
  BY DEF Arrive
<1>2. UNCHANGED <<schema, said, data, require_auth, sent>>
  BY <1>1 DEF peerVars
<1>3. PeerInv' /\ ReadBack'
  BY <1>1, PeerStays, ReadBackStays DEF RInv
<1>4. PICK n \in 1..(Len(sent) - arrived) : arrived' = arrived + n
  BY DEF Arrive
<1>5. arrived' \in 0..Len(sent) /\ taken \in 0..arrived'
  <2>1. Len(sent) \in Nat
    BY SentBytes, LenProperties DEF RInv
  <2>2. QED
    BY <1>4, <2>1 DEF RInv, ReadInv
<1>6. Passed' = Passed /\ Piece' = Piece
  BY <1>1, SameReading
<1>7. Place(Passed', Piece', got', taken') <=> Place(Passed, Piece, got, taken)
  BY <1>1, <1>6
<1>8. ReadInv'
  BY <1>1, <1>2, <1>5, <1>7 DEF RInv, ReadInv
<1>9. QED
  BY <1>1, <1>2, <1>3, <1>8 DEF RInv, AuthInv, DataLeft

LEMMA CloseHolds == RInv /\ (Close \/ UNCHANGED vars) => RInv'
<1> SUFFICES ASSUME RInv, Close \/ UNCHANGED vars PROVE RInv'
  OBVIOUS
<1>1. UNCHANGED <<peerVars, arrived, taken, stage, got, result>>
  BY DEF Close, vars, peerVars
<1>2. UNCHANGED <<schema, said, data, require_auth, sent>>
  BY <1>1 DEF peerVars
<1>3. PeerInv' /\ ReadBack'
  BY <1>1, PeerStays, ReadBackStays DEF RInv
<1>4. Passed' = Passed /\ Piece' = Piece
  BY <1>1, SameReading
<1>5. Place(Passed', Piece', got', taken') <=> Place(Passed, Piece, got, taken)
  BY <1>1, <1>4
<1>6. ReadInv'
  BY <1>1, <1>2, <1>5 DEF RInv, ReadInv
<1>7. QED
  BY <1>1, <1>2, <1>3, <1>6 DEF RInv, AuthInv, DataLeft

LEMMA ReadExactHolds == RInv /\ ReadExact => RInv'
<1> DEFINE n == Wanted - Len(got)
           g == got \o SubSeq(sent, taken + 1, taken + n)
<1> SUFFICES ASSUME RInv, ReadExact PROVE RInv'
  OBVIOUS
<1>1. UNCHANGED <<peerVars, arrived, closed, stage, result>>
  BY DEF ReadExact
<1>2. UNCHANGED <<schema, said, data, require_auth, sent>>
  BY <1>1 DEF peerVars
<1>3. PeerInv' /\ ReadBack'
  BY <1>1, PeerStays, ReadBackStays DEF RInv
<1>4. PeerInv /\ Reading /\ ~Complete /\ stage \in Stages
  BY DEF RInv, ReadExact, Reading, Stages
<1>5. Place(Passed, Piece, got, taken)
  BY <1>4 DEF RInv, ReadInv
<1>6. /\ Passed \in Seq(Byte) /\ Piece \in Seq(Byte) /\ Ahead \in Seq(Byte)
      /\ sent = Passed \o (Piece \o Ahead)
  BY <1>4, Pieces
<1>7. Asks(Wanted, got, Piece) /\ ~(Len(got) >= Wanted)
  BY <1>4, <1>5, WantedAsks DEF Complete
<1>8. n \in Nat /\ Place(Passed, Piece, g, taken + n)
  BY <1>5, <1>6, <1>7, PlaceGrows
<1>9. got' = g /\ taken' = taken + n /\ arrived - taken >= n
  BY DEF ReadExact
<1> HIDE DEF g, n
<1>10. Passed' = Passed /\ Piece' = Piece
  BY <1>1, SameReading
<1>11. Place(Passed', Piece', got', taken')
  BY <1>8, <1>9, <1>10
<1>12. arrived \in 0..Len(sent) /\ taken \in 0..arrived
  BY DEF RInv, ReadInv
<1>13. Len(sent) \in Nat
  BY <1>4, SentBytes, LenProperties
<1>14. taken' \in 0..arrived'
  BY <1>1, <1>8, <1>9, <1>12, <1>13
<1>15. stage' \in Stages /\ stage' # "packet" /\ stage' # "served"
  BY <1>1, <1>4 DEF Stages
<1>16. ReadInv'
  BY <1>1, <1>2, <1>11, <1>12, <1>14, <1>15 DEF ReadInv
<1>17. QED
  BY <1>1, <1>2, <1>3, <1>15, <1>16 DEF RInv, AuthInv, DataLeft

\* A step that ends the reading in refusal says nothing more.
LEMMA Refuses ==
    ASSUME RInv, UNCHANGED <<peerVars, arrived>>, taken' \in 0..arrived, Goes("refused")
    PROVE  RInv'
<1>1. PeerInv'
  BY PeerStays DEF RInv, Goes
<1>2. sent' = sent /\ arrived' = arrived /\ stage' = "refused" /\ got' = <<>>
  BY DEF Goes, peerVars
<1>3. arrived \in 0..Len(sent)
  BY DEF RInv, ReadInv
<1>4. stage' \notin Stages
  BY <1>2 DEF Stages
<1>5. ReadInv'
  BY <1>2, <1>3, <1>4 DEF ReadInv
<1>6. QED
  BY <1>1, <1>2, <1>5 DEF RInv, AuthInv, ReadBack, DataLeft

\* One that serves has read back what was said and left the data.
LEMMA Serves ==
    ASSUME RInv, UNCHANGED <<peerVars, arrived>>, taken' \in 0..arrived, Goes("served"),
           ReadBack', DataLeft', schema = <<>> /\ require_auth => said.login = <<User, Pass>>
    PROVE  RInv'
<1>1. PeerInv'
  BY PeerStays DEF RInv, Goes
<1>2. /\ sent' = sent /\ arrived' = arrived /\ stage' = "served" /\ got' = <<>>
      /\ schema' = schema /\ require_auth' = require_auth /\ said' = said
  BY DEF Goes, peerVars
<1>3. arrived \in 0..Len(sent)
  BY DEF RInv, ReadInv
<1>4. stage' \notin Stages
  BY <1>2 DEF Stages
<1>5. ReadInv'
  BY <1>2, <1>3, <1>4 DEF ReadInv
<1>6. AuthInv'
  BY <1>2 DEF AuthInv
<1>7. QED
  BY <1>1, <1>5, <1>6 DEF RInv

LEMMA ReadFailsHolds == RInv /\ ReadFails => RInv'
<1> SUFFICES ASSUME RInv, ReadFails PROVE RInv'
  OBVIOUS
<1>1. UNCHANGED <<peerVars, arrived>> /\ taken' = taken /\ Goes("refused")
  BY DEF ReadFails
<1>2. taken' \in 0..arrived
  BY <1>1 DEF RInv, ReadInv
<1>3. QED
  BY <1>1, <1>2, Refuses

\* A SOCKS5 session goes on to the next of its readings.
LEMMA GoesOn ==
    ASSUME RInv, SessionSent, UNCHANGED <<peerVars, arrived, taken>>,
           NEW next \in {"userpass", "request"}, Goes(next),
           NEW P \in Seq(Byte), NEW X \in Seq(Byte), Passed' = P, Piece' = X, taken = Len(P),
           next = "userpass" => require_auth,
           next = "request" /\ require_auth => said.login = <<User, Pass>>
    PROVE  RInv'
<1>1. schema = <<>>
  BY DEF SessionSent
<1>2. PeerInv'
  BY <1>1, PeerStays DEF RInv, Goes
<1>3. /\ sent' = sent /\ arrived' = arrived /\ taken' = taken /\ stage' = next /\ got' = <<>>
      /\ schema' = schema /\ require_auth' = require_auth /\ said' = said
  BY DEF Goes, peerVars
<1>4. arrived \in 0..Len(sent) /\ taken \in 0..arrived
  BY DEF RInv, ReadInv
<1>5. Place(P, X, <<>>, Len(P))
  BY PlaceStart
<1>6. Place(Passed', Piece', got', taken')
  BY <1>3, <1>5
<1>7. stage' \in Stages /\ stage' # "packet" /\ stage' # "served"
  BY <1>3 DEF Stages
<1>8. ReadInv'
  BY <1>3, <1>4, <1>6, <1>7 DEF ReadInv
<1>9. AuthInv'
  BY <1>3 DEF AuthInv
<1>10. QED
  BY <1>2, <1>7, <1>8, <1>9 DEF RInv, ReadBack, DataLeft

LEMMA NegotiateMethodHolds == RInv /\ NegotiateMethod => RInv'
<1> DEFINE M == MethodPart(said)
           L == LoginPart(said)
           R == RequestPart(said)
<1> SUFFICES ASSUME RInv, NegotiateMethod PROVE RInv'
  OBVIOUS
<1>1. UNCHANGED <<peerVars, arrived, closed, taken, result>> /\ stage = "methods" /\ Complete
  BY DEF NegotiateMethod
<1>2. taken' \in 0..arrived
  BY <1>1 DEF RInv, ReadInv
<1>3. PeerInv /\ SessionSent /\ stage \in Stages
  BY <1>1, Sides DEF RInv, Stages
<1>4. M \in Seq(Byte) /\ L \in Seq(Byte) /\ R \in Seq(Byte)
  BY <1>3, SessionBytes DEF SessionSent
<1>5. taken = Len(Passed) + Len(Piece)
  BY <1>1, <1>3, CompleteIsPiece DEF RInv, ReadInv
<1>6. Passed = <<>> /\ Piece = M
  BY <1>1 DEF Passed, Piece
<1>7. Len(M) \in Nat /\ Len(<<>>) = 0
  BY <1>4, LenProperties
<1>8. taken = Len(M)
  BY <1>5, <1>6, <1>7
<1>9. UNCHANGED <<said, require_auth>>
  BY <1>1 DEF peerVars
<1>10. CASE Goes("refused")
  BY <1>1, <1>2, <1>10, Refuses
<1>11. CASE Goes("userpass") /\ require_auth
  <2> DEFINE X == IF said.login = <<>> THEN R ELSE L
  <2>1. Passed' = M /\ Piece' = X
    BY <1>9, <1>11 DEF Passed, Piece, Goes
  <2>2. X \in Seq(Byte)
    BY <1>4
  <2> HIDE DEF M, X
  <2>3. QED
    BY <1>1, <1>3, <1>4, <1>8, <1>11, <2>1, <2>2, GoesOn
<1>12. CASE Goes("request") /\ ~require_auth
  <2> DEFINE X == IF said.login = <<>> THEN R ELSE L \o R
  <2>1. Passed' = M /\ Piece' = X
    BY <1>9, <1>12 DEF Passed, Piece, Goes
  <2>2. X \in Seq(Byte)
    BY <1>4, ConcatProperties
  <2> HIDE DEF M, X
  <2>3. QED
    BY <1>1, <1>3, <1>4, <1>8, <1>12, <2>1, <2>2, GoesOn
<1>13. QED
  BY <1>10, <1>11, <1>12 DEF NegotiateMethod

LEMMA VerifyUserpassHolds == RInv /\ VerifyUserpass => RInv'
<1> DEFINE M == MethodPart(said)
           L == LoginPart(said)
           R == RequestPart(said)
           u == said.login[1]
           p == said.login[2]
<1> SUFFICES ASSUME RInv, VerifyUserpass PROVE RInv'
  OBVIOUS
<1>1. UNCHANGED <<peerVars, arrived, closed, taken, result>> /\ stage = "userpass" /\ Complete
  BY DEF VerifyUserpass
<1>2. taken' \in 0..arrived
  BY <1>1 DEF RInv, ReadInv
<1>3. PeerInv /\ SessionSent /\ stage \in Stages /\ require_auth
  BY <1>1, Sides DEF RInv, Stages, AuthInv
<1>4. M \in Seq(Byte) /\ L \in Seq(Byte) /\ R \in Seq(Byte)
  BY <1>3, SessionBytes DEF SessionSent
<1>5. /\ taken = Len(Passed) + Len(Piece)
      /\ said.login # <<>> /\ got = UserpassBytes(u, p)
  BY <1>1, <1>3, CompleteIsPiece, CompleteIsMeant DEF RInv, ReadInv
<1>6. Passed = M /\ Piece = L
  BY <1>1, <1>5 DEF Passed, Piece
<1>7. Len(M \o L) = Len(M) + Len(L) /\ M \o L \in Seq(Byte)
  BY <1>4, ConcatProperties
<1>8. taken = Len(M \o L)
  BY <1>5, <1>6, <1>7
<1>9. UNCHANGED <<said, require_auth>>
  BY <1>1 DEF peerVars
<1>10. CASE Goes("refused")
  BY <1>1, <1>2, <1>10, Refuses
<1>11. CASE Goes("request") /\ Matches(SubSeq(got, 3, 2 + got[2]), SubSeq(got, 4 + got[2], Len(got)))
  <2>1. /\ said.login = <<u, p>> /\ u \in Seq(Byte) /\ Len(u) \in Byte
        /\ p \in Seq(Byte) /\ Len(p) \in Byte /\ got = UserpassBytes(u, p)
    BY <1>3, <1>5, SessionValues DEF SessionSent
  <2> HIDE DEF u, p
  <2>2. got[2] = Len(u) /\ SubSeq(got, 3, 2 + Len(u)) = u /\ SubSeq(got, 4 + Len(u), Len(got)) = p
    <3>1. u \in Seq(Byte)
      BY <2>1
    <3>2. Len(u) \in Byte
      BY <2>1
    <3>3. p \in Seq(Byte)
      BY <2>1
    <3>4. Len(p) \in Byte
      BY <2>1
    <3>5. got = UserpassBytes(u, p)
      BY <2>1
    <3>6. got[2] = Len(u)
      BY <3>1, <3>2, <3>3, <3>4, <3>5, UserpassParts
    <3>7. SubSeq(got, 3, 2 + Len(u)) = u
      BY <3>1, <3>2, <3>3, <3>4, <3>5, UserpassParts
    <3>8. SubSeq(got, 4 + Len(u), Len(got)) = p
      BY <3>1, <3>2, <3>3, <3>4, <3>5, UserpassParts
    <3>9. QED
      BY <3>6, <3>7, <3>8
  <2>3. Matches(u, p)
    BY <1>11, <2>2
  <2>4. said.login = <<User, Pass>>
    BY <2>1, <2>3 DEF Matches
  <2> DEFINE q == M \o L
  <2>5. Passed' = q /\ Piece' = R
    BY <1>3, <1>9, <1>11 DEF Passed, Piece, Goes
  <2>6. q \in Seq(Byte) /\ taken = Len(q)
    BY <1>7, <1>8
  <2> HIDE DEF q, R
  <2>7. QED
    BY <1>1, <1>3, <1>4, <1>11, <2>4, <2>5, <2>6, GoesOn
<1>12. QED
  BY <1>10, <1>11 DEF VerifyUserpass

\* An address in the form of SOCKS5, decoded as it is in the format of hydr.
LEMMA AddressRead ==
    ASSUME NEW a, WellFormed(a), ~Failed(DecodeAddress(SocksAddress(a)))
    PROVE  \/ DecodeAddress(SocksAddress(a)).value = a
           \/ a.type = DOMAIN_NAME /\ ~ShortName(a)
<1>1. a.type # V6
  <2>1. ASSUME a.type = V6 PROVE FALSE
    <3>1. <<>> \in Seq(Byte)
      OBVIOUS
    <3>2. QED
      BY <2>1, <3>1, V6Refused
  <2>2. QED
    BY <2>1
<1>2. CASE SameBytes(a)
  <2> DEFINE E == EncodeAddress(a)
  <2>1. SocksAddress(a) = E /\ E \in Seq(Byte)
    BY <1>2, SocksAddressBytes
  <2>2. Agree(E, E)
    BY <2>1, AgreeSelf
  <2>3. Decodes(DecodeAddress(E), E, E, a)
    BY <2>1, <2>2, AddressDecodes
  <2>4. Len(E) <= Len(E)
    BY <2>1, LenProperties
  <2>5. DecodeAddress(E).value = a
    BY <2>3, <2>4, Outcomes DEF Decodes
  <2>6. QED
    BY <2>1, <2>5
<1>3. CASE ~SameBytes(a)
  BY <1>1, <1>3 DEF SameBytes, WellFormed
<1>4. QED
  BY <1>2, <1>3

LEMMA DecodeRequestHolds == RInv /\ DecodeRequest => RInv'
<1> DEFINE a == said.address
           r == DecodeAddress(SubSeq(got, 4, Len(got)))
<1> SUFFICES ASSUME RInv, DecodeRequest PROVE RInv'
  OBVIOUS
<1>1. /\ UNCHANGED <<peerVars, arrived, closed, taken>> /\ stage = "request" /\ Complete
      /\ result' = r.value /\ (Goes("refused") \/ (Goes("served") /\ ~Failed(r)))
  BY DEF DecodeRequest
<1>2. taken' \in 0..arrived
  BY <1>1 DEF RInv, ReadInv
<1>3. PeerInv /\ SessionSent /\ stage \in Stages /\ schema = <<>> /\ said \in Sessions
  BY <1>1, Sides DEF RInv, Stages, SessionSent
<1>4. /\ taken = Len(Passed) + Len(Piece)
      /\ got = RequestBytes(said.cmd, a)
  BY <1>1, <1>3, CompleteIsPiece, CompleteIsMeant DEF RInv, ReadInv, RequestPart
<1>5. said.cmd \in Byte /\ WellFormed(a)
  BY <1>3, SessionValues
<1>6. UNCHANGED <<schema, said, data, require_auth, sent>>
  BY <1>1 DEF peerVars
<1>7. CASE Goes("refused")
  BY <1>1, <1>2, <1>7, Refuses
<1>8. CASE Goes("served") /\ ~Failed(r)
  <2> HIDE DEF a
  <2>1. SubSeq(got, 4, Len(got)) = SocksAddress(a)
    BY <1>4, <1>5, RequestParts
  <2>2. result' = a \/ (a.type = DOMAIN_NAME /\ ~ShortName(a))
    <3>1. ~Failed(DecodeAddress(SocksAddress(a))) /\ result' = DecodeAddress(SocksAddress(a)).value
      BY <1>1, <1>8, <2>1
    <3>2. QED
      BY <1>5, <3>1, AddressRead
  <2>3. ReadBack'
    BY <1>3, <1>6, <2>2 DEF ReadBack, SocksTarget, ShortName, UdpPacket, a
  <2>4. Ahead = data
    BY <1>1 DEF Ahead
  <2>5. SubSeq(sent, taken + 1, Len(sent)) = data
    BY <1>3, <1>4, <2>4, DataFollows
  <2>6. DataLeft'
    BY <1>1, <1>6, <2>5 DEF DataLeft
  <2>7. require_auth => said.login = <<User, Pass>>
    BY <1>1, <1>3 DEF RInv, AuthInv
  <2>8. QED
    BY <1>1, <1>2, <1>8, <2>3, <2>6, <2>7, Serves
<1>9. QED
  BY <1>1, <1>7, <1>8

\* The message behind its length.
LEMMA Unprefixed ==
    ASSUME NEW E \in Seq(Byte), Len(E) < Limit(8), NEW g, g = LengthPrefixed(E)
    PROVE  SubSeq(g, PrefixLen(Head(g)) + 1, Len(g)) = E
<1> DEFINE q == EncodeVarint(Len(E))
           c == LengthPrefixed(E)
<1>1. Len(E) \in Nat
  BY LenProperties
<1>2. q \in Seq(Byte) /\ q # <<>>
  BY <1>1, VarintBytes
<1>3. c = q \o E
  BY DEF LengthPrefixed
<1> HIDE DEF q
<1>4. Len(q) \in Nat /\ Len(q) # 0 /\ Len(c) = Len(q) + Len(E) /\ c \in Seq(Byte)
  BY <1>2, <1>3, ConcatProperties, EmptySeq, LenProperties
<1>5. c # <<>>
  BY <1>1, <1>4
<1>6. Agree(c, c)
  BY <1>4, AgreeSelf
<1>7. PrefixLen(Head(c)) = Len(q)
  <2>1. c # <<>> => PrefixLen(Head(c)) = Len(EncodeVarint(Len(E)))
    BY <1>4, <1>6, MessageAsks
  <2>2. QED
    BY <1>5, <2>1 DEF q
<1>8. SubSeq(c, Len(q) + 1, Len(c)) = E
  BY <1>2, <1>3, Rest2
<1>9. QED
  BY <1>7, <1>8

LEMMA DecodeMessageHolds == RInv /\ DecodeMessage => RInv'
<1> DEFINE E == Encode(schema, said)
           r == Decode(schema, SubSeq(got, PrefixLen(Head(got)) + 1, Len(got)))
<1> SUFFICES ASSUME RInv, DecodeMessage PROVE RInv'
  OBVIOUS
<1>1. /\ UNCHANGED <<peerVars, arrived, closed, taken>> /\ stage = "message" /\ Complete
      /\ result' = r.value /\ (Goes("refused") \/ (Goes("served") /\ ~Failed(r)))
  BY DEF DecodeMessage
<1>2. taken' \in 0..arrived
  BY <1>1 DEF RInv, ReadInv
<1>3. /\ PeerInv /\ stage \in Stages /\ schema \in StreamSchemas /\ said \in Messages(schema)
      /\ schema # <<>>
  BY <1>1, Sides, OnlyLastIsRest DEF RInv, Stages, MessageSent
<1>4. got = Piece /\ taken = Len(Passed) + Len(Piece)
  BY <1>1, <1>3, CompleteIsPiece DEF RInv, ReadInv
<1>5. Piece = LengthPrefixed(E) /\ Ahead = data
  BY <1>1 DEF Piece, Ahead
<1>6. E \in Seq(Byte) /\ Len(E) < Limit(8)
  BY <1>3, MessageWhole, LengthAssumption
<1>7. UNCHANGED <<schema, said, data, require_auth, sent>>
  BY <1>1 DEF peerVars
<1>8. CASE Goes("refused")
  BY <1>1, <1>2, <1>8, Refuses
<1>9. CASE Goes("served") /\ ~Failed(r)
  <2>1. SubSeq(got, PrefixLen(Head(got)) + 1, Len(got)) = E
    <3>1. got = LengthPrefixed(E)
      BY <1>4, <1>5
    <3> HIDE DEF E
    <3>2. QED
      BY <1>6, <3>1, Unprefixed
  <2>2. result' = Decode(schema, Encode(schema, said)).value /\ ~Failed(Decode(schema, Encode(schema, said)))
    BY <1>1, <1>9, <2>1
  <2>3. result' = Expected
    BY <1>3, <2>2, ReadAsSaid DEF Expected
  <2>4. Expected' = Expected
    BY <1>7 DEF Expected
  <2>5. ReadBack'
    BY <1>3, <1>7, <2>3, <2>4 DEF ReadBack
  <2>6. SubSeq(sent, taken + 1, Len(sent)) = data
    BY <1>3, <1>4, <1>5, DataFollows
  <2>7. DataLeft'
    BY <1>1, <1>7, <2>6 DEF DataLeft
  <2>8. QED
    BY <1>1, <1>2, <1>3, <1>9, <2>5, <2>7, Serves
<1>10. QED
  BY <1>1, <1>8, <1>9

\* A SOCKS5 UDP packet, decoded as a packet of the same fields in the format of hydr.
LEMMA PacketRead ==
    ASSUME NEW m \in Messages(UdpPacket), ~Failed(Decode(UdpPacket, SocksPacket(m)))
    PROVE  \/ Decode(UdpPacket, SocksPacket(m)).value =
                [i \in DOMAIN UdpPacket |-> IF UdpPacket[i].kind = "varint" THEN Wire62(m[i]) ELSE m[i]]
           \/ m[3].type = DOMAIN_NAME /\ ~ShortName(m[3])
<1>1. /\ WellFormed(m[3])
      /\ Encode(UdpPacket, m) = ((m[1] \o m[2]) \o EncodeAddress(m[3])) \o m[4]
      /\ SocksPacket(m) = ((m[1] \o m[2]) \o SocksAddress(m[3])) \o m[4]
  BY UdpPacketBytes
<1>2. m[3].type # V6
  BY V6PacketRefused
<1>3. CASE SameBytes(m[3])
  <2>1. SocksAddress(m[3]) = EncodeAddress(m[3])
    BY <1>1, <1>3, SocksAddressBytes
  <2>2. SocksPacket(m) = Encode(UdpPacket, m)
    BY <1>1, <2>1
  <2>3. UdpPacket \in StreamSchemas \cup PacketSchemas
    BY DEF PacketSchemas
  <2>4. ~Failed(Decode(UdpPacket, Encode(UdpPacket, m)))
    BY <2>2
  <2> HIDE DEF UdpPacket
  <2>5. Decode(UdpPacket, Encode(UdpPacket, m)).value =
          [i \in DOMAIN UdpPacket |-> IF UdpPacket[i].kind = "varint" THEN Wire62(m[i]) ELSE m[i]]
    BY <2>3, <2>4, ReadAsSaid
  <2>6. QED
    BY <2>2, <2>5
<1>4. CASE ~SameBytes(m[3])
  BY <1>1, <1>2, <1>4 DEF SameBytes, WellFormed
<1>5. QED
  BY <1>3, <1>4

LEMMA DecodePacketHolds == RInv /\ DecodePacket => RInv'
<1> DEFINE r == Decode(schema, sent)
<1> SUFFICES ASSUME RInv, DecodePacket PROVE RInv'
  OBVIOUS
<1>1. /\ UNCHANGED <<peerVars, arrived, closed>> /\ stage = "packet"
      /\ arrived = Len(sent) /\ taken' = arrived
      /\ result' = r.value /\ (Goes("refused") \/ (Goes("served") /\ ~Failed(r)))
  BY DEF DecodePacket
<1>2. PeerInv /\ PacketSent
  BY <1>1, Sides DEF RInv
<1>3. sent \in Seq(Byte) /\ Len(sent) \in Nat
  BY <1>2, SentBytes, LenProperties
<1>4. taken' \in 0..arrived
  BY <1>1, <1>3
<1>5. /\ schema \in PacketSchemas /\ schema # <<>> /\ said \in Messages(schema) /\ data = <<>>
      /\ sent = IF schema = UdpPacket THEN SocksPacket(said) ELSE Encode(schema, said)
  BY <1>2, OnlyLastIsRest DEF PacketSent
<1>6. UNCHANGED <<schema, said, data, require_auth, sent>>
  BY <1>1 DEF peerVars
<1>7. CASE Goes("refused")
  BY <1>1, <1>4, <1>7, Refuses
<1>8. CASE Goes("served") /\ ~Failed(r)
  <2>1. \/ result' = Expected
        \/ schema = UdpPacket /\ said[3].type = DOMAIN_NAME /\ ~ShortName(said[3])
    <3>1. CASE schema = UdpPacket
      <4>1. said \in Messages(UdpPacket) /\ ~Failed(Decode(UdpPacket, SocksPacket(said)))
            /\ result' = Decode(UdpPacket, SocksPacket(said)).value
        BY <1>1, <1>5, <1>8, <3>1
      <4>2. Expected = [i \in DOMAIN UdpPacket |->
                          IF UdpPacket[i].kind = "varint" THEN Wire62(said[i]) ELSE said[i]]
        BY <3>1 DEF Expected
      <4> HIDE DEF UdpPacket
      <4>3. QED
        BY <3>1, <4>1, <4>2, PacketRead
    <3>2. CASE schema # UdpPacket
      <4>1. ~Failed(Decode(schema, Encode(schema, said)))
            /\ result' = Decode(schema, Encode(schema, said)).value
        BY <1>1, <1>5, <1>8, <3>2
      <4>2. QED
        BY <1>5, <4>1, ReadAsSaid DEF Expected
    <3>3. QED
      BY <3>1, <3>2
  <2>2. Expected' = Expected
    BY <1>6 DEF Expected
  <2>3. ReadBack'
    BY <1>5, <1>6, <2>1, <2>2 DEF ReadBack, SocksTarget, ShortName
  <2>4. SubSeq(sent, Len(sent) + 1, Len(sent)) = <<>>
    <3>1. <<>> \in Seq(Byte) /\ sent \o <<>> = sent
      BY <1>3, ConcatEmptySeq
    <3>2. QED
      BY <1>3, <3>1, Rest2
  <2>5. DataLeft'
    BY <1>1, <1>5, <1>6, <2>4 DEF DataLeft
  <2>6. QED
    BY <1>1, <1>4, <1>5, <1>8, <2>3, <2>5, Serves
<1>9. QED
  BY <1>1, <1>7, <1>8

----------------------------------------------------------------------------
(* The theorems.                                                           *)

\* Between any two calls of read_exact, whatever the pieces the bytes arrived
\* in, a reading of handle_conn or of read_message stands inside the piece of
\* the peer's bytes it is meant for, and every reading that has ended took
\* exactly its piece.
THEOREM ReadersInvariant == Spec => []RInv
<1>1. RInv /\ [Next]_vars => RInv'
  BY ArriveHolds, CloseHolds, ReadExactHolds, ReadFailsHolds, DecodeMessageHolds, DecodePacketHolds,
     NegotiateMethodHolds, VerifyUserpassHolds, DecodeRequestHolds
  DEF Next, SocksRead, MessageRead
<1>2. QED
  BY <1>1, StartHolds, PTL DEF Spec

\* The bytes a reading of handle_conn or read_message holds are the last ones
\* taken off the stream, none twice and none left out, and no reading takes
\* more than has arrived.
THEOREM ReadersAreTyped == Spec => []TypeOK
<1>1. RInv => TypeOK
  <2> SUFFICES ASSUME RInv PROVE TypeOK
    OBVIOUS
  <2>1. PeerInv /\ ReadInv
    BY DEF RInv
  <2>2. sent \in Seq(Byte) /\ arrived \in 0..Len(sent) /\ taken \in 0..arrived
    BY <2>1, SentBytes DEF ReadInv
  <2>3. stage \in {"message", "packet", "methods", "userpass", "request", "served", "refused"}
    BY <2>1, Sides
  <2>4. ASSUME stage \in Stages
        PROVE  got \in Seq(Byte) /\ SubSeq(sent, taken - Len(got) + 1, taken) = got
    <3>1. Place(Passed, Piece, got, taken)
      BY <2>1, <2>4 DEF ReadInv
    <3>2. Passed \in Seq(Byte)
      BY <2>1, <2>4, Pieces
    <3>3. Piece \in Seq(Byte)
      BY <2>1, <2>4, Pieces
    <3>4. Ahead \in Seq(Byte)
      BY <2>1, <2>4, Pieces
    <3>5. sent = Passed \o (Piece \o Ahead)
      BY <2>1, <2>4, Pieces
    <3>6. LastRead(sent, got, taken)
      BY <3>1, <3>2, <3>3, <3>4, <3>5, PlaceHolds
    <3>7. QED
      BY <3>1, <3>6 DEF Place, LastRead
  <2>5. stage \notin Stages => got = <<>> /\ got \in Seq(Byte)
    BY <2>1 DEF ReadInv
  <2>6. Reading => stage \in Stages
    BY DEF Reading, Stages
  <2>7. QED
    BY <2>2, <2>3, <2>4, <2>5, <2>6 DEF TypeOK
<1>2. QED
  BY <1>1, ReadersInvariant, PTL

\* A message that read_message, Frame::decode or Datagram::decode accepts is
\* the one that was written, of its numbers the 62 bits a varint holds; a
\* SOCKS5 request or UDP packet that is served is served for the address it
\* asked for, unless its name is too long for one byte of length to be a varint.
THEOREM MessagesReadBack == Spec => []ReadBack
<1>1. RInv => ReadBack
  BY DEF RInv
<1>2. QED
  BY <1>1, ReadersInvariant, PTL

\* When the relay starts, all the application data is still on the stream: no
\* read_exact of handle_conn or read_message has taken a byte of it.
THEOREM RelayGetsTheData == Spec => []DataLeft
<1>1. RInv => DataLeft
  BY DEF RInv
<1>2. QED
  BY <1>1, ReadersInvariant, PTL

\* A message or frame that was cut, at whatever byte, is reported by the
\* decoders as UnexpectedEof and never taken for another one; only a frame's
\* body that is too long may be refused before its end is missed.
THEOREM CutsAreRecognised == Spec => []CutIsEof
<1>1. RInv => CutIsEof
  <2> SUFFICES ASSUME RInv, schema \notin {<<>>, Datagram, UdpPacket},
                      NEW k \in 0..(Len(Encode(schema, said)) - 1)
               PROVE  Decode(schema, SubSeq(Encode(schema, said), 1, k)).error \in
                        {"eof"} \cup (IF schema = Frame /\ Len(said[3]) > MAX_BODY_LEN
                                        THEN {"invalid"} ELSE {})
    BY DEF CutIsEof
  <2>1. schema \in StreamSchemas \cup PacketSchemas /\ said \in Messages(schema)
    BY Sides DEF RInv, MessageSent, PacketSent
  <2>2. schema \in StreamSchemas \cup {Frame}
    BY <2>1 DEF PacketSchemas
  <2>3. QED
    BY <2>1, <2>2, CutMessage
<1>2. QED
  BY <1>1, ReadersInvariant, PTL

\* With socks5_username configured, handle_conn serves no request unless
\* verify_userpass has compared this user name and this password with the ones
\* configured: no order of the readings gets around it.
THEOREM AuthIsEnforced == Spec => []AuthEnforced
<1>1. RInv => AuthEnforced
  BY DEF RInv, AuthInv, AuthEnforced
<1>2. QED
  BY <1>1, ReadersInvariant, PTL

=============================================================================
