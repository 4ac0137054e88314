---------------------------- MODULE MuxCreditProofs ----------------------------
(*******************************************************************************)
(* Proofs about the credit of MuxTunnel and its bounds, for any number of      *)
(* streams, any amount of data and queues of any size: between two live ends   *)
(* no credit is made up and one frame of it lost at most, and every queue and  *)
(* count keeps its type.                                                       *)
(*                                                                             *)
(* The credit under way is a sum over a sequence of frames, so what the queue  *)
(* operations do to it is proved by induction on the length of the sequence;   *)
(* the principle (Induct) comes from the least element of a set of numbers.    *)
(* Most facts are about Stretches, two stretches of two sequences that carry   *)
(* the same credit.                                                            *)
(*                                                                             *)
(* The invariant CInv adds to the one of MuxTunnelProofs the books of each     *)
(* direction (CreditOk) and that a stream is registered once on each side      *)
(* (StartInv), for registering starts its books anew.  BInv adds the bounds.   *)
(*******************************************************************************)
EXTENDS MuxTunnelProofs, FiniteSetTheorems, WellFoundedInduction

----------------------------------------------------------------------------
(* Induction over the naturals, from the least element of a set of them. *)

LEMMA LeastNat ==
    ASSUME NEW T, T \subseteq Nat, T # {}
    PROVE  \E n \in T : \A m \in T : n <= m
<1> DEFINE R == OpToRel(<, Nat)
<1>1. IsWellFoundedOn(R, Nat)
  BY NatLessThanWellFounded
<1>2. \A m, n \in Nat : m < n => <<m, n>> \in R
  BY DEF OpToRel
<1> HIDE DEF R
<1>3. PICK n \in T : \A m \in T : <<m, n>> \notin R
  BY <1>1, WFMin
<1>4. n \in Nat /\ \A m \in T : m \in Nat /\ ~(m < n)
  BY <1>2, <1>3
<1>5. \A m \in T : n <= m
  BY <1>4
<1>6. QED
  BY <1>5

LEMMA Induct ==
    ASSUME NEW T, T \subseteq Nat, 0 \in T, \A n \in T : n + 1 \in T
    PROVE  T = Nat
<1> SUFFICES ASSUME Nat \ T # {} PROVE FALSE
  OBVIOUS
<1>1. PICK n \in Nat \ T : \A m \in Nat \ T : n <= m
  BY LeastNat
<1>2. n # 0 /\ n - 1 \in Nat /\ ~(n <= n - 1) /\ (n - 1) + 1 = n
  BY <1>1
<1>3. n - 1 \in T
  BY <1>1, <1>2
<1>4. QED
  BY <1>1, <1>2, <1>3

----------------------------------------------------------------------------
(* The credit that a sequence of frames carries. *)

LEMMA CreditOfNat ==
    ASSUME NEW s, NEW f \in AnyFrame
    PROVE  CreditOf(f, s) \in Nat
BY DEF CreditOf, AnyFrame

\* g is the running sum up to frame k of Q.
Sums(g, Q, s, k) ==
    /\ g \in [0..k -> Nat] /\ g[0] = 0
    /\ \A n \in 1..k : g[n] = g[n - 1] + CreditOf(Q[n], s)

LEMMA SumsExist ==
    ASSUME NEW Q \in Seq(AnyFrame), NEW s
    PROVE  \E g : Sums(g, Q, s, Len(Q))
<1> DEFINE T == {k \in Nat : k <= Len(Q) => \E g : Sums(g, Q, s, k)}
<1>1. \A k \in Nat : k \in T <=> (k <= Len(Q) => \E g : Sums(g, Q, s, k))
  OBVIOUS
<1>2. T \subseteq Nat
  OBVIOUS
<1> HIDE DEF T
<1>3. 0 \in T
  <2>1. Sums([n \in 0..0 |-> 0], Q, s, 0)
    BY DEF Sums
  <2>2. QED
    BY <1>1, <2>1
<1>4. ASSUME NEW k \in T PROVE k + 1 \in T
  <2>1. k \in Nat /\ k + 1 \in Nat /\ Len(Q) \in Nat
    BY <1>2
  <2>2. ASSUME k + 1 <= Len(Q) PROVE \E g : Sums(g, Q, s, k + 1)
    <3>1. k <= Len(Q)
      BY <2>1, <2>2
    <3>2. PICK g : Sums(g, Q, s, k)
      BY <1>1, <2>1, <3>1
    <3> DEFINE x == CreditOf(Q[k + 1], s)
               h == [n \in 0..(k + 1) |-> IF n = k + 1 THEN g[k] + x ELSE g[n]]
    <3>3. k + 1 \in 1..Len(Q)
      BY <2>1, <2>2
    <3>4. x \in Nat
      BY <3>3, CreditOfNat
    <3>5. g \in [0..k -> Nat] /\ g[0] = 0 /\ \A n \in 1..k : g[n] = g[n - 1] + CreditOf(Q[n], s)
      BY <3>2 DEF Sums
    <3>6. /\ h[k + 1] = g[k] + x
          /\ \A n \in 0..k : h[n] = g[n]
      BY <2>1
    <3>7. h \in [0..(k + 1) -> Nat]
      BY <2>1, <3>4, <3>5
    <3> HIDE DEF h
    <3>8. ASSUME NEW n \in 1..(k + 1) PROVE h[n] = h[n - 1] + CreditOf(Q[n], s)
      <4>1. CASE n = k + 1
        BY <2>1, <3>6, <4>1
      <4>2. CASE n # k + 1
        <5>1. n \in 1..k /\ n \in 0..k /\ n - 1 \in 0..k
          BY <2>1, <4>2
        <5>2. QED
          BY <3>5, <3>6, <5>1
      <4>3. QED
        BY <4>1, <4>2
    <3>9. h[0] = 0
      BY <2>1, <3>5, <3>6
    <3>10. QED
      BY <3>7, <3>8, <3>9 DEF Sums
  <2>3. QED
    BY <1>1, <2>1, <2>2
<1>5. T = Nat
  BY <1>2, <1>3, <1>4, Induct
<1>6. Len(Q) \in T
  BY <1>5
<1>7. QED
  BY <1>1, <1>6

LEMMA CreditsSum ==
    ASSUME NEW Q \in Seq(AnyFrame), NEW s
    PROVE  \E g : Sums(g, Q, s, Len(Q)) /\ Credits(Q, s) = g[Len(Q)]
<1>1. PICK g : Sums(g, Q, s, Len(Q))
  BY SumsExist
<1> DEFINE Is(f) == f = [n \in 0..Len(Q) |-> IF n = 0 THEN 0 ELSE f[n - 1] + CreditOf(Q[n], s)]
           sum == CHOOSE f : Is(f)
<1>2. Is(g)
  <2>1. g = [n \in 0..Len(Q) |-> g[n]]
    BY <1>1 DEF Sums
  <2>2. \A n \in 0..Len(Q) : g[n] = IF n = 0 THEN 0 ELSE g[n - 1] + CreditOf(Q[n], s)
    BY <1>1 DEF Sums
  <2>3. QED
    BY <2>1, <2>2
<1>3. Credits(Q, s) = sum[Len(Q)]
  BY DEF Credits
<1> HIDE DEF Is
<1>4. Is(sum)
  BY <1>2
<1> HIDE DEF sum
<1>5. /\ DOMAIN sum = 0..Len(Q) /\ sum[0] = 0
      /\ \A n \in 1..Len(Q) : sum[n] = sum[n - 1] + CreditOf(Q[n], s)
      /\ sum = [n \in 0..Len(Q) |-> sum[n]]
  BY <1>4 DEF Is
<1>6. \A n \in 0..Len(Q) : sum[n] = g[n]
  <2> DEFINE T == {k \in Nat : k <= Len(Q) => sum[k] = g[k]}
  <2>1. T \subseteq Nat /\ \A k \in Nat : k \in T <=> (k <= Len(Q) => sum[k] = g[k])
    OBVIOUS
  <2> HIDE DEF T
  <2>2. 0 \in T
    BY <1>1, <1>5, <2>1 DEF Sums
  <2>3. ASSUME NEW k \in T PROVE k + 1 \in T
    <3>1. ASSUME k + 1 <= Len(Q) PROVE sum[k + 1] = g[k + 1]
      <4>1. k \in Nat /\ k + 1 \in 1..Len(Q) /\ k <= Len(Q) /\ (k + 1) - 1 = k
        BY <2>1, <3>1
      <4>2. sum[k] = g[k]
        BY <2>1, <4>1
      <4>3. QED
        BY <1>1, <1>5, <4>1, <4>2 DEF Sums
    <3>2. QED
      BY <2>1, <3>1
  <2>4. T = Nat
    BY <2>1, <2>2, <2>3, Induct
  <2>5. QED
    BY <2>1, <2>4
<1>7. QED
  BY <1>1, <1>3, <1>6

\* Stretches of m frames, in Q after the first a of them and in R after the first b,
\* that carry the same.
Stretch(Q, R, s, a, b, m) ==
    /\ a + m <= Len(Q) /\ b + m <= Len(R)
    /\ \A i \in 1..m : CreditOf(Q[a + i], s) = CreditOf(R[b + i], s)
SumAlike(g, h, a, b, m) == g[a + m] - g[a] = h[b + m] - h[b]

LEMMA SumTypes ==
    ASSUME NEW Q \in Seq(AnyFrame), NEW s, NEW g, Sums(g, Q, s, Len(Q))
    PROVE  /\ \A i \in 0..Len(Q) : g[i] \in Nat
           /\ g[0] = 0 /\ Len(Q) \in Nat
<1>1. g \in [0..Len(Q) -> Nat] /\ g[0] = 0
  BY DEF Sums
<1>2. Len(Q) \in Nat
  OBVIOUS
<1>3. QED
  BY <1>1, <1>2

LEMMA Stretches ==
    ASSUME NEW Q \in Seq(AnyFrame), NEW R \in Seq(AnyFrame), NEW s, NEW g, NEW h,
           Sums(g, Q, s, Len(Q)), Sums(h, R, s, Len(R)),
           NEW a \in Nat, NEW b \in Nat, NEW m \in Nat, Stretch(Q, R, s, a, b, m)
    PROVE  SumAlike(g, h, a, b, m)
<1> SUFFICES g[a + m] - g[a] = h[b + m] - h[b]
  BY DEF SumAlike
<1> DEFINE T == {k \in Nat : k <= m => g[a + k] - g[a] = h[b + k] - h[b]}
<1>1. T \subseteq Nat /\ \A k \in Nat : k \in T <=> (k <= m => g[a + k] - g[a] = h[b + k] - h[b])
  OBVIOUS
<1> HIDE DEF T
<1>2. /\ \A i \in 0..Len(Q) : g[i] \in Nat
      /\ \A i \in 0..Len(R) : h[i] \in Nat
      /\ Len(Q) \in Nat /\ Len(R) \in Nat
  BY SumTypes, Zenon
<1>0. /\ a + m <= Len(Q) /\ b + m <= Len(R)
      /\ \A i \in 1..m : CreditOf(Q[a + i], s) = CreditOf(R[b + i], s)
  BY DEF Stretch
<1>3. 0 \in T
  <2>1. a + 0 = a /\ b + 0 = b /\ a \in 0..Len(Q) /\ b \in 0..Len(R)
    BY <1>0, <1>2
  <2>2. g[a] \in Nat /\ h[b] \in Nat
    BY <1>2, <2>1
  <2>3. QED
    BY <1>1, <2>1, <2>2
<1>4. ASSUME NEW k \in T PROVE k + 1 \in T
  <2>1. ASSUME k + 1 <= m PROVE g[a + (k + 1)] - g[a] = h[b + (k + 1)] - h[b]
    <3>1. /\ k \in Nat /\ k <= m /\ k + 1 \in 1..m
          /\ a + (k + 1) \in 1..Len(Q) /\ (a + (k + 1)) - 1 = a + k /\ a + k \in 0..Len(Q)
          /\ b + (k + 1) \in 1..Len(R) /\ (b + (k + 1)) - 1 = b + k /\ b + k \in 0..Len(R)
          /\ a \in 0..Len(Q) /\ b \in 0..Len(R)
      BY <1>0, <1>1, <1>2, <2>1
    <3>2. g[a + k] - g[a] = h[b + k] - h[b]
      BY <1>1, <3>1
    <3>3. /\ g[a + (k + 1)] = g[a + k] + CreditOf(Q[a + (k + 1)], s)
          /\ h[b + (k + 1)] = h[b + k] + CreditOf(R[b + (k + 1)], s)
      BY <3>1 DEF Sums
    <3>4. CreditOf(Q[a + (k + 1)], s) = CreditOf(R[b + (k + 1)], s)
      BY <1>0, <3>1
    <3>5. Q[a + (k + 1)] \in AnyFrame
      BY <3>1
    <3>6. CreditOf(Q[a + (k + 1)], s) \in Nat
      BY <3>5, CreditOfNat
    <3>7. {g[a], g[a + k], h[b], h[b + k]} \subseteq Nat
      BY <1>2, <3>1
    <3> DEFINE x == CreditOf(Q[a + (k + 1)], s)
    <3>9. /\ x \in Nat
          /\ g[a] \in Nat /\ g[a + k] \in Nat /\ h[b] \in Nat /\ h[b + k] \in Nat
          /\ g[a + (k + 1)] = g[a + k] + x /\ h[b + (k + 1)] = h[b + k] + x
      BY <3>3, <3>4, <3>6, <3>7
    <3> HIDE DEF x
    <3>10. PICK u \in Nat, v \in Nat, y \in Nat, z \in Nat, c \in Nat :
              u = g[a + k] /\ v = g[a] /\ y = h[b + k] /\ z = h[b] /\ c = x
      BY <3>9
    <3>11. g[a + (k + 1)] = u + c /\ h[b + (k + 1)] = y + c
      BY <3>9, <3>10
    <3>12. u - v = y - z
      BY <3>2, <3>10
    <3>13. (u + c) - v = (y + c) - z
      BY <3>12
    <3>14. QED
      BY <3>10, <3>11, <3>13
  <2>2. QED
    BY <1>1, <2>1
<1>5. T = Nat
  BY <1>1, <1>3, <1>4, Induct
<1>6. QED
  BY <1>1, <1>5

LEMMA CreditsNat ==
    ASSUME NEW Q \in Seq(AnyFrame), NEW s
    PROVE  Credits(Q, s) \in Nat
<1>1. PICK g : Sums(g, Q, s, Len(Q)) /\ Credits(Q, s) = g[Len(Q)]
  BY CreditsSum
<1>2. QED
  BY <1>1 DEF Sums

LEMMA NoCredits == \A s : Credits(<<>>, s) = 0
<1> TAKE s
<1>1. <<>> \in Seq(AnyFrame) /\ Len(<<>>) = 0
  BY EmptySeq
<1>2. PICK g : Sums(g, <<>>, s, 0) /\ Credits(<<>>, s) = g[0]
  BY <1>1, CreditsSum
<1>3. QED
  BY <1>2 DEF Sums

\* A frame put in adds its credit.
LEMMA GrownCredits ==
    ASSUME NEW Q \in Seq(AnyFrame), NEW R \in Seq(AnyFrame), NEW f, NEW k, Grown(Q, R, f, k), NEW s
    PROVE  Credits(R, s) = Credits(Q, s) + CreditOf(f, s)
<1>1. PICK g : Sums(g, Q, s, Len(Q)) /\ Credits(Q, s) = g[Len(Q)]
  BY CreditsSum
<1>2. PICK h : Sums(h, R, s, Len(R)) /\ Credits(R, s) = h[Len(R)]
  BY CreditsSum
<1>3. /\ k \in 0..Len(Q) /\ Len(R) = Len(Q) + 1 /\ Len(Q) \in Nat /\ Len(R) \in Nat
      /\ \A i \in 1..k : R[i] = Q[i]
      /\ R[k + 1] = f
      /\ \A i \in (k + 1)..Len(Q) : R[i + 1] = Q[i]
  BY DEF Grown
<1> DEFINE m == Len(Q) - k
<1>4. m \in Nat /\ k \in Nat /\ k + m = Len(Q) /\ (k + 1) + m = Len(R) /\ k + 1 \in 1..Len(R)
  BY <1>3
<1>5. g[0 + k] - g[0] = h[0 + k] - h[0]
  <2>0. 0 \in Nat
    OBVIOUS
  <2>1. \A i \in 1..k : CreditOf(Q[0 + i], s) = CreditOf(R[0 + i], s)
    BY <1>3
  <2>2. 0 + k <= Len(Q) /\ 0 + k <= Len(R)
    BY <1>3
  <2>3. Stretch(Q, R, s, 0, 0, k)
    BY <2>1, <2>2 DEF Stretch
  <2>4. SumAlike(g, h, 0, 0, k)
    BY <1>1, <1>2, <1>4, <2>0, <2>3, Stretches, Zenon
  <2>5. QED
    BY <2>4 DEF SumAlike
<1>6. g[k + m] - g[k] = h[(k + 1) + m] - h[k + 1]
  <2>1. ASSUME NEW i \in 1..m PROVE CreditOf(Q[k + i], s) = CreditOf(R[(k + 1) + i], s)
    <3>0. k \in Nat /\ Len(Q) \in Nat /\ k <= Len(Q) /\ i \in 1..(Len(Q) - k)
      BY <1>3 DEF m
    <3>1. k + i \in (k + 1)..Len(Q) /\ (k + i) + 1 = (k + 1) + i
      BY <3>0
    <3>2. QED
      BY <1>3, <3>1
  <2>2. k + m <= Len(Q) /\ (k + 1) + m <= Len(R) /\ k + 1 \in Nat
    BY <1>4
  <2> HIDE DEF m
  <2>3. Stretch(Q, R, s, k, k + 1, m)
    BY <2>1, <2>2 DEF Stretch
  <2>4. SumAlike(g, h, k, k + 1, m)
    BY <1>1, <1>2, <1>4, <2>2, <2>3, Stretches, Zenon
  <2>5. QED
    BY <2>4 DEF SumAlike
<1> HIDE DEF m
<1>7. h[k + 1] = h[k] + CreditOf(f, s)
  <2>1. (k + 1) - 1 = k
    BY <1>4
  <2>2. h[k + 1] = h[(k + 1) - 1] + CreditOf(R[k + 1], s)
    BY <1>2, <1>4 DEF Sums
  <2>3. QED
    BY <1>3, <2>1, <2>2
<1>8. g[0] = 0 /\ h[0] = 0 /\ {g[k], g[Len(Q)], h[k], h[k + 1], h[Len(R)]} \subseteq Nat
  <2>1. /\ g \in [0..Len(Q) -> Nat] /\ h \in [0..Len(R) -> Nat]
        /\ g[0] = 0 /\ h[0] = 0
    BY <1>1, <1>2 DEF Sums
  <2>2. k \in 0..Len(R) /\ k + 1 \in 0..Len(R) /\ Len(R) \in 0..Len(R) /\ Len(Q) \in 0..Len(Q)
    BY <1>3, <1>4
  <2>3. QED
    BY <1>3, <2>1, <2>2
<1>9. f \in AnyFrame
  BY <1>3, <1>4
<1>10. CreditOf(f, s) \in Nat
  BY <1>9, CreditOfNat
<1>11. g[k] = h[k] /\ g[Len(Q)] - g[k] = h[Len(R)] - h[k + 1]
  <2>1. 0 + k = k
    BY <1>4
  <2>2. g[k] - 0 = h[k] - 0
    BY <1>5, <1>8, <2>1
  <2>3. g[k] = h[k]
    BY <1>8, <2>2
  <2>4. QED
    BY <1>4, <1>6, <2>3
<1>13. /\ g[Len(Q)] \in Nat /\ g[k] \in Nat /\ h[Len(R)] \in Nat /\ h[k + 1] \in Nat
       /\ h[k + 1] = g[k] + CreditOf(f, s)
  BY <1>7, <1>8, <1>11
<1>14. PICK u \in Nat, v \in Nat, x \in Nat, y \in Nat, c \in Nat :
         u = g[Len(Q)] /\ v = g[k] /\ x = h[Len(R)] /\ y = h[k + 1] /\ c = CreditOf(f, s)
  BY <1>10, <1>13
<1>15. u - v = x - y /\ y = v + c
  BY <1>11, <1>13, <1>14
<1>16. x = u + c
  BY <1>15
<1>17. QED
  BY <1>1, <1>2, <1>14, <1>16

\* A frame taken off takes it away.
LEMMA TakenCredits ==
    ASSUME NEW Q \in Seq(AnyFrame), NEW R \in Seq(AnyFrame), Taken(Q, R), NEW s
    PROVE  Credits(Q, s) = CreditOf(Q[1], s) + Credits(R, s)
<1>1. PICK g : Sums(g, Q, s, Len(Q)) /\ Credits(Q, s) = g[Len(Q)]
  BY CreditsSum
<1>2. PICK h : Sums(h, R, s, Len(R)) /\ Credits(R, s) = h[Len(R)]
  BY CreditsSum
<1>3. /\ Len(R) + 1 = Len(Q) /\ Len(Q) \in Nat /\ Len(R) \in Nat
      /\ \A i \in 1..Len(R) : R[i] = Q[i + 1]
  BY DEF Taken, Part
<1>4. g[1 + Len(R)] - g[1] = h[0 + Len(R)] - h[0]
  <2>1. \A i \in 1..Len(R) : CreditOf(Q[1 + i], s) = CreditOf(R[0 + i], s)
    <3> TAKE i \in 1..Len(R)
    <3>1. 1 + i = i + 1 /\ 0 + i = i
      OBVIOUS
    <3>2. QED
      BY <1>3, <3>1
  <2>2. 1 + Len(R) <= Len(Q) /\ 0 + Len(R) <= Len(R)
    BY <1>3
  <2>3. Stretch(Q, R, s, 1, 0, Len(R))
    BY <2>1, <2>2 DEF Stretch
  <2>4. 0 \in Nat /\ 1 \in Nat
    OBVIOUS
  <2>5. SumAlike(g, h, 1, 0, Len(R))
    BY <1>1, <1>2, <1>3, <2>3, <2>4, Stretches, Zenon
  <2>6. QED
    BY <2>5 DEF SumAlike
<1>5. 1 \in 1..Len(Q)
  BY <1>3
<1>6. g[1] = g[0] + CreditOf(Q[1], s) /\ g[0] = 0 /\ h[0] = 0
  BY <1>1, <1>2, <1>5 DEF Sums
<1>7. {g[1], g[Len(Q)], h[Len(R)]} \subseteq Nat
  <2>1. g \in [0..Len(Q) -> Nat] /\ h \in [0..Len(R) -> Nat]
    BY <1>1, <1>2 DEF Sums
  <2>2. 1 \in 0..Len(Q) /\ Len(Q) \in 0..Len(Q) /\ Len(R) \in 0..Len(R)
    BY <1>3, <1>5
  <2>3. QED
    BY <2>1, <2>2
<1>8. CreditOf(Q[1], s) \in Nat
  BY <1>5, CreditOfNat
<1>9. g[Len(Q)] - g[1] = h[Len(R)]
  BY <1>3, <1>4, <1>6, <1>7
<1>10. QED
  BY <1>1, <1>2, <1>6, <1>7, <1>8, <1>9

\* Frames that carry none add nothing.
LEMMA FreeCredits ==
    ASSUME NEW Q \in Seq(AnyFrame), NEW R \in Seq(AnyFrame), NEW s,
           \A i \in 1..Len(R) : CreditOf(R[i], s) = 0
    PROVE  Credits(Q \o R, s) = Credits(Q, s)
<1>1. /\ Q \o R \in Seq(AnyFrame) /\ Len(Q \o R) = Len(Q) + Len(R)
      /\ \A i \in 1..Len(Q) + Len(R) : (Q \o R)[i] = IF i <= Len(Q) THEN Q[i] ELSE R[i - Len(Q)]
  BY ConcatProperties
<1> DEFINE C == Q \o R
<1> HIDE DEF C
<1>2. PICK g : Sums(g, Q, s, Len(Q)) /\ Credits(Q, s) = g[Len(Q)]
  BY CreditsSum
<1>3. PICK h : Sums(h, C, s, Len(C)) /\ Credits(C, s) = h[Len(C)]
  BY <1>1, CreditsSum DEF C
<1>4. Len(Q) \in Nat /\ Len(R) \in Nat /\ Len(C) = Len(Q) + Len(R) /\ C \in Seq(AnyFrame)
  BY <1>1 DEF C
<1>5. g[0 + Len(Q)] - g[0] = h[0 + Len(Q)] - h[0]
  <2>1. \A i \in 1..Len(Q) : CreditOf(Q[0 + i], s) = CreditOf(C[0 + i], s)
    <3> TAKE i \in 1..Len(Q)
    <3>1. 0 + i = i /\ i \in 1..Len(Q) + Len(R) /\ i <= Len(Q)
      BY <1>4
    <3>2. QED
      BY <1>1, <3>1 DEF C
  <2>2. 0 + Len(Q) <= Len(Q) /\ 0 + Len(Q) <= Len(C)
    BY <1>4
  <2>3. Stretch(Q, C, s, 0, 0, Len(Q))
    BY <2>1, <2>2 DEF Stretch
  <2>4. 0 \in Nat
    OBVIOUS
  <2>5. SumAlike(g, h, 0, 0, Len(Q))
    BY <1>2, <1>3, <1>4, <2>3, <2>4, Stretches, Zenon
  <2>6. QED
    BY <2>5 DEF SumAlike
<1>6. \A k \in 0..Len(R) : h[Len(Q) + k] = h[Len(Q)]
  <2> DEFINE T == {k \in Nat : k <= Len(R) => h[Len(Q) + k] = h[Len(Q)]}
  <2>1. T \subseteq Nat /\ \A k \in Nat : k \in T <=> (k <= Len(R) => h[Len(Q) + k] = h[Len(Q)])
    OBVIOUS
  <2> HIDE DEF T
  <2>2. 0 \in T
    BY <1>4, <2>1
  <2>3. ASSUME NEW k \in T PROVE k + 1 \in T
    <3>1. ASSUME k + 1 <= Len(R) PROVE h[Len(Q) + (k + 1)] = h[Len(Q)]
      <4>1. /\ k \in Nat /\ k <= Len(R) /\ k + 1 \in 1..Len(R)
            /\ Len(Q) + (k + 1) \in 1..Len(C) /\ (Len(Q) + (k + 1)) - 1 = Len(Q) + k
            /\ Len(Q) + (k + 1) \in 1..Len(Q) + Len(R)
            /\ ~(Len(Q) + (k + 1) <= Len(Q)) /\ (Len(Q) + (k + 1)) - Len(Q) = k + 1
            /\ Len(Q) \in 0..Len(C)
        BY <1>4, <2>1, <3>1
      <4>2. C[Len(Q) + (k + 1)] = R[k + 1]
        BY <1>1, <4>1 DEF C
      <4>3. h[Len(Q) + (k + 1)] = h[Len(Q) + k] + 0
        BY <1>3, <4>1, <4>2 DEF Sums
      <4>4. h[Len(Q) + k] = h[Len(Q)] /\ h[Len(Q)] \in Nat
        BY <1>3, <2>1, <4>1 DEF Sums
      <4>5. QED
        BY <4>3, <4>4
    <3>2. QED
      BY <2>1, <3>1
  <2>4. T = Nat
    BY <2>1, <2>2, <2>3, Induct
  <2>5. QED
    BY <2>1, <2>4
<1>7. h[Len(C)] = h[Len(Q)]
  BY <1>4, <1>6
<1>8. g[0] = 0 /\ h[0] = 0 /\ g[Len(Q)] \in Nat /\ h[Len(Q)] \in Nat
  BY <1>2, <1>3, <1>4 DEF Sums
<1>9. g[Len(Q)] = h[Len(Q)]
  BY <1>4, <1>5, <1>8
<1>10. QED
  BY <1>2, <1>3, <1>7, <1>9 DEF C

----------------------------------------------------------------------------
(* The invariant *)

\* One direction of a stream's data: c is the credit on its way from the receiver to
\* the sender; from and to, w and g as in DataOk; r is what the receiving application
\* has read and o what its reader holds back of it; out is the sender's count, m is 1
\* when it has a chunk still to count and else 0, and reg is whether it has registered
\* the stream.  The count is exact, or one too high.
CreditOk(from, to, w, g, r, o, out, m, reg, c) ==
    /\ r \in Nat /\ o \in Nat /\ out \in Nat /\ c \in Nat
    /\ r <= g /\ o <= r /\ out + m <= w
    /\ from /\ to => o + c <= r
    /\ reg /\ to => \/ out + m = w - r + o + c
                    \/ out + m = w - r + o + c + 1

Mid(t) == IF t = "counting" THEN 1 ELSE 0

CreditInv(p, s) ==
    CreditOk(up[p], up[Other(p)], wrote[p][s], got[Other(p)][s], readBy[Other(p)][s],
             owed[Other(p)][s], outstanding[p][s], Mid(pump[p][s]), s \in registered[p],
             Credits(Channel(Other(p), s), s))

\* A frame of X is among p's commands that have not reached frame_tx.
HeldIn(r, c, X) ==
    \/ r # Idle /\ r.frame \in X
    \/ \E i \in 1..Len(c) : c[i].frame \in X
Held(p, X) == HeldIn(run[p], cmdQ[p], X)

\* A stream is registered once on each side.
StartInv(s) ==
    /\ pump["client"][s] # "none" => acceptor[s] # "none" /\ s \notin pending
    /\ pump["server"][s] # "none" =>
         acceptor[s] \notin {"none", "event", "taken"} /\ ~Held("server", Of("ack", s))

CInv == /\ readBy \in [Peers -> [Streams -> Nat]]
        /\ outstanding \in [Peers -> [Streams -> Nat]]
        /\ \A s \in Streams :
             CreditInv("client", s) /\ CreditInv("server", s) /\ StartInv(s)

----------------------------------------------------------------------------
(* How the steps change the credit under way. *)

LEMMA ChannelAny ==
    ASSUME QueueInv, NEW p \in Peers, NEW s \in Streams
    PROVE  Channel(p, s) \in Seq(AnyFrame) /\ Credits(Channel(p, s), s) \in Nat
<1>1. FramesOf(p) \subseteq AnyFrame
  BY DEF FramesOf
<1>2. Channel(p, s) \in Seq(FramesOf(p))
  BY ChannelTyped
<1>3. Channel(p, s) \in Seq(AnyFrame)
  BY <1>1, <1>2, SeqMonotonic
<1>4. QED
  BY <1>3, CreditsNat

LEMMA ChannelAnyNext ==
    ASSUME NEW p \in Peers, NEW s \in Streams
    PROVE  (QueueInv => Channel(p, s) \in Seq(AnyFrame) /\ Credits(Channel(p, s), s) \in Nat)'
<1>1. QueueInv => Channel(p, s) \in Seq(AnyFrame) /\ Credits(Channel(p, s), s) \in Nat
  BY ChannelAny
<1>2. QED
  BY <1>1, PTL

LEMMA ChannelGains ==
    ASSUME QueueInv, QueueInv', NEW p \in Peers, NEW s \in Streams, NEW f, NEW k,
           Grown(Channel(p, s), Channel(p, s)', f, k)
    PROVE  Credits(Channel(p, s), s)' = Credits(Channel(p, s), s) + CreditOf(f, s)
<1>1. Channel(p, s) \in Seq(AnyFrame) /\ Channel(p, s)' \in Seq(AnyFrame)
  BY ChannelAny, ChannelAnyNext DEF AnyFrame, FrameTypes
<1>2. \A R \in Seq(AnyFrame) : Grown(Channel(p, s), R, f, k)
        => Credits(R, s) = Credits(Channel(p, s), s) + CreditOf(f, s)
  BY <1>1, GrownCredits
<1>3. Credits(Channel(p, s)', s) = Credits(Channel(p, s), s) + CreditOf(f, s)
  BY <1>1, <1>2
<1>4. QED
  BY <1>3

LEMMA ChannelLoses ==
    ASSUME QueueInv, QueueInv', NEW p \in Peers, NEW s \in Streams,
           Taken(Channel(p, s), Channel(p, s)')
    PROVE  Credits(Channel(p, s), s) = CreditOf(Channel(p, s)[1], s) + Credits(Channel(p, s), s)'
<1>1. Channel(p, s) \in Seq(AnyFrame) /\ Channel(p, s)' \in Seq(AnyFrame)
  BY ChannelAny, ChannelAnyNext DEF AnyFrame, FrameTypes
<1>2. \A R \in Seq(AnyFrame) : Taken(Channel(p, s), R)
        => Credits(Channel(p, s), s) = CreditOf(Channel(p, s)[1], s) + Credits(R, s)
  BY <1>1, TakenCredits
<1>3. Credits(Channel(p, s), s) = CreditOf(Channel(p, s)[1], s) + Credits(Channel(p, s)', s)
  BY <1>1, <1>2
<1>4. QED
  BY <1>3

LEMMA CreditsSame ==
    ASSUME NEW p, NEW s, Channel(p, s)' = Channel(p, s)
    PROVE  Credits(Channel(p, s), s)' = Credits(Channel(p, s), s)
OBVIOUS

LEMMA CommandCredits ==
    ASSUME QueueInv, NEW p \in Peers, NEW x \in CommandsOf(p), Commanded(p, x), NEW s \in Streams
    PROVE  /\ Credits(Channel(p, s), s)' = Credits(Channel(p, s), s) + CreditOf(x.frame, s)
           /\ Credits(Channel(Other(p), s), s)' = Credits(Channel(Other(p), s), s)
<1>1. /\ QueueInv'
      /\ Grown(Channel(p, s), Channel(p, s)', x.frame, Len(Passing(p)))
      /\ Channel(Other(p), s)' = Channel(Other(p), s)
  BY CommandQueues
<1>2. Credits(Channel(p, s), s)' = Credits(Channel(p, s), s) + CreditOf(x.frame, s)
  BY <1>1, ChannelGains
<1>3. QED
  BY <1>1, <1>2, CreditsSame

\* A frame of another kind leaves the credit as it is.
LEMMA OtherKinds ==
    ASSUME NEW s, NEW f, f.type # "credit" \/ f.id # s
    PROVE  CreditOf(f, s) = 0
BY DEF CreditOf

LEMMA CommandFree ==
    ASSUME QueueInv, NEW p \in Peers, NEW x \in CommandsOf(p), Commanded(p, x),
           x.frame.type # "credit"
    PROVE  \A q \in Peers, s \in Streams :
             Credits(Channel(q, s), s)' = Credits(Channel(q, s), s)
<1> SUFFICES ASSUME NEW q \in Peers, NEW s \in Streams
             PROVE  Credits(Channel(q, s), s)' = Credits(Channel(q, s), s)
  OBVIOUS
<1>1. /\ Credits(Channel(p, s), s)' = Credits(Channel(p, s), s) + CreditOf(x.frame, s)
      /\ Credits(Channel(Other(p), s), s)' = Credits(Channel(Other(p), s), s)
  BY CommandCredits
<1>2. CreditOf(x.frame, s) = 0 /\ Credits(Channel(p, s), s) \in Nat
  BY OtherKinds, ChannelAny
<1>3. Credits(Channel(p, s), s)' = Credits(Channel(p, s), s)
  BY <1>1, <1>2
<1>4. QED
  BY <1>1, <1>3, ThePeers

\* handle_frame: what the first frame carried is no longer under way; no answer to a
\* frame is credit.
LEMMA TakenOffCredits ==
    ASSUME QueueInv, NEW p \in Peers, NEW r \in CommandsOf(p) \cup {Idle}, TakenOff(p, r),
           r = Idle \/ r.frame.type # "credit", NEW s \in Streams
    PROVE  /\ Credits(Channel(p, s), s)' = Credits(Channel(p, s), s)
           /\ Credits(Channel(Other(p), s), s)
                = CreditOf(Head(wire[Other(p)]), s) + Credits(Channel(Other(p), s), s)'
           /\ CreditOf(Head(wire[Other(p)]), s) \in Nat
<1>1. /\ QueueInv'
      /\ Head(wire[Other(p)]) \in FramesOf(Other(p))
      /\ Taken(Channel(Other(p), s), Channel(Other(p), s)')
      /\ Channel(Other(p), s)[1] = Head(wire[Other(p)])
      /\ r = Idle => Channel(p, s)' = Channel(p, s)
      /\ r # Idle =>
           Grown(Channel(p, s), Channel(p, s)', r.frame, Len(wire[p] \o frameQ[p]))
  BY TakenQueues
<1>2. Credits(Channel(Other(p), s), s)
        = CreditOf(Head(wire[Other(p)]), s) + Credits(Channel(Other(p), s), s)'
  <2>1. Credits(Channel(Other(p), s), s)
        = CreditOf(Channel(Other(p), s)[1], s) + Credits(Channel(Other(p), s), s)'
    BY <1>1, OtherPeer, ChannelLoses
  <2>2. QED
    BY <1>1, <2>1
<1>3. Credits(Channel(p, s), s)' = Credits(Channel(p, s), s)
  <2>1. CASE r = Idle
    BY <1>1, <2>1, CreditsSame
  <2>2. CASE r # Idle
    <3>1. Credits(Channel(p, s), s)' = Credits(Channel(p, s), s) + CreditOf(r.frame, s)
      BY <1>1, <2>2, ChannelGains
    <3>2. CreditOf(r.frame, s) = 0 /\ Credits(Channel(p, s), s) \in Nat
      BY <2>2, OtherKinds, ChannelAny
    <3>3. QED
      BY <3>1, <3>2
  <2>3. QED
    BY <2>1, <2>2
<1>4. Head(wire[Other(p)]) \in AnyFrame
  BY <1>1 DEF FramesOf
<1>5. QED
  BY <1>2, <1>3, <1>4, CreditOfNat

----------------------------------------------------------------------------
(* Steps that leave the ends of a stream alone. *)

CreditEndsStay(p, s) ==
    /\ up' = up
    /\ wrote'[p][s] = wrote[p][s] /\ outstanding'[p][s] = outstanding[p][s]
    /\ got'[Other(p)][s] = got[Other(p)][s] /\ readBy'[Other(p)][s] = readBy[Other(p)][s]
    /\ owed'[Other(p)][s] = owed[Other(p)][s]
    /\ s \in registered'[p] <=> s \in registered[p]
    /\ Mid(pump'[p][s]) = Mid(pump[p][s])

LEMMA CreditStays ==
    ASSUME NEW p \in Peers, NEW s \in Streams, CreditInv(p, s), CreditEndsStay(p, s),
           Credits(Channel(Other(p), s), s)' = Credits(Channel(Other(p), s), s)
    PROVE  CreditInv(p, s)'
<1>1. /\ s \in registered'[p] <=> s \in registered[p]
      /\ CreditOk(up'[p], up'[Other(p)], wrote'[p][s], got'[Other(p)][s], readBy'[Other(p)][s],
                  owed'[Other(p)][s], outstanding'[p][s], Mid(pump'[p][s]), s \in registered[p],
                  Credits(Channel(Other(p), s), s)')
  BY DEF CreditInv, CreditEndsStay
<1>2. CreditOk(up'[p], up'[Other(p)], wrote'[p][s], got'[Other(p)][s], readBy'[Other(p)][s],
               owed'[Other(p)][s], outstanding'[p][s], Mid(pump'[p][s]), s \in registered'[p],
               Credits(Channel(Other(p), s), s)')
  BY <1>1 DEF CreditOk
<1>3. QED
  BY <1>2 DEF CreditInv, Mid

StartStay(s) ==
    /\ \A p \in Peers : pump'[p][s] # "none" => pump[p][s] # "none"
    /\ acceptor'[s] = acceptor[s] \/ acceptor[s] = "none"
                   \/ (acceptor[s] \in {"event", "taken"} /\ acceptor'[s] # "none")
    /\ s \in pending' => s \in pending

LEMMA StartStays ==
    ASSUME NEW s \in Streams, StartInv(s), StartStay(s),
           Held("server", Of("ack", s))' =>
             Held("server", Of("ack", s)) \/ acceptor[s] \in {"none", "event", "taken"}
    PROVE  StartInv(s)'
BY ThePeers DEF StartInv, StartStay

\* No pump starts or ends counting a chunk.
MidStays == \A p \in Peers, s \in Streams : Mid(pump'[p][s]) = Mid(pump[p][s])

LEMMA PumpStays == ASSUME pump' = pump PROVE MidStays
BY DEF MidStays

LEMMA MidGoes ==
    ASSUME IInv, NEW p \in Peers, NEW s \in Streams, NEW e, Mid(e) = Mid(pump[p][s]),
           pump' = [pump EXCEPT ![p][s] = e]
    PROVE  MidStays
<1>1. pump \in [Peers -> [Streams -> {"none", "running", "counting", "eof", "done"}]]
  BY DEF IInv, EndsTyped
<1>2. /\ pump'[p][s] = e
      /\ \A q \in Peers, t \in Streams : q # p \/ t # s => pump'[q][t] = pump[q][t]
  BY <1>1
<1>3. QED
  BY <1>2 DEF MidStays

LEMMA AllCreditStays ==
    ASSUME IInv, CInv, UNCHANGED <<up, registered, wrote, got, readBy, owed, outstanding>>,
           MidStays,
           \A q \in Peers, s \in Streams : Credits(Channel(q, s), s)' = Credits(Channel(q, s), s),
           \A s \in Streams : StartInv(s)'
    PROVE  CInv'
<1>1. ASSUME NEW p \in Peers, NEW s \in Streams PROVE CreditInv(p, s)'
  <2>1. CreditEndsStay(p, s)
    BY DEF CreditEndsStay, MidStays
  <2>2. CreditInv(p, s)
    BY DEF CInv, Peers
  <2>3. QED
    BY <2>1, <2>2, OtherPeer, CreditStays
<1>2. QED
  BY <1>1, ThePeers DEF CInv

\* What waits for room in frame_tx.
LEMMA HeldAppend ==
    ASSUME NEW S, NEW c \in Seq(S), NEW r, NEW x \in S, NEW X
    PROVE  HeldIn(r, Append(c, x), X) <=> HeldIn(r, c, X) \/ x.frame \in X
<1>1. /\ Append(c, x) \in Seq(S) /\ Len(Append(c, x)) = Len(c) + 1 /\ Append(c, x)[Len(c) + 1] = x
      /\ \A i \in 1..Len(c) : Append(c, x)[i] = c[i]
      /\ Len(c) \in Nat
  BY AppendProperties
<1> DEFINE d == Append(c, x)
<1> HIDE DEF d
<1>2. Len(d) = Len(c) + 1 /\ d[Len(c) + 1] = x /\ \A i \in 1..Len(c) : d[i] = c[i]
  BY <1>1 DEF d
<1>3. (\E i \in 1..Len(d) : d[i].frame \in X)
        <=> (\E i \in 1..Len(c) : c[i].frame \in X) \/ x.frame \in X
  <2>1. ASSUME NEW i \in 1..Len(d), d[i].frame \in X
        PROVE  (\E j \in 1..Len(c) : c[j].frame \in X) \/ x.frame \in X
    <3>1. i \in 1..Len(c) \/ i = Len(c) + 1
      BY <1>1, <1>2
    <3>2. QED
      BY <1>2, <2>1, <3>1
  <2>2. ASSUME NEW i \in 1..Len(c), c[i].frame \in X PROVE \E j \in 1..Len(d) : d[j].frame \in X
    <3>1. i \in 1..Len(d)
      BY <1>1, <1>2
    <3>2. QED
      BY <1>2, <2>2, <3>1
  <2>3. ASSUME x.frame \in X PROVE \E j \in 1..Len(d) : d[j].frame \in X
    <3>1. Len(c) + 1 \in 1..Len(d)
      BY <1>1, <1>2
    <3>2. QED
      BY <1>2, <2>3, <3>1
  <2>4. QED
    BY <2>1, <2>2, <2>3
<1>4. QED
  BY <1>3 DEF HeldIn, d

LEMMA HeadHeld ==
    ASSUME NEW S, NEW c \in Seq(S), c # <<>>, NEW X, HeldIn(Head(c), Tail(c), X)
    PROVE  \A r : HeldIn(r, c, X)
<1>1. /\ Head(c) = c[1] /\ Len(Tail(c)) = Len(c) - 1 /\ Len(c) \in Nat \ {0}
      /\ \A i \in 1..Len(Tail(c)) : Tail(c)[i] = c[i + 1]
  BY HeadTailProperties, EmptySeq
<1>2. CASE Head(c).frame \in X
  <2>1. 1 \in 1..Len(c)
    BY <1>1
  <2>2. QED
    BY <1>1, <1>2, <2>1 DEF HeldIn
<1>3. CASE \E i \in 1..Len(Tail(c)) : Tail(c)[i].frame \in X
  <2>1. PICK i \in 1..Len(Tail(c)) : Tail(c)[i].frame \in X
    BY <1>3
  <2>2. i + 1 \in 1..Len(c) /\ c[i + 1].frame \in X
    BY <1>1, <2>1
  <2>3. QED
    BY <2>2 DEF HeldIn
<1>4. QED
  BY <1>2, <1>3 DEF HeldIn

LEMMA CommandHeld ==
    ASSUME QueueInv, NEW p \in Peers, NEW x \in CommandsOf(p), cmdQ' = [cmdQ EXCEPT ![p] = Append(@, x)],
           run' = run
    PROVE  /\ \A X : Held(p, X)' <=> Held(p, X) \/ x.frame \in X
           /\ \A X : Held(Other(p), X)' <=> Held(Other(p), X)
<1>1. cmdQ[p] \in Seq(CommandsOf(p)) /\ DOMAIN cmdQ = Peers
  BY DEF QueueInv, QueueTypes
<1>2. cmdQ'[p] = Append(cmdQ[p], x) /\ cmdQ'[Other(p)] = cmdQ[Other(p)]
  BY <1>1, OtherPeer
<1>3. \A X : HeldIn(run[p], Append(cmdQ[p], x), X) <=> HeldIn(run[p], cmdQ[p], X) \/ x.frame \in X
  BY <1>1, HeldAppend
<1>4. QED
  BY <1>2, <1>3 DEF Held

LEMMA HeldStays ==
    ASSUME run' = run, cmdQ' = cmdQ
    PROVE  \A p, X : Held(p, X)' <=> Held(p, X)
BY DEF Held

LEMMA NoAcks ==
    ASSUME NEW f, f.type # "ack"
    PROVE  \A s : f \notin Of("ack", s)
BY DEF Of

\* A command that is neither credit nor an ack, while the stream's ends stay.
LEMMA PlainCommand ==
    ASSUME IInv, CInv, NEW p \in Peers, NEW x \in CommandsOf(p), Commanded(p, x),
           x.frame.type \notin {"credit", "ack"},
           UNCHANGED <<registered, wrote, got, readBy, owed, outstanding>>, MidStays,
           \A s \in Streams : StartStay(s)
    PROVE  CInv'
<1>1. QueueInv
  BY DEF IInv
<1>2. \A q \in Peers, s \in Streams : Credits(Channel(q, s), s)' = Credits(Channel(q, s), s)
  BY <1>1, CommandFree
<1>3. ASSUME NEW s \in Streams PROVE StartInv(s)'
  <2>1. Held("server", Of("ack", s))' => Held("server", Of("ack", s))
    <3>1. x.frame \notin Of("ack", s)
      BY NoAcks
    <3>2. /\ \A X : Held(p, X)' <=> Held(p, X) \/ x.frame \in X
          /\ \A X : Held(Other(p), X)' <=> Held(Other(p), X)
      BY <1>1, CommandHeld DEF Commanded
    <3>3. QED
      BY <3>1, <3>2, ThePeers
  <2>2. StartInv(s)
    BY DEF CInv
  <2>3. QED
    BY <2>1, <2>2, StartStays
<1>4. up' = up
  BY DEF Commanded
<1>5. QED
  BY <1>2, <1>3, <1>4, AllCreditStays

\* Steps within the queues, and of ends that credit is not about.
LEMMA QuietStep ==
    ASSUME IInv, CInv,
           UNCHANGED <<up, registered, wrote, got, readBy, owed, outstanding>>, MidStays,
           \A q \in Peers, s \in Streams : Channel(q, s)' = Channel(q, s),
           \A X : Held("server", X)' => Held("server", X),
           \A s \in Streams : StartStay(s)
    PROVE  CInv'
<1>1. \A q \in Peers, s \in Streams : Credits(Channel(q, s), s)' = Credits(Channel(q, s), s)
  BY CreditsSame
<1>2. ASSUME NEW s \in Streams PROVE StartInv(s)'
  BY StartStays DEF CInv
<1>3. QED
  BY <1>1, <1>2, AllCreditStays

LEMMA TakeCmdCredit ==
    ASSUME IInv, CInv, NEW p \in Peers, TakeCmd(p)
    PROVE  CInv'
<1>1. /\ UNCHANGED <<up, registered, wrote, got, readBy, owed, outstanding, pump, acceptor, pending>>
      /\ run' = [run EXCEPT ![p] = Head(cmdQ[p])] /\ cmdQ' = [cmdQ EXCEPT ![p] = Tail(@)]
      /\ cmdQ[p] # <<>>
  BY DEF TakeCmd, openVars, pumpVars, readVars
<1>2. \A q \in Peers, s \in Streams : Channel(q, s)' = Channel(q, s)
  BY TakeCmdQueues DEF IInv
<1>3. ASSUME NEW X, Held("server", X)' PROVE Held("server", X)
  <2>1. cmdQ[p] \in Seq(CommandsOf(p)) /\ DOMAIN cmdQ = Peers /\ DOMAIN run = Peers
    BY DEF IInv, QueueInv, QueueTypes
  <2>2. CASE p = "server"
    <3>1. HeldIn(Head(cmdQ[p]), Tail(cmdQ[p]), X)
      BY <1>1, <1>3, <2>1, <2>2 DEF Held
    <3>2. QED
      BY <1>1, <2>1, <2>2, <3>1, HeadHeld DEF Held
  <2>3. CASE p # "server"
    BY <1>1, <1>3, <2>3 DEF Held
  <2>4. QED
    BY <2>2, <2>3
<1>4. \A s \in Streams : StartStay(s)
  BY <1>1 DEF StartStay
<1>5. QED
  BY <1>1, <1>2, <1>3, <1>4, PumpStays, QuietStep

LEMMA WriteCredit ==
    ASSUME IInv, CInv, NEW p \in Peers, Write(p)
    PROVE  CInv'
<1>1. /\ UNCHANGED <<up, registered, wrote, got, readBy, owed, outstanding, pump, acceptor, pending>>
      /\ UNCHANGED <<run, cmdQ>>
  BY DEF Write, openVars, pumpVars, readVars
<1>2. \A q \in Peers, s \in Streams : Channel(q, s)' = Channel(q, s)
  BY WriteQueues DEF IInv
<1>3. \A s \in Streams : StartStay(s)
  BY <1>1 DEF StartStay
<1>4. QED
  BY <1>1, <1>2, <1>3, HeldStays, PumpStays, QuietStep

LEMMA CallCredit ==
    ASSUME IInv, CInv, NEW s \in Streams,
           OpenFails(s) \/ AuthenticateFails(s)
    PROVE  CInv'
<1>1. /\ UNCHANGED <<up, registered, wrote, got, readBy, owed, outstanding, pump, acceptor, pending>>
      /\ UNCHANGED <<run, cmdQ, frameQ, wire, outQ>>
  BY DEF OpenFails, AuthenticateFails, vars, queueVars, pumpVars, readVars
<1>2. \A q \in Peers, t \in Streams : Channel(q, t)' = Channel(q, t)
  BY <1>1, QueuesStay DEF IInv
<1>3. \A t \in Streams : StartStay(t)
  BY <1>1 DEF StartStay
<1>4. QED
  BY <1>1, <1>2, <1>3, HeldStays, PumpStays, QuietStep

LEMMA PumpEndsCredit ==
    ASSUME IInv, CInv, NEW p \in Peers, NEW s \in Streams, PumpEof(p, s) \/ PumpStops(p, s)
    PROVE  CInv'
<1>0. MidStays
  <2>1. PICK e \in {"eof", "done"} : pump' = [pump EXCEPT ![p][s] = e]
    BY DEF PumpEof, PumpStops
  <2>2. pump[p][s] \in {"running", "eof"}
    BY DEF PumpEof, PumpStops
  <2>3. Mid(e) = Mid(pump[p][s])
    BY <2>2 DEF Mid
  <2>4. QED
    BY <2>1, <2>3, MidGoes
<1>1. /\ UNCHANGED <<up, registered, wrote, got, readBy, owed, outstanding, acceptor, pending>>
      /\ UNCHANGED <<run, cmdQ, frameQ, wire>>
      /\ pump[p][s] # "none" /\ \E e : pump' = [pump EXCEPT ![p][s] = e]
  BY DEF PumpEof, PumpStops, queueVars, openVars, readVars
<1>2. \A q \in Peers, t \in Streams : Channel(q, t)' = Channel(q, t)
  <2>1. CASE PumpEof(p, s)
    <3>1. outQ' = outQ
      BY <2>1 DEF PumpEof
    <3>2. QED
      BY <1>1, <3>1, QueuesStay DEF IInv
  <2>2. CASE PumpStops(p, s)
    BY <2>2, PumpStopsQueues DEF IInv
  <2>3. QED
    BY <2>1, <2>2
<1>3. \A t \in Streams : StartStay(t)
  <2>1. pump \in [Peers -> [Streams -> {"none", "running", "counting", "eof", "done"}]]
    BY DEF IInv, EndsTyped
  <2>2. QED
    BY <1>1, <2>1 DEF StartStay
<1>4. QED
  BY <1>0, <1>1, <1>2, <1>3, HeldStays, QuietStep

LEMMA PumpCloseCredit ==
    ASSUME IInv, CInv, NEW p \in Peers, NEW s \in Streams, PumpClose(p, s)
    PROVE  CInv'
<1> DEFINE x == Sending(Frame("close", s, 0), "none")
<1>1. /\ UNCHANGED <<registered, wrote, got, readBy, owed, outstanding, acceptor, pending>>
      /\ Commanded(p, x)
      /\ pump[p][s] = "eof" /\ pump' = [pump EXCEPT ![p][s] = "done"]
  BY DEF PumpClose, Command, Commanded, openVars, readVars
<1>2. x \in CommandsOf(p) /\ x.frame = Frame("close", s, 0)
  BY Commands
<1>3. x.frame.type \notin {"credit", "ack"}
  BY <1>2 DEF Frame
<1> HIDE DEF x
<1>4. \A t \in Streams : StartStay(t)
  <2>1. pump \in [Peers -> [Streams -> {"none", "running", "counting", "eof", "done"}]]
    BY DEF IInv, EndsTyped
  <2>2. QED
    BY <1>1, <2>1 DEF StartStay
<1>5. MidStays
  <2>1. Mid("done") = Mid(pump[p][s])
    BY <1>1 DEF Mid
  <2>2. QED
    BY <1>1, <2>1, MidGoes
<1>6. QED
  BY <1>1, <1>2, <1>3, <1>4, <1>5, PlainCommand

LEMMA AuthenticateCredit ==
    ASSUME IInv, CInv, NEW s \in Streams, NEW credential \in {"good", "bad"},
           Authenticate(s, credential)
    PROVE  CInv'
<1> DEFINE status == IF credential = "good" THEN STATUS_OK ELSE STATUS_ERR
           x == Sending(Frame("authRequest", s, status), "none")
<1>1. /\ UNCHANGED <<registered, wrote, got, readBy, owed, outstanding, acceptor, pending, pump>>
      /\ Commanded("client", x)
  BY DEF Authenticate, Command, Commanded, openVars, readVars, pumpVars
<1>2. status \in Nat
  BY DEF STATUS_OK, STATUS_ERR
<1>3. x \in CommandsOf("client") /\ x.frame = Frame("authRequest", s, status)
  BY <1>2, ThePeers, Commands
<1>4. x.frame.type \notin {"credit", "ack"}
  BY <1>3 DEF Frame
<1> HIDE DEF x, status
<1>5. \A t \in Streams : StartStay(t)
  BY <1>1 DEF StartStay
<1>6. QED
  BY <1>1, <1>3, <1>4, <1>5, ThePeers, PumpStays, PlainCommand

LEMMA OpenSessionCredit ==
    ASSUME IInv, CInv, NEW s \in Streams, OpenSession(s)
    PROVE  CInv'
<1> DEFINE x == Sending(Frame("open", s, 0), "pend")
<1>1. /\ UNCHANGED <<registered, wrote, got, readBy, owed, outstanding, acceptor, pending, pump>>
      /\ Commanded("client", x)
  BY DEF OpenSession, OpenStream, Command, Commanded, readVars, pumpVars
<1>2. x \in CommandsOf("client") /\ x.frame = Frame("open", s, 0)
  BY ThePeers, Commands
<1>3. x.frame.type \notin {"credit", "ack"}
  BY <1>2 DEF Frame
<1> HIDE DEF x
<1>4. \A t \in Streams : StartStay(t)
  BY <1>1 DEF StartStay
<1>5. QED
  BY <1>1, <1>2, <1>3, <1>4, ThePeers, PumpStays, PlainCommand

LEMMA ReplyOpenCredit ==
    ASSUME IInv, CInv, NEW s \in Streams, ReplyOpen(s)
    PROVE  CInv'
<1>1. PICK a \in {"accepted", "refused"}, n \in {STATUS_OK, STATUS_ERR},
           next \in {"register", "none"} :
        /\ acceptor' = [acceptor EXCEPT ![s] = a]
        /\ cmdQ' = [cmdQ EXCEPT !["server"] = Append(@, Sending(Frame("ack", s, n), next))]
        /\ Sending(Frame("ack", s, n), next) \in CommandsOf("server")
  BY Commands, ThePeers DEF ReplyOpen, Command
<1> DEFINE x == Sending(Frame("ack", s, n), next)
<1>2. /\ UNCHANGED <<registered, wrote, got, readBy, owed, outstanding, pending, pump>>
      /\ Commanded("server", x)
      /\ acceptor[s] = "taken" /\ run' = run
  BY <1>1 DEF ReplyOpen, Commanded, readVars, pumpVars
<1>3. x \in CommandsOf("server") /\ x.frame.type = "ack" /\ x.frame.id = s
  BY <1>1 DEF Sending, Frame
<1> HIDE DEF x
<1>4. \A q \in Peers, t \in Streams : Credits(Channel(q, t), t)' = Credits(Channel(q, t), t)
  BY <1>2, <1>3, ThePeers, CommandFree DEF IInv
<1>5. ASSUME NEW t \in Streams PROVE StartInv(t)'
  <2>1. StartInv(t)
    BY DEF CInv
  <2>2. StartStay(t)
    <3>1. acceptor \in [Streams -> {"none", "event", "taken", "accepted", "refused", "barred"}]
      BY DEF IInv, EndsTyped
    <3>2. QED
      BY <1>1, <1>2, <3>1 DEF StartStay
  <2>3. Held("server", Of("ack", t))' => Held("server", Of("ack", t)) \/ t = s
    <3>1. t # s => x.frame \notin Of("ack", t)
      BY <1>3 DEF Of
    <3>2. \A X : Held("server", X)' <=> Held("server", X) \/ x.frame \in X
      BY <1>2, <1>3, ThePeers, CommandHeld DEF IInv, Commanded
    <3>3. QED
      BY <3>1, <3>2
  <2>4. QED
    BY <1>2, <2>1, <2>2, <2>3, StartStays
<1>6. up' = up
  BY <1>2 DEF Commanded
<1>7. QED
  BY <1>2, <1>4, <1>5, <1>6, PumpStays, AllCreditStays

LEMMA ForwardDataCredit ==
    ASSUME IInv, CInv, NEW p \in Peers, NEW s \in Streams, ForwardData(p, s)
    PROVE  CInv'
<1> DEFINE x == Sending(Head(outQ[p][s]), "none")
<1>1. /\ UNCHANGED <<up, registered, wrote, got, readBy, owed, outstanding, pending, pump, acceptor>>
      /\ run' = run /\ cmdQ' = [cmdQ EXCEPT ![p] = Append(@, x)] /\ outQ[p][s] # <<>>
  BY DEF ForwardData, Command, openVars, readVars
<1>2. outQ[p][s] \in Seq(Of("data", s))
  BY DEF IInv, QueueInv
<1>3. Head(outQ[p][s]) \in Of("data", s)
  BY <1>1, <1>2
<1>4. Head(outQ[p][s]).type = "data" /\ Head(outQ[p][s]) \in FramesOf(p)
  BY <1>3 DEF Of, FramesOf
<1>5. x \in CommandsOf(p) /\ x.frame.type = "data"
  BY <1>4 DEF CommandsOf, Sending
<1> HIDE DEF x
<1>6. ASSUME NEW q \in Peers, NEW t \in Streams
      PROVE  Credits(Channel(q, t), t)' = Credits(Channel(q, t), t)
  <2>1. QueueInv /\ QueueInv'
    BY ForwardDataQueues DEF IInv
  <2>2. CASE Channel(q, t)' = Channel(q, t)
    BY <2>2, CreditsSame
  <2>3. CASE \E f \in Of("data", s) : Grown(Channel(q, t), Channel(q, t)', f, Len(Passing(q)))
    <3>1. PICK f \in Of("data", s) : Grown(Channel(q, t), Channel(q, t)', f, Len(Passing(q)))
      BY <2>3
    <3>2. CreditOf(f, t) = 0
      BY OtherKinds DEF Of
    <3>3. Credits(Channel(q, t), t)' = Credits(Channel(q, t), t) + CreditOf(f, t)
      BY <2>1, <3>1, ChannelGains
    <3>4. Credits(Channel(q, t), t) \in Nat
      BY <2>1, ChannelAny
    <3>5. QED
      BY <3>2, <3>3, <3>4
  <2>4. /\ Channel(p, s)' = Channel(p, s)
        /\ \A u \in Streams : Channel(Other(p), u)' = Channel(Other(p), u)
        /\ \E f \in Of("data", s) : \A u \in Streams :
              u # s => Grown(Channel(p, u), Channel(p, u)', f, Len(Passing(p)))
    BY ForwardDataQueues DEF IInv
  <2>5. QED
    BY <2>2, <2>3, <2>4, ThePeers
<1>7. ASSUME NEW t \in Streams PROVE StartInv(t)'
  <2>1. Held("server", Of("ack", t))' => Held("server", Of("ack", t))
    <3>1. x.frame \notin Of("ack", t)
      BY <1>5, NoAcks
    <3>2. /\ \A X : Held(p, X)' <=> Held(p, X) \/ x.frame \in X
          /\ \A X : Held(Other(p), X)' <=> Held(Other(p), X)
      BY <1>1, <1>5, CommandHeld DEF IInv
    <3>3. QED
      BY <3>1, <3>2, ThePeers
  <2>2. StartInv(t) /\ StartStay(t)
    BY <1>1 DEF CInv, StartStay
  <2>3. QED
    BY <2>1, <2>2, StartStays
<1>8. QED
  BY <1>1, <1>6, <1>7, PumpStays, AllCreditStays

----------------------------------------------------------------------------
(* Steps of the pump and of the reader. *)

\* A frame is written, and is to be counted.
LEMMA CreditWritten ==
    ASSUME NEW from, NEW to, NEW w \in Nat, NEW g \in Nat, NEW r, NEW o, NEW out, NEW reg, NEW c,
           CreditOk(from, to, w, g, r, o, out, 0, reg, c)
    PROVE  CreditOk(from, to, w + 1, g, r, o, out, 1, reg, c)
BY DEF CreditOk

\* It is counted.
LEMMA CreditCounted ==
    ASSUME NEW from, NEW to, NEW w \in Nat, NEW g \in Nat, NEW r, NEW o, NEW out, NEW reg, NEW c,
           CreditOk(from, to, w, g, r, o, out, 1, reg, c)
    PROVE  CreditOk(from, to, w, g, r, o, out + 1, 0, reg, c)
BY DEF CreditOk

\* A frame is read: the reader holds it back, or returns the batch.
LEMMA CreditRead ==
    ASSUME NEW from, NEW to, NEW w \in Nat, NEW g \in Nat, NEW r, NEW o, NEW out, NEW m, NEW reg, NEW c,
           CreditOk(from, to, w, g, r, o, out, m, reg, c), r < g
    PROVE  /\ CreditOk(from, to, w, g, r + 1, o + 1, out, m, reg, c)
           /\ CreditOk(from, to, w, g, r + 1, 0, out, m, reg, c + (o + 1))
BY DEF CreditOk

LEMMA PumpDataCredit ==
    ASSUME IInv, CInv, NEW p \in Peers, NEW s \in Streams, PumpData(p, s)
    PROVE  CInv'
<1>1. /\ UNCHANGED <<up, registered, got, readBy, owed, outstanding, acceptor, pending>>
      /\ UNCHANGED <<run, cmdQ>>
      /\ wrote' = [wrote EXCEPT ![p][s] = @ + 1]
      /\ pump[p][s] = "running" /\ pump' = [pump EXCEPT ![p][s] = "counting"]
  BY DEF PumpData, queueVars, openVars, readVars
<1>2. /\ wrote \in [Peers -> [Streams -> Nat]] /\ outstanding \in [Peers -> [Streams -> Nat]]
      /\ pump \in [Peers -> [Streams -> {"none", "running", "counting", "eof", "done"}]]
  BY DEF IInv, EndsTyped, CInv
<1>3. /\ wrote'[p][s] = wrote[p][s] + 1 /\ wrote[p][s] \in Nat
      /\ pump'[p][s] = "counting" /\ Mid(pump[p][s]) = 0 /\ Mid(pump'[p][s]) = 1
      /\ \A q \in Peers, t \in Streams :
           q # p \/ t # s => wrote'[q][t] = wrote[q][t] /\ pump'[q][t] = pump[q][t]
  BY <1>1, <1>2 DEF Mid
<1>4. ASSUME NEW q \in Peers, NEW t \in Streams
      PROVE  Credits(Channel(q, t), t)' = Credits(Channel(q, t), t)
  <2>1. QueueInv /\ QueueInv'
    BY <1>3, PumpDataQueues DEF IInv
  <2>2. CASE Channel(q, t)' = Channel(q, t)
    BY <2>2, CreditsSame
  <2>3. CASE q = p /\ t = s /\ up[p]
    <3> DEFINE f == Frame("data", s, wrote[p][s] + 1)
    <3>1. Grown(Channel(q, t), Channel(q, t)', f, Len(Channel(q, t)))
      BY <1>3, <2>3, PumpDataQueues DEF IInv
    <3>2. f.type = "data"
      BY DEF Frame
    <3> HIDE DEF f
    <3>3. CreditOf(f, t) = 0
      BY <3>2, OtherKinds
    <3>4. Credits(Channel(q, t), t)' = Credits(Channel(q, t), t) + CreditOf(f, t)
      BY <2>1, <3>1, ChannelGains
    <3>5. Credits(Channel(q, t), t) \in Nat
      BY <2>1, ChannelAny
    <3>6. QED
      BY <3>3, <3>4, <3>5
  <2>4. QED
    BY <1>3, <2>2, <2>3, PumpDataQueues DEF IInv
<1>5. ASSUME NEW q \in Peers, NEW t \in Streams PROVE CreditInv(q, t)'
  <2>1. CreditInv(q, t)
    BY ThePeers DEF CInv, Peers
  <2>2. Credits(Channel(Other(q), t), t)' = Credits(Channel(Other(q), t), t)
    BY <1>4, OtherPeer
  <2>3. CASE q # p \/ t # s
    <3>1. CreditEndsStay(q, t)
      BY <1>1, <1>3, <2>3 DEF CreditEndsStay
    <3>2. QED
      BY <2>1, <2>2, <3>1, CreditStays
  <2>4. CASE q = p /\ t = s
    <3>1. DataInv(p, s)
      BY ThePeers DEF IInv, StreamInv, Peers
    <3>2. got[Other(p)][s] \in Nat
      BY <3>1 DEF DataInv, DataOk
    <3>3. CreditOk(up[p], up[Other(p)], wrote[p][s] + 1, got[Other(p)][s], readBy[Other(p)][s],
                   owed[Other(p)][s], outstanding[p][s], 1, s \in registered[p],
                   Credits(Channel(Other(p), s), s))
      BY <1>3, <2>1, <2>4, <3>2, CreditWritten DEF CreditInv
    <3>4. QED
      BY <1>1, <1>3, <2>2, <2>4, <3>3 DEF CreditInv
  <2>5. QED
    BY <2>3, <2>4
<1>6. ASSUME NEW t \in Streams PROVE StartInv(t)'
  <2>1. StartInv(t) /\ StartStay(t)
    BY <1>1, <1>3 DEF CInv, StartStay
  <2>2. QED
    BY <1>1, <2>1, HeldStays, StartStays
<1>7. readBy' \in [Peers -> [Streams -> Nat]] /\ outstanding' \in [Peers -> [Streams -> Nat]]
  BY <1>1 DEF CInv
<1>8. QED
  BY <1>5, <1>6, <1>7, ThePeers DEF CInv

LEMMA PumpCountCredit ==
    ASSUME IInv, CInv, NEW p \in Peers, NEW s \in Streams, PumpCount(p, s)
    PROVE  CInv'
<1>1. /\ UNCHANGED <<up, registered, got, wrote, readBy, owed, acceptor, pending>>
      /\ UNCHANGED <<run, cmdQ, frameQ, wire, outQ>>
      /\ outstanding' = [outstanding EXCEPT ![p][s] = @ + 1]
      /\ pump[p][s] = "counting" /\ pump' = [pump EXCEPT ![p][s] = "running"]
  BY DEF PumpCount, queueVars, openVars, readVars
<1>2. /\ outstanding \in [Peers -> [Streams -> Nat]]
      /\ pump \in [Peers -> [Streams -> {"none", "running", "counting", "eof", "done"}]]
  BY DEF IInv, EndsTyped, CInv
<1>3. /\ pump'[p][s] = "running" /\ Mid(pump[p][s]) = 1 /\ Mid(pump'[p][s]) = 0
      /\ \A q \in Peers, t \in Streams : q # p \/ t # s => pump'[q][t] = pump[q][t]
  BY <1>1, <1>2 DEF Mid
<1>4. /\ outstanding'[p][s] = outstanding[p][s] + 1 /\ outstanding[p][s] \in Nat
      /\ \A q \in Peers, t \in Streams : q # p \/ t # s => outstanding'[q][t] = outstanding[q][t]
      /\ outstanding' \in [Peers -> [Streams -> Nat]]
  <2>1. outstanding[p][s] + 1 \in Nat
    BY <1>2
  <2>2. QED
    BY <1>1, <1>2, <2>1
<1>5. \A q \in Peers, t \in Streams : Credits(Channel(q, t), t)' = Credits(Channel(q, t), t)
  BY <1>1, QueuesStay, CreditsSame DEF IInv
<1>6. ASSUME NEW q \in Peers, NEW t \in Streams PROVE CreditInv(q, t)'
  <2>1. CreditInv(q, t)
    BY ThePeers DEF CInv, Peers
  <2>2. Credits(Channel(Other(q), t), t)' = Credits(Channel(Other(q), t), t)
    BY <1>5, OtherPeer
  <2>3. CASE q # p \/ t # s
    <3>1. CreditEndsStay(q, t)
      BY <1>1, <1>3, <1>4, <2>3 DEF CreditEndsStay
    <3>2. QED
      BY <2>1, <2>2, <3>1, CreditStays
  <2>4. CASE q = p /\ t = s
    <3>1. DataInv(p, s)
      BY ThePeers DEF IInv, StreamInv, Peers
    <3>2. got[Other(p)][s] \in Nat /\ wrote[p][s] \in Nat
      BY <3>1 DEF DataInv, DataOk
    <3>3. CreditOk(up[p], up[Other(p)], wrote[p][s], got[Other(p)][s], readBy[Other(p)][s],
                   owed[Other(p)][s], outstanding[p][s] + 1, 0, s \in registered[p],
                   Credits(Channel(Other(p), s), s))
      BY <1>3, <2>1, <2>4, <3>2, CreditCounted DEF CreditInv
    <3>4. QED
      BY <1>1, <1>3, <1>4, <2>2, <2>4, <3>3 DEF CreditInv
  <2>5. QED
    BY <2>3, <2>4
<1>7. ASSUME NEW t \in Streams PROVE StartInv(t)'
  <2>1. StartInv(t) /\ StartStay(t)
    BY <1>1, <1>3 DEF CInv, StartStay
  <2>2. QED
    BY <1>1, <2>1, HeldStays, StartStays
<1>8. readBy' \in [Peers -> [Streams -> Nat]]
  BY <1>1 DEF CInv
<1>9. QED
  BY <1>4, <1>6, <1>7, <1>8, ThePeers DEF CInv

\* Datagrams and events are no credit, and no stream's.
LEMMA SendDatagramCredit ==
    ASSUME IInv, CInv, NEW p \in Peers, NEW s \in Streams, SendDatagram(p, s)
    PROVE  CInv'
<1> DEFINE x == Sending(Frame("datagram", s, 0), "none")
<1>1. /\ UNCHANGED <<registered, wrote, got, readBy, owed, outstanding, acceptor, pending, pump>>
      /\ Commanded(p, x)
  BY DEF SendDatagram, Command, Commanded, openVars, pumpVars, readVars
<1>2. x \in CommandsOf(p) /\ x.frame = Frame("datagram", s, 0)
  BY Commands
<1>3. x.frame.type \notin {"credit", "ack"}
  BY <1>2 DEF Frame
<1> HIDE DEF x
<1>4. \A t \in Streams : StartStay(t)
  BY <1>1 DEF StartStay
<1>5. QED
  BY <1>1, <1>2, <1>3, <1>4, PumpStays, PlainCommand

LEMMA TakeDatagramCredit ==
    ASSUME IInv, CInv, NEW p \in Peers, TakeDatagram(p)
    PROVE  CInv'
<1>1. /\ UNCHANGED <<up, registered, wrote, got, readBy, owed, outstanding, pump, acceptor, pending>>
      /\ UNCHANGED <<run, cmdQ, frameQ, wire, outQ>>
  BY DEF TakeDatagram, queueVars, openVars, pumpVars, readVars
<1>2. \A q \in Peers, t \in Streams : Channel(q, t)' = Channel(q, t)
  BY <1>1, QueuesStay DEF IInv
<1>3. \A t \in Streams : StartStay(t)
  BY <1>1 DEF StartStay
<1>4. QED
  BY <1>1, <1>2, <1>3, HeldStays, PumpStays, QuietStep

LEMMA TakeEventCredit ==
    ASSUME IInv, CInv, NEW s \in Streams, TakeEvent(s)
    PROVE  CInv'
<1>1. /\ UNCHANGED <<up, registered, wrote, got, readBy, owed, outstanding, pump, pending>>
      /\ UNCHANGED <<run, cmdQ, frameQ, wire, outQ>>
      /\ acceptor[s] = "event" /\ acceptor' = [acceptor EXCEPT ![s] = "taken"]
  BY DEF TakeEvent, queueVars, pumpVars, readVars
<1>2. \A q \in Peers, t \in Streams : Channel(q, t)' = Channel(q, t)
  BY <1>1, QueuesStay DEF IInv
<1>3. \A t \in Streams : StartStay(t)
  <2>1. acceptor \in [Streams -> {"none", "event", "taken", "accepted", "refused", "barred"}]
    BY DEF IInv, EndsTyped
  <2>2. QED
    BY <1>1, <2>1 DEF StartStay
<1>4. ASSUME NEW t \in Streams PROVE StartInv(t)'
  BY <1>1, <1>3, HeldStays, StartStays DEF CInv
<1>5. QED
  BY <1>1, <1>2, <1>4, CreditsSame, PumpStays, AllCreditStays

LEMMA AppReadCredit ==
    ASSUME IInv, CInv, NEW p \in Peers, NEW s \in Streams, AppRead(p, s)
    PROVE  CInv'
<1> DEFINE q == Other(p)
           n == owed[p][s] + 1
           x == Sending(Frame("credit", s, n), "none")
<1>1. /\ UNCHANGED <<up, registered, got, wrote, outstanding, acceptor, pending, pump>>
      /\ UNCHANGED <<run, frameQ, wire, outQ>>
      /\ readBy' = [readBy EXCEPT ![p][s] = @ + 1]
      /\ readBy[p][s] < got[p][s]
      /\ \/ cmdQ' = [cmdQ EXCEPT ![p] = Append(@, x)] /\ owed' = [owed EXCEPT ![p][s] = 0]
         \/ cmdQ' = cmdQ /\ owed' = [owed EXCEPT ![p][s] = n]
  BY DEF AppRead, Command, openVars, pumpVars
<1>2. /\ q \in Peers /\ Other(q) = p /\ q # p
      /\ owed \in [Peers -> [Streams -> Nat]] /\ readBy \in [Peers -> [Streams -> Nat]]
  BY OtherPeer DEF IInv, EndsTyped, CInv
<1> HIDE DEF q
<1>3. n \in Nat /\ n = owed[p][s] + 1 /\ owed[p][s] \in Nat /\ readBy[p][s] \in Nat
  BY <1>2
<1>4. x \in CommandsOf(p) /\ x.frame = Frame("credit", s, n)
  BY <1>3, Commands
<1>5. x.frame.type = "credit" /\ x.frame.id = s /\ x.frame.n = n
  BY <1>4 DEF Frame
<1> HIDE DEF x, n
<1>6. /\ readBy'[p][s] = readBy[p][s] + 1
      /\ readBy' \in [Peers -> [Streams -> Nat]]
      /\ \A o \in Peers, t \in Streams :
           o # p \/ t # s => readBy'[o][t] = readBy[o][t] /\ owed'[o][t] = owed[o][t]
  <2>1. readBy[p][s] + 1 \in Nat
    BY <1>3
  <2>2. QED
    BY <1>1, <1>2, <2>1
<1>7. \/ Commanded(p, x) /\ owed'[p][s] = 0
      \/ (\A o \in Peers, t \in Streams : Channel(o, t)' = Channel(o, t))
           /\ owed'[p][s] = n /\ cmdQ' = cmdQ
  <2>1. CASE cmdQ' = cmdQ
    <3>1. \A o \in Peers, t \in Streams : Channel(o, t)' = Channel(o, t)
      BY <1>1, <2>1, QueuesStay DEF IInv
    <3>2. owed'[p][s] = n \/ (Commanded(p, x) /\ owed'[p][s] = 0)
      BY <1>1, <1>2 DEF Commanded
    <3>3. QED
      BY <2>1, <3>1, <3>2
  <2>2. CASE cmdQ' # cmdQ
    BY <1>1, <1>2, <2>2 DEF Commanded
  <2>3. QED
    BY <2>1, <2>2
<1>8. ASSUME NEW o \in Peers, NEW t \in Streams, o # p \/ t # s
      PROVE  Credits(Channel(o, t), t)' = Credits(Channel(o, t), t)
  <2>1. CASE Commanded(p, x)
    <3>1. /\ Credits(Channel(p, t), t)' = Credits(Channel(p, t), t) + CreditOf(x.frame, t)
          /\ Credits(Channel(Other(p), t), t)' = Credits(Channel(Other(p), t), t)
          /\ Credits(Channel(p, t), t) \in Nat
      BY <1>4, <2>1, CommandCredits, ChannelAny DEF IInv
    <3>2. t # s => CreditOf(x.frame, t) = 0
      BY <1>5, OtherKinds
    <3>3. QED
      BY <1>8, <3>1, <3>2, ThePeers
  <2>2. CASE Channel(o, t)' = Channel(o, t)
    BY <2>2, CreditsSame
  <2>3. QED
    BY <1>7, <2>1, <2>2
<1>9. ASSUME NEW o \in Peers, NEW t \in Streams PROVE CreditInv(o, t)'
  <2>1. CreditInv(o, t)
    BY ThePeers DEF CInv, Peers
  <2>2. CASE Other(o) # p \/ t # s
    <3>1. CreditEndsStay(o, t)
      BY <1>1, <1>6, <2>2, OtherPeer DEF CreditEndsStay
    <3>2. QED
      BY <1>8, <2>1, <2>2, <3>1, OtherPeer, CreditStays
  <2>3. CASE Other(o) = p /\ t = s
    <3>1. /\ DataInv(o, s) /\ got[p][s] \in Nat /\ wrote[o][s] \in Nat
      BY ThePeers DEF IInv, StreamInv, Peers, EndsTyped
    <3> DEFINE c == Credits(Channel(p, s), s)
    <3>2. /\ CreditOk(up[o], up[p], wrote[o][s], got[p][s], readBy[p][s] + 1, n,
                      outstanding[o][s], Mid(pump[o][s]), s \in registered[o], c)
          /\ CreditOk(up[o], up[p], wrote[o][s], got[p][s], readBy[p][s] + 1, 0,
                      outstanding[o][s], Mid(pump[o][s]), s \in registered[o], c + n)
      <4>1. CreditOk(up[o], up[p], wrote[o][s], got[p][s], readBy[p][s], owed[p][s],
                     outstanding[o][s], Mid(pump[o][s]), s \in registered[o], c)
        BY <2>1, <2>3 DEF CreditInv
      <4> HIDE DEF c
      <4>2. QED
        BY <1>1, <1>3, <3>1, <4>1, CreditRead
    <3>3. CASE Commanded(p, x) /\ owed'[p][s] = 0
      <4>1. Credits(Channel(p, s), s)' = Credits(Channel(p, s), s) + CreditOf(x.frame, s)
        BY <1>4, <3>3, CommandCredits DEF IInv
      <4>2. CreditOf(x.frame, s) = n
        BY <1>5 DEF CreditOf
      <4>3. QED
        BY <1>1, <1>6, <2>3, <3>2, <3>3, <4>1, <4>2 DEF CreditInv
    <3>4. CASE Channel(p, s)' = Channel(p, s) /\ owed'[p][s] = n
      <4>1. Credits(Channel(p, s), s)' = Credits(Channel(p, s), s)
        BY <3>4, CreditsSame
      <4>2. QED
        BY <1>1, <1>6, <2>3, <3>2, <3>4, <4>1 DEF CreditInv
    <3>5. QED
      BY <1>7, <3>3, <3>4
  <2>4. QED
    BY <2>2, <2>3
<1>10. ASSUME NEW t \in Streams PROVE StartInv(t)'
  <2>1. Held("server", Of("ack", t))' => Held("server", Of("ack", t))
    <3>1. CASE Commanded(p, x)
      <4>1. x.frame \notin Of("ack", t)
        BY <1>5, NoAcks
      <4>2. /\ \A X : Held(p, X)' <=> Held(p, X) \/ x.frame \in X
            /\ \A X : Held(Other(p), X)' <=> Held(Other(p), X)
        BY <1>1, <1>4, <3>1, CommandHeld DEF IInv, Commanded
      <4>3. QED
        BY <4>1, <4>2, ThePeers
    <3>2. CASE cmdQ' = cmdQ
      BY <1>1, <3>2, HeldStays
    <3>3. QED
      BY <1>7, <3>1, <3>2
  <2>2. StartInv(t) /\ StartStay(t)
    BY <1>1 DEF CInv, StartStay
  <2>3. QED
    BY <2>1, <2>2, StartStays
<1>11. outstanding' \in [Peers -> [Streams -> Nat]]
  BY <1>1 DEF CInv
<1>12. QED
  BY <1>6, <1>9, <1>10, <1>11, ThePeers DEF CInv
----------------------------------------------------------------------------
(* The run task puts its frame in frame_tx, and registers an accepted stream. *)

\* A sender that has sent nothing starts with an open window.
LEMMA CreditFresh ==
    ASSUME NEW to, NEW g \in Nat, NEW r, NEW o, NEW out, NEW reg, NEW c,
           CreditOk(TRUE, to, 0, g, r, o, out, 0, reg, c), g <= 0
    PROVE  CreditOk(TRUE, to, 0, g, r, o, 0, 0, TRUE, c)
BY DEF CreditOk

LEMMA RegisterCredit ==
    ASSUME NEW p \in Peers, NEW s \in Streams, CreditInv(p, s), DataInv(p, s), up[p] = TRUE,
           pump[p][s] = "none", pump'[p][s] = "running",
           UNCHANGED <<up, wrote, got, readBy, owed>>,
           outstanding'[p][s] = 0, s \in registered'[p],
           Credits(Channel(Other(p), s), s)' = Credits(Channel(Other(p), s), s)
    PROVE  CreditInv(p, s)'
<1> DEFINE g == got[Other(p)][s]
           r == readBy[Other(p)][s]
           o == owed[Other(p)][s]
           c == Credits(Channel(Other(p), s), s)
<1>1. wrote[p][s] = 0 /\ g \in Nat /\ g <= 0
  BY DEF DataInv, DataOk
<1>2. CreditOk(TRUE, up[Other(p)], 0, g, r, o, outstanding[p][s], 0, s \in registered[p], c)
  BY <1>1 DEF CreditInv, Mid
<1> HIDE DEF g, r, o, c
<1>3. CreditOk(TRUE, up[Other(p)], 0, g, r, o, 0, 0, TRUE, c)
  BY <1>1, <1>2, CreditFresh
<1>4. (s \in registered'[p]) = TRUE
  OBVIOUS
<1>5. QED
  BY <1>1, <1>3, <1>4 DEF CreditInv, Mid, g, r, o, c

\* The frames in hand and in the command queue are different frames.
LEMMA OnceConcat ==
    ASSUME NEW S, NEW a \in Seq(S), NEW b \in Seq(S), NEW X, Once(a \o b, X)
    PROVE  Once(a, X) /\ (Has(a, X) => ~Has(b, X))
<1>1. /\ Len(a \o b) = Len(a) + Len(b)
      /\ \A i \in 1..Len(a) + Len(b) : (a \o b)[i] = IF i <= Len(a) THEN a[i] ELSE b[i - Len(a)]
      /\ Len(a) \in Nat /\ Len(b) \in Nat
  BY ConcatProperties
<1>2. \A i \in 1..Len(a) : i \in 1..Len(a \o b) /\ (a \o b)[i] = a[i]
  BY <1>1
<1>3. ASSUME NEW j \in 1..Len(b)
      PROVE  Len(a) + j \in 1..Len(a \o b) /\ (a \o b)[Len(a) + j] = b[j]
  <2>1. Len(a) + j \in 1..Len(a) + Len(b) /\ ~(Len(a) + j <= Len(a)) /\ (Len(a) + j) - Len(a) = j
    BY <1>1
  <2>2. QED
    BY <1>1, <2>1
<1>4. Once(a, X)
  BY <1>2 DEF Once
<1>5. ASSUME NEW i \in 1..Len(a), NEW j \in 1..Len(b), a[i] \in X, b[j] \in X PROVE FALSE
  <2>1. i = Len(a) + j
    BY <1>2, <1>3, <1>5 DEF Once
  <2>2. QED
    BY <1>1, <2>1
<1>6. QED
  BY <1>4, <1>5 DEF Has

LEMMA InHandOnce ==
    ASSUME QueueInv, NEW p \in Peers, NEW s \in Streams, NEW X, run[p] # Idle, run[p].frame \in X,
           Once(Channel(p, s), X)
    PROVE  \A i \in 1..Len(cmdQ[p]) : cmdQ[p][i].frame \notin X
<1> DEFINE S == FramesOf(p)
           a == wire[p] \o frameQ[p]
           c == InHand(run[p])
           d == FramesIn(cmdQ[p])
           e == Behind(p, s)
<1>1. a \in Seq(S) /\ c \in Seq(S) /\ d \in Seq(S) /\ e \in Seq(S)
  BY HandTypes, CommandFrames, ChannelTyped, ConcatProperties DEF QueueInv, QueueTypes
<1>2. Channel(p, s) = ((a \o c) \o d) \o e
  BY DEF Channel, Passing, Queues
<1>3. c = <<run[p].frame>>
  BY DEF InHand
<1>4. Len(d) = Len(cmdQ[p]) /\ \A i \in 1..Len(cmdQ[p]) : d[i] = cmdQ[p][i].frame
  BY CommandFrames DEF QueueInv, QueueTypes
<1> HIDE DEF S, a, c, d, e
<1>5. Len(c) = 1 /\ c[1] = run[p].frame
  BY <1>3
<1>6. Has(c, X)
  BY <1>5 DEF Has
<1> DEFINE v == a \o c
           w == v \o d
<1>7. v \in Seq(S) /\ Has(v, X)
  BY <1>1, <1>6, HasConcat
<1> HIDE DEF v
<1>8. w \in Seq(S)
  BY <1>1, <1>7, HasConcat
<1> HIDE DEF w
<1>9. Once(w, X)
  BY <1>1, <1>2, <1>8, OnceConcat DEF v, w
<1>10. ~Has(d, X)
  BY <1>1, <1>7, <1>9, OnceConcat DEF w
<1>11. QED
  BY <1>4, <1>10 DEF Has

LEMMA SendFrameCredit ==
    ASSUME IInv, CInv, NEW p \in Peers, SendFrame(p)
    PROVE  CInv'
<1> DEFINE c == run[p]
           f == c.frame
<1>0. PICK t \in Streams : t = f.id
  <2>1. c \in CommandsOf(p)
    BY SendFrameQueues DEF IInv
  <2>2. QED
    BY <2>1 DEF CommandsOf, FramesOf, AnyFrame
<1>1. /\ UNCHANGED <<up, acceptor, wrote, got, readBy, owed, cmdQ>>
      /\ run' = [run EXCEPT ![p] = Idle] /\ up[p] = TRUE
      /\ pending' = IF c.then = "pend" THEN pending \cup {t} ELSE pending
      /\ c.then = "register" => /\ registered' = [registered EXCEPT ![p] = @ \cup {t}]
                                /\ pump' = [pump EXCEPT ![p][t] = "running"]
                                /\ outstanding' = [outstanding EXCEPT ![p][t] = 0]
      /\ c.then # "register" => UNCHANGED <<registered, pump, outstanding>>
      /\ c # Idle
  BY <1>0 DEF SendFrame, Register, readVars, IInv, QueueInv
<1>2. /\ QueueInv /\ \A q \in Peers, s \in Streams : Channel(q, s)' = Channel(q, s)
      /\ c \in CommandsOf(p)
  BY SendFrameQueues DEF IInv
<1>3. \A q \in Peers, s \in Streams : Credits(Channel(q, s), s)' = Credits(Channel(q, s), s)
  BY <1>2, CreditsSame
<1>4. /\ f \in AnyFrame /\ f \in FramesOf(p) /\ f.id = t
      /\ c.then = "pend" <=> f.type = "open"
      /\ c.then = "register" <=> f.type = "ack" /\ f.n = STATUS_OK
  BY <1>0, <1>2 DEF CommandsOf, FramesOf, AnyFrame
<1>5. (f.type = "open" => p = "client") /\ (f.type = "ack" => p = "server")
  BY <1>4 DEF FramesOf, Peers
<1>6. /\ \A s \in Streams : \A X : c # Idle /\ f \in X => Has(Channel(p, s), X)
      /\ \A X : f \in X => Held(p, X)
  BY <1>1, <1>2, HandPasses DEF Held, HeldIn
<1>7. \A X : Held("server", X)' => Held("server", X)
  <2>1. DOMAIN run = Peers /\ run'[p] = Idle /\ \A q \in Peers : q # p => run'[q] = run[q]
    BY <1>1, <1>2 DEF QueueInv
  <2>2. QED
    BY <1>1, <2>1, ThePeers DEF Held, HeldIn
<1>8. Once(Channel("server", t), Of("ack", t)) /\ OpenInv(t) /\ StartInv(t)
  BY DEF IInv, StreamInv, OpenInv, OpenOk, CInv
<1>9. c # Idle /\ f \in Of(f.type, t)
  BY <1>1, <1>4, Kinds
<1>10. CASE c.then # "register"
  <2>1. ASSUME NEW s \in Streams PROVE StartInv(s)'
    <3>1. StartStay(s) \/ (c.then = "pend" /\ s = t)
      BY <1>1, <1>10 DEF StartStay
    <3>2. CASE StartStay(s)
      BY <1>7, <3>2, StartStays DEF CInv
    <3>3. CASE c.then = "pend" /\ s = t
      <4>1. p = "client" /\ f \in Of("open", t)
        BY <1>4, <1>5, <1>9, <3>3
      <4>2. acceptor[t] = "none"
        BY <1>1, <1>6, <1>8, <4>1 DEF OpenInv, OpenOk
      <4>3. pump["client"][t] = "none" /\ pump["server"][t] = "none"
        BY <1>8, <4>2 DEF StartInv
      <4>4. QED
        BY <1>1, <1>10, <3>3, <4>3 DEF StartInv
    <3>4. QED
      BY <3>1, <3>2, <3>3
  <2>2. QED
    BY <1>1, <1>3, <1>10, <2>1, PumpStays, AllCreditStays
<1>11. CASE c.then = "register"
  <2>1. p = "server" /\ f \in Of("ack", t)
    BY <1>4, <1>5, <1>9, <1>11
  <2>2. /\ Has(Channel("server", t), Of("ack", t)) /\ Held("server", Of("ack", t))
        /\ pump["server"][t] = "none"
    BY <1>1, <1>6, <1>8, <2>1 DEF StartInv
  <2>3. ~Held("server", Of("ack", t))'
    <3>1. \A i \in 1..Len(cmdQ[p]) : cmdQ[p][i].frame \notin Of("ack", t)
      BY <1>1, <1>2, <1>8, <2>1, InHandOnce
    <3>2. run'[p] = Idle /\ cmdQ'[p] = cmdQ[p]
      BY <1>1, <1>2 DEF QueueInv
    <3>3. QED
      BY <2>1, <3>1, <3>2 DEF Held, HeldIn
  <2>4. acceptor[t] \notin {"none", "event", "taken"}
    BY <1>8, <2>2 DEF OpenInv, OpenOk
  <2>5. /\ registered \in [Peers -> SUBSET Streams]
        /\ pump \in [Peers -> [Streams -> {"none", "running", "counting", "eof", "done"}]]
        /\ outstanding \in [Peers -> [Streams -> Nat]]
    BY DEF IInv, EndsTyped, CInv
  <2>6. /\ \A q \in Peers, s \in Streams : (q = p /\ s = t) \/
              /\ s \in registered'[q] <=> s \in registered[q]
              /\ outstanding'[q][s] = outstanding[q][s]
              /\ pump'[q][s] = pump[q][s]
        /\ t \in registered'[p] /\ outstanding'[p][t] = 0 /\ pump'[p][t] = "running"
        /\ outstanding' \in [Peers -> [Streams -> Nat]]
    <3>1. /\ outstanding' \in [Peers -> [Streams -> Nat]]
          /\ outstanding'[p][t] = 0
          /\ \A q \in Peers, s \in Streams : (q = p /\ s = t) \/ outstanding'[q][s] = outstanding[q][s]
      <4>1. outstanding' = [outstanding EXCEPT ![p][t] = 0] /\ 0 \in Nat
        BY <1>1, <1>11
      <4>2. QED
        BY <2>5, <4>1
    <3>2. /\ pump'[p][t] = "running"
          /\ \A q \in Peers, s \in Streams : (q = p /\ s = t) \/ pump'[q][s] = pump[q][s]
      BY <1>1, <1>11, <2>5
    <3>3. /\ \A q \in Peers, s \in Streams : (q = p /\ s = t) \/
                (s \in registered'[q] <=> s \in registered[q])
          /\ t \in registered'[p]
      BY <1>1, <1>11, <2>5
    <3>4. QED
      BY <3>1, <3>2, <3>3
  <2>7. pending' = pending
    BY <1>1, <1>11
  <2>8. ASSUME NEW q \in Peers, NEW s \in Streams PROVE CreditInv(q, s)'
    <3>1. CreditInv(q, s) /\ DataInv(q, s)
      BY ThePeers DEF IInv, StreamInv, CInv, Peers
    <3>2. Credits(Channel(Other(q), s), s)' = Credits(Channel(Other(q), s), s)
      BY <1>3, OtherPeer
    <3>3. CASE q = p /\ s = t
      BY <1>1, <2>1, <2>2, <2>6, <3>1, <3>2, <3>3, RegisterCredit
    <3>4. CASE ~(q = p /\ s = t)
      <4>1. CreditEndsStay(q, s)
        BY <1>1, <2>6, <3>4 DEF CreditEndsStay
      <4>2. QED
        BY <3>1, <3>2, <4>1, CreditStays
    <3>5. QED
      BY <3>3, <3>4
  <2>9. ASSUME NEW s \in Streams PROVE StartInv(s)'
    <3>1. StartInv(s)
      BY DEF CInv
    <3>2. CASE s = t
      <4>1. pump'["client"][t] = pump["client"][t]
        BY <2>1, <2>6, ThePeers
      <4>2. QED
        BY <1>1, <2>3, <2>4, <2>7, <3>1, <3>2, <4>1 DEF StartInv
    <3>3. CASE s # t
      <4>1. StartStay(s)
        BY <1>1, <2>6, <2>7, <3>3 DEF StartStay
      <4>2. QED
        BY <1>7, <3>1, <4>1, StartStays
    <3>4. QED
      BY <3>2, <3>3
  <2>10. readBy' \in [Peers -> [Streams -> Nat]]
    BY <1>1 DEF CInv
  <2>11. QED
    BY <2>6, <2>8, <2>9, <2>10, ThePeers DEF CInv
<1>12. QED
  BY <1>10, <1>11
----------------------------------------------------------------------------
(* handle_frame. *)

LEMMA TakenOffFree ==
    ASSUME QueueInv, NEW p \in Peers, NEW r \in CommandsOf(p) \cup {Idle}, TakenOff(p, r),
           r = Idle \/ r.frame.type # "credit", Head(wire[Other(p)]).type # "credit"
    PROVE  \A q \in Peers, s \in Streams : Credits(Channel(q, s), s)' = Credits(Channel(q, s), s)
<1> SUFFICES ASSUME NEW q \in Peers, NEW s \in Streams
             PROVE  Credits(Channel(q, s), s)' = Credits(Channel(q, s), s)
  OBVIOUS
<1>1. /\ Credits(Channel(p, s), s)' = Credits(Channel(p, s), s)
      /\ Credits(Channel(Other(p), s), s)
           = CreditOf(Head(wire[Other(p)]), s) + Credits(Channel(Other(p), s), s)'
  BY TakenOffCredits
<1>2. CreditOf(Head(wire[Other(p)]), s) = 0
  BY OtherKinds
<1>3. QueueInv'
  BY TakenQueues
<1>4. Credits(Channel(Other(p), s)', s) \in Nat
  BY <1>3, OtherPeer, ChannelAnyNext
<1>5. Credits(Channel(Other(p), s), s)' = Credits(Channel(Other(p), s), s)
  BY <1>1, <1>2, <1>4
<1>6. QED
  BY <1>1, <1>5, ThePeers

\* Nothing joins the commands.
LEMMA HeldTaken ==
    ASSUME QueueInv, NEW p \in Peers, TakenOff(p, Idle)
    PROVE  \A q \in Peers : \A X : Held(q, X)' <=> Held(q, X)
<1>1. \A q \in Peers : run'[q] = run[q] /\ cmdQ' = cmdQ
  BY DEF TakenOff
<1>2. QED
  BY <1>1 DEF Held

\* A step that takes a frame of another kind, while the ends of the credit stay.
LEMMA HandleCalmCredit ==
    ASSUME IInv, CInv, NEW p \in Peers, TakenOff(p, Idle), Head(wire[Other(p)]).type # "credit",
           UNCHANGED <<registered, wrote, got, readBy, owed, outstanding>>, MidStays,
           \A s \in Streams : StartStay(s)
    PROVE  CInv'
<1>1. QueueInv /\ up' = up
  BY DEF IInv, TakenOff
<1>2. \A q \in Peers, s \in Streams : Credits(Channel(q, s), s)' = Credits(Channel(q, s), s)
  BY <1>1, TakenOffFree
<1>3. ASSUME NEW s \in Streams PROVE StartInv(s)'
  <2>1. StartInv(s)
    BY DEF CInv
  <2>2. QED
    BY <1>1, <2>1, ThePeers, HeldTaken, StartStays
<1>4. QED
  BY <1>1, <1>2, <1>3, AllCreditStays

LEMMA HandleOpenCredit ==
    ASSUME IInv, CInv, NEW p \in Peers, NEW t \in Streams, TakenOff(p, Idle),
           Head(wire[Other(p)]) \in Of("open", t), HandleOpen(p, t),
           UNCHANGED <<wrote, readBy, owed>>
    PROVE  CInv'
<1> DEFINE f == Head(wire[Other(p)])
<1>1. f.type = "open" /\ f.id = t /\ QueueInv
  BY Kinds DEF IInv
<1>2. p = "server" /\ Other(p) = "client"
  <2>1. f \in FramesOf(Other(p))
    BY <1>1, TakenQueues
  <2>2. QED
    BY <1>1, <2>1 DEF FramesOf, Peers, Other
<1>3. acceptor[t] = "none"
  <2>1. Has(Channel("client", t), Of("open", t))
    <3>1. wire["client"] # <<>>
      BY <1>2 DEF TakenOff
    <3>2. Channel("client", t)[1] \in Of("open", t) /\ Len(Channel("client", t)) \in Nat
          /\ Taken(Channel("client", t), Tail(Channel("client", t)))
          /\ Len(Tail(Channel("client", t))) \in Nat
      BY <1>1, <1>2, <3>1, ThePeers, ChannelHead
    <3>3. QED
      BY <3>2, Taking
  <2>2. QED
    BY <2>1 DEF IInv, StreamInv, OpenInv, OpenOk
<1>4. /\ UNCHANGED <<registered, wrote, got, readBy, owed, outstanding, pump, pending>>
      /\ acceptor' = [acceptor EXCEPT ![t] = "event"]
  BY DEF HandleOpen
<1>5. \A s \in Streams : StartStay(s)
  <2>1. acceptor \in [Streams -> {"none", "event", "taken", "accepted", "refused", "barred"}]
    BY DEF IInv, EndsTyped
  <2>2. QED
    BY <1>3, <1>4, <2>1 DEF StartStay
<1>6. QED
  BY <1>1, <1>4, <1>5, PumpStays, HandleCalmCredit

\* The data is one more frame for the reader.
LEMMA CreditGot ==
    ASSUME NEW from, NEW to, NEW w, NEW g \in Nat, NEW r, NEW o, NEW out, NEW m, NEW reg, NEW c,
           NEW h \in Nat, g <= h,
           CreditOk(from, to, w, g, r, o, out, m, reg, c)
    PROVE  CreditOk(from, to, w, h, r, o, out, m, reg, c)
BY DEF CreditOk

LEMMA HandleDataCredit ==
    ASSUME IInv, CInv, NEW p \in Peers, NEW t \in Streams, TakenOff(p, Idle),
           Head(wire[Other(p)]) \in Of("data", t), HandleData(p, t),
           UNCHANGED <<wrote, readBy, owed>>
    PROVE  CInv'
<1>1. Head(wire[Other(p)]).type # "credit" /\ QueueInv /\ up' = up
  BY Kinds DEF IInv, TakenOff
<1>2. UNCHANGED <<registered, wrote, readBy, owed, outstanding, pump, pending, acceptor>>
  BY DEF HandleData, openVars
<1>3. \A q \in Peers, s \in Streams : Credits(Channel(q, s), s)' = Credits(Channel(q, s), s)
  BY <1>1, TakenOffFree
<1>4. \A q \in Peers, s \in Streams :
        got[q][s] \in Nat /\ got'[q][s] \in Nat /\ got[q][s] <= got'[q][s]
  <2>1. got \in [Peers -> [Streams -> Nat]]
    BY DEF IInv, EndsTyped
  <2>2. CASE got' = got
    BY <2>1, <2>2
  <2>3. CASE got' = [got EXCEPT ![p][t] = @ + 1]
    BY <2>1, <2>3
  <2>4. QED
    BY <2>2, <2>3 DEF HandleData
<1>5. ASSUME NEW q \in Peers, NEW s \in Streams PROVE CreditInv(q, s)'
  <2>1. CreditInv(q, s) /\ Other(q) \in Peers
    BY ThePeers, OtherPeer DEF CInv, Peers
  <2>2. CreditOk(up[q], up[Other(q)], wrote[q][s], got'[Other(q)][s], readBy[Other(q)][s],
                 owed[Other(q)][s], outstanding[q][s], Mid(pump[q][s]), s \in registered[q],
                 Credits(Channel(Other(q), s), s))
    BY <1>4, <2>1, CreditGot DEF CreditInv
  <2>3. Credits(Channel(Other(q), s), s)' = Credits(Channel(Other(q), s), s)
    BY <1>3, <2>1
  <2>4. QED
    BY <1>1, <1>2, <2>2, <2>3 DEF CreditInv
<1>6. ASSUME NEW s \in Streams PROVE StartInv(s)'
  <2>1. StartInv(s) /\ StartStay(s)
    BY <1>2 DEF CInv, StartStay
  <2>2. QED
    BY <1>1, <2>1, ThePeers, HeldTaken, StartStays
<1>7. QED
  BY <1>2, <1>5, <1>6, ThePeers DEF CInv

\* The sender forgets the stream.
LEMMA CreditForgotten ==
    ASSUME NEW from, NEW to, NEW w, NEW g, NEW r, NEW o, NEW out, NEW m, NEW reg, NEW c,
           CreditOk(from, to, w, g, r, o, out, m, reg, c), NEW still, still => reg
    PROVE  CreditOk(from, to, w, g, r, o, out, m, still, c)
BY DEF CreditOk

LEMMA HandleCloseCredit ==
    ASSUME IInv, CInv, NEW p \in Peers, NEW t \in Streams, TakenOff(p, Idle),
           Head(wire[Other(p)]) \in Of("close", t), HandleClose(p, t),
           UNCHANGED <<wrote, readBy, owed>>
    PROVE  CInv'
<1>1. Head(wire[Other(p)]).type # "credit" /\ QueueInv /\ up' = up
  BY Kinds DEF IInv, TakenOff
<1>2. /\ UNCHANGED <<wrote, got, readBy, owed, outstanding, pump, pending, acceptor>>
      /\ registered' = [registered EXCEPT ![p] = @ \ {t}]
  BY DEF HandleClose
<1>3. \A q \in Peers, s \in Streams : Credits(Channel(q, s), s)' = Credits(Channel(q, s), s)
  BY <1>1, TakenOffFree
<1>4. \A q \in Peers, s \in Streams : s \in registered'[q] => s \in registered[q]
  BY <1>2 DEF IInv, EndsTyped
<1>5. ASSUME NEW q \in Peers, NEW s \in Streams PROVE CreditInv(q, s)'
  <2>1. CreditInv(q, s) /\ Other(q) \in Peers
    BY ThePeers, OtherPeer DEF CInv, Peers
  <2>2. CreditOk(up[q], up[Other(q)], wrote[q][s], got[Other(q)][s], readBy[Other(q)][s],
                 owed[Other(q)][s], outstanding[q][s], Mid(pump[q][s]), s \in registered'[q],
                 Credits(Channel(Other(q), s), s))
    BY <1>4, <2>1, CreditForgotten DEF CreditInv
  <2>3. Credits(Channel(Other(q), s), s)' = Credits(Channel(Other(q), s), s)
    BY <1>3, <2>1
  <2>4. QED
    BY <1>1, <1>2, <2>2, <2>3 DEF CreditInv
<1>6. ASSUME NEW s \in Streams PROVE StartInv(s)'
  <2>1. StartInv(s) /\ StartStay(s)
    BY <1>2 DEF CInv, StartStay
  <2>2. QED
    BY <1>1, <2>1, ThePeers, HeldTaken, StartStays
<1>7. QED
  BY <1>2, <1>5, <1>6, ThePeers DEF CInv
LEMMA HandleAckCredit ==
    ASSUME IInv, CInv, NEW p \in Peers, NEW t \in Streams, up[p], TakenOff(p, Idle),
           Head(wire[Other(p)]) \in Of("ack", t), HandleAck(p, t, Head(wire[Other(p)]).n),
           UNCHANGED <<wrote, readBy, owed>>
    PROVE  CInv'
<1> DEFINE f == Head(wire[Other(p)])
<1>1. f.type = "ack" /\ f.id = t /\ QueueInv /\ up' = up
  BY Kinds DEF IInv, TakenOff
<1>2. p = "client" /\ Other(p) = "server" /\ up["client"] = TRUE
  <2>1. f \in FramesOf(Other(p))
    BY <1>1, TakenQueues
  <2>2. QED
    BY <1>1, <2>1 DEF FramesOf, Peers, Other, QueueInv
<1>3. Has(Channel("server", t), Of("ack", t))
  <2>1. wire["server"] # <<>>
    BY <1>2 DEF TakenOff
  <2>2. /\ Channel("server", t)[1] \in Of("ack", t) /\ Len(Channel("server", t)) \in Nat
        /\ Taken(Channel("server", t), Tail(Channel("server", t)))
        /\ Len(Tail(Channel("server", t))) \in Nat
    BY <1>1, <1>2, <2>1, ThePeers, ChannelHead
  <2>3. QED
    BY <2>2, Taking
<1>4. t \in pending /\ acceptor[t] \notin {"none", "event", "taken"}
  BY <1>2, <1>3 DEF IInv, StreamInv, OpenInv, OpenOk
<1>5. pump["client"][t] = "none"
  BY <1>4 DEF CInv, StartInv
<1>6. /\ UNCHANGED <<acceptor, wrote, got, readBy, owed>> /\ pending' = pending \ {t}
      /\ f.n = STATUS_OK => /\ registered' = [registered EXCEPT !["client"] = @ \cup {t}]
                            /\ pump' = [pump EXCEPT !["client"][t] = "running"]
                            /\ outstanding' = [outstanding EXCEPT !["client"][t] = 0]
      /\ f.n # STATUS_OK => UNCHANGED <<registered, pump, outstanding>>
  BY <1>2, <1>4 DEF HandleAck, Register
<1>7. \A q \in Peers, s \in Streams : Credits(Channel(q, s), s)' = Credits(Channel(q, s), s)
  BY <1>1, TakenOffFree
<1> HIDE DEF f
<1>8. CASE f.n # STATUS_OK
  <2>1. ASSUME NEW s \in Streams PROVE StartInv(s)'
    <3>1. StartInv(s) /\ StartStay(s)
      BY <1>6, <1>8 DEF CInv, StartStay
    <3>2. QED
      BY <1>1, <3>1, ThePeers, HeldTaken, StartStays
  <2>2. QED
    BY <1>1, <1>6, <1>7, <1>8, <2>1, PumpStays, AllCreditStays
<1>9. CASE f.n = STATUS_OK
  <2>1. /\ registered \in [Peers -> SUBSET Streams] /\ "client" \in Peers
        /\ pump \in [Peers -> [Streams -> {"none", "running", "counting", "eof", "done"}]]
        /\ outstanding \in [Peers -> [Streams -> Nat]]
    BY ThePeers DEF IInv, EndsTyped, CInv
  <2>2. /\ \A q \in Peers, s \in Streams : (q = "client" /\ s = t) \/
              /\ s \in registered'[q] <=> s \in registered[q]
              /\ outstanding'[q][s] = outstanding[q][s]
              /\ pump'[q][s] = pump[q][s]
        /\ t \in registered'["client"] /\ outstanding'["client"][t] = 0
        /\ pump'["client"][t] = "running"
        /\ outstanding' \in [Peers -> [Streams -> Nat]]
    <3>1. /\ outstanding' \in [Peers -> [Streams -> Nat]]
          /\ outstanding'["client"][t] = 0
          /\ \A q \in Peers, s \in Streams :
               (q = "client" /\ s = t) \/ outstanding'[q][s] = outstanding[q][s]
      <4>1. outstanding' = [outstanding EXCEPT !["client"][t] = 0] /\ 0 \in Nat
        BY <1>6, <1>9
      <4>2. QED
        BY <2>1, <4>1
    <3>2. /\ pump'["client"][t] = "running"
          /\ \A q \in Peers, s \in Streams : (q = "client" /\ s = t) \/ pump'[q][s] = pump[q][s]
      BY <1>6, <1>9, <2>1
    <3>3. /\ \A q \in Peers, s \in Streams : (q = "client" /\ s = t) \/
                (s \in registered'[q] <=> s \in registered[q])
          /\ t \in registered'["client"]
      BY <1>6, <1>9, <2>1
    <3>4. QED
      BY <3>1, <3>2, <3>3
  <2>3. ASSUME NEW q \in Peers, NEW s \in Streams PROVE CreditInv(q, s)'
    <3>1. CreditInv(q, s) /\ DataInv(q, s)
      BY ThePeers DEF IInv, StreamInv, CInv, Peers
    <3>2. Credits(Channel(Other(q), s), s)' = Credits(Channel(Other(q), s), s)
      BY <1>7, OtherPeer
    <3>3. CASE q = "client" /\ s = t
      BY <1>1, <1>2, <1>5, <1>6, <2>1, <2>2, <3>1, <3>2, <3>3, RegisterCredit
    <3>4. CASE ~(q = "client" /\ s = t)
      <4>1. CreditEndsStay(q, s)
        BY <1>1, <1>6, <2>2, <3>4 DEF CreditEndsStay
      <4>2. QED
        BY <3>1, <3>2, <4>1, CreditStays
    <3>5. QED
      BY <3>3, <3>4
  <2>4. ASSUME NEW s \in Streams PROVE StartInv(s)'
    <3>1. StartInv(s) /\ \A X : Held("server", X)' <=> Held("server", X)
      BY <1>1, ThePeers, HeldTaken DEF CInv
    <3>2. CASE s = t
      <4>1. pump'["server"][t] = pump["server"][t] /\ t \notin pending'
        BY <1>6, <2>2, ThePeers
      <4>2. QED
        BY <1>4, <1>6, <3>1, <3>2, <4>1 DEF StartInv
    <3>3. CASE s # t
      <4>1. StartStay(s)
        BY <1>6, <2>2, <3>3 DEF StartStay
      <4>2. QED
        BY <3>1, <4>1, StartStays
    <3>4. QED
      BY <3>2, <3>3
  <2>5. readBy' \in [Peers -> [Streams -> Nat]]
    BY <1>6 DEF CInv
  <2>6. QED
    BY <2>2, <2>3, <2>4, <2>5, ThePeers DEF CInv
<1>10. QED
  BY <1>8, <1>9

LEMMA HandleCreditCredit ==
    ASSUME IInv, CInv, NEW p \in Peers, NEW t \in Streams, up[p], TakenOff(p, Idle),
           Head(wire[Other(p)]) \in Of("credit", t), HandleCredit(p, t, Head(wire[Other(p)]).n),
           UNCHANGED <<wrote, readBy, owed>>
    PROVE  CInv'
<1> DEFINE f == Head(wire[Other(p)])
           n == f.n
<1>1. /\ f.type = "credit" /\ f.id = t /\ n \in Nat /\ QueueInv /\ up' = up /\ up[p] = TRUE
      /\ CreditOf(f, t) = n
  BY Kinds DEF IInv, TakenOff, QueueInv, AnyFrame, CreditOf
<1>2. /\ UNCHANGED <<registered, wrote, got, readBy, owed, pump, pending, acceptor>>
      /\ outstanding' = IF t \in registered[p]
                          THEN [outstanding EXCEPT ![p][t] = IF @ > n THEN @ - n ELSE 0]
                          ELSE outstanding
  BY DEF HandleCredit, openVars
<1>3. /\ outstanding \in [Peers -> [Streams -> Nat]] /\ readBy' \in [Peers -> [Streams -> Nat]]
      /\ wrote \in [Peers -> [Streams -> Nat]] /\ got \in [Peers -> [Streams -> Nat]]
  BY <1>2 DEF CInv, IInv, EndsTyped
<1>4. ASSUME NEW s \in Streams
      PROVE  /\ Credits(Channel(p, s), s)' = Credits(Channel(p, s), s)
             /\ Credits(Channel(Other(p), s), s) = CreditOf(f, s) + Credits(Channel(Other(p), s), s)'
             /\ Credits(Channel(Other(p), s), s)' \in Nat
  <2>1. QueueInv'
    BY <1>1, TakenQueues
  <2>2. Credits(Channel(Other(p), s), s)' \in Nat
    BY <2>1, OtherPeer, ChannelAnyNext
  <2>3. QED
    BY <1>1, <2>2, TakenOffCredits
<1> HIDE DEF f, n
<1>5. /\ outstanding'[p][t] = IF t \in registered[p]
                                THEN IF outstanding[p][t] > n THEN outstanding[p][t] - n ELSE 0
                                ELSE outstanding[p][t]
      /\ \A q \in Peers, s \in Streams : (q # p \/ s # t) => outstanding'[q][s] = outstanding[q][s]
  BY <1>2, <1>3
<1>6. CreditInv(p, t)' /\ outstanding'[p][t] \in Nat
  <2> DEFINE w == wrote[p][t]
             g == got[Other(p)][t]
             r == readBy[Other(p)][t]
             o == owed[Other(p)][t]
             out == outstanding[p][t]
             to == up[Other(p)]
             m == Mid(pump[p][t])
             reg == t \in registered[p]
             c == Credits(Channel(Other(p), t), t)'
             next == outstanding'[p][t]
  <2>1. CreditInv(p, t) /\ DataInv(p, t) /\ Other(p) \in Peers
    BY ThePeers, OtherPeer DEF IInv, StreamInv, CInv, Peers
  <2>2. g \in Nat /\ w \in Nat /\ g <= w
    BY <2>1 DEF DataInv, DataOk
  <2>3. CreditOk(TRUE, to, w, g, r, o, out, m, reg, n + c) /\ c \in Nat
    BY <1>1, <1>4, <2>1 DEF CreditInv
  <2>4. /\ reg \in BOOLEAN /\ m \in 0..1
        /\ next = IF reg THEN IF out > n THEN out - n ELSE 0 ELSE out
    BY <1>5 DEF Mid
  <2> HIDE DEF w, g, r, o, out, to, m, reg, c, next
  \* Of what comes back saturating_sub forgets one frame at most: the one that is not
  \* yet counted, and only if the count was exact.
  <2>5. CreditOk(TRUE, to, w, g, r, o, next, m, reg, c) /\ next \in Nat
    <3>1. /\ r \in Nat /\ o \in Nat /\ out \in Nat /\ r <= g /\ o <= r /\ out + m <= w
          /\ to => o + (n + c) <= r
          /\ reg /\ to => \/ out + m = w - r + o + (n + c)
                          \/ out + m = w - r + o + (n + c) + 1
      BY <2>3 DEF CreditOk
    <3>2. CASE reg
      <4>1. next = IF out > n THEN out - n ELSE 0
        BY <2>4, <3>2
      <4>2. next \in Nat /\ next + m <= w
        BY <1>1, <2>2, <2>4, <3>1, <4>1
      <4>3. to => o + c <= r
        BY <1>1, <2>3, <3>1
      <4>4. to => next + m = w - r + o + c \/ next + m = w - r + o + c + 1
        BY <1>1, <2>2, <2>3, <2>4, <3>1, <3>2, <4>1
      <4>5. QED
        BY <2>3, <3>1, <4>2, <4>3, <4>4 DEF CreditOk
    <3>3. CASE ~reg
      <4>1. next = out
        BY <2>4, <3>3
      <4>2. to => o + c <= r
        BY <1>1, <2>3, <3>1
      <4>3. QED
        BY <2>3, <3>1, <3>3, <4>1, <4>2 DEF CreditOk
    <3>4. QED
      BY <3>2, <3>3
  <2>6. (t \in registered'[p]) = reg
    BY <1>2 DEF reg
  <2>7. QED
    BY <1>1, <1>2, <2>5, <2>6 DEF CreditInv, w, g, r, o, out, to, m, c, next
<1>7. ASSUME NEW q \in Peers, NEW s \in Streams PROVE CreditInv(q, s)'
  <2>1. CASE q = p /\ s = t
    BY <1>6, <2>1
  <2>2. CASE ~(q = p /\ s = t)
    <3>1. CreditInv(q, s)
      BY ThePeers DEF CInv, Peers
    <3>2. CreditEndsStay(q, s)
      BY <1>1, <1>2, <1>5, <2>2 DEF CreditEndsStay
    <3>3. Credits(Channel(Other(q), s), s)' = Credits(Channel(Other(q), s), s)
      <4>1. CASE q = Other(p)
        BY <1>4, <4>1, OtherPeer
      <4>2. CASE q # Other(p)
        <5>1. q = p /\ s # t
          BY <2>2, <4>2, ThePeers
        <5>2. CreditOf(f, s) = 0
          BY <1>1, <5>1, OtherKinds
        <5>3. QED
          BY <1>4, <5>1, <5>2
      <4>3. QED
        BY <4>1, <4>2
    <3>4. QED
      BY <3>1, <3>2, <3>3, CreditStays
  <2>3. QED
    BY <2>1, <2>2
<1>8. outstanding' \in [Peers -> [Streams -> Nat]]
  <2>1. CASE outstanding' = outstanding
    BY <1>3, <2>1
  <2>2. CASE outstanding' = [outstanding EXCEPT ![p][t] = IF @ > n THEN @ - n ELSE 0]
    <3>1. outstanding' = [outstanding EXCEPT ![p][t] = outstanding'[p][t]]
      BY <1>3, <2>2
    <3>2. PICK k \in Nat : k = outstanding'[p][t]
      BY <1>6
    <3>3. outstanding' = [outstanding EXCEPT ![p][t] = k]
      BY <3>1, <3>2
    <3>4. QED
      BY <1>3, <3>3
  <2>3. QED
    BY <1>2, <2>1, <2>2
<1>9. ASSUME NEW s \in Streams PROVE StartInv(s)'
  <2>1. StartInv(s) /\ StartStay(s)
    BY <1>2 DEF CInv, StartStay
  <2>2. QED
    BY <1>1, <2>1, ThePeers, HeldTaken, StartStays
<1>10. QED
  BY <1>3, <1>7, <1>8, <1>9, ThePeers DEF CInv
LEMMA HandleOtherCredit ==
    ASSUME IInv, CInv, NEW p \in Peers, HandleOther(p)
    PROVE  CInv'
<1> DEFINE f == Head(wire[Other(p)])
<1>1. up[p] /\ TakenOff(p, Idle) /\ UNCHANGED <<wrote, readBy, owed>>
  BY DEF HandleOther, HandleFrame, TakenOff, IInv, QueueInv
<1>2. f \in FramesOf(Other(p))
  BY <1>1, TakenQueues DEF IInv
<1>3. PICK t \in Streams : t = f.id
  BY <1>2 DEF FramesOf, AnyFrame
<1>4. f \in Of(f.type, t)
  BY <1>2, <1>3, Kinds DEF FramesOf
<1> HIDE DEF f
<1>5. CASE f.type = "open" /\ HandleOpen(p, t)
  BY <1>1, <1>4, <1>5, HandleOpenCredit DEF f
<1>6. CASE f.type = "ack" /\ HandleAck(p, t, f.n)
  BY <1>1, <1>4, <1>6, HandleAckCredit DEF f
<1>7. CASE f.type = "data" /\ HandleData(p, t)
  BY <1>1, <1>4, <1>7, HandleDataCredit DEF f
<1>8. CASE f.type = "credit" /\ HandleCredit(p, t, f.n)
  BY <1>1, <1>4, <1>8, HandleCreditCredit DEF f
<1>9. CASE f.type = "close" /\ HandleClose(p, t)
  BY <1>1, <1>4, <1>9, HandleCloseCredit DEF f
<1>10. CASE f.type = "datagram" /\ HandleDatagram(p)
  <2>1. UNCHANGED <<registered, wrote, got, readBy, owed, outstanding, pump, pending, acceptor>>
    BY <1>1, <1>10 DEF HandleDatagram, openVars
  <2>2. \A s \in Streams : StartStay(s)
    BY <2>1 DEF StartStay
  <2>3. QED
    BY <1>1, <1>10, <2>1, <2>2, PumpStays, HandleCalmCredit DEF f
<1>11. QED
  BY <1>3, <1>5, <1>6, <1>7, <1>8, <1>9, <1>10 DEF HandleOther, HandleFrame, f

LEMMA HandleAuthResponseCredit ==
    ASSUME IInv, CInv, NEW f \in AnyFrame, HandleAuthResponse(f)
    PROVE  CInv'
<1>1. /\ UNCHANGED <<registered, wrote, got, readBy, owed, outstanding, pump, pending, acceptor>>
      /\ Head(wire[Other("client")]).type = "authResponse"
  BY DEF HandleAuthResponse, Takes, openVars, pumpVars, readVars
<1>2. TakenOff("client", Idle)
  BY DEF HandleAuthResponse, Takes, TakenOff, pumpVars, IInv, QueueInv
<1>3. \A s \in Streams : StartStay(s)
  BY <1>1 DEF StartStay
<1>4. QED
  BY <1>1, <1>2, <1>3, ThePeers, PumpStays, HandleCalmCredit

\* The server's answers from inside handle_frame.
LEMMA AnswerCredit ==
    ASSUME IInv, CInv, NEW r \in CommandsOf("server"), TakenOff("server", r),
           r.frame.type # "credit", Head(wire["client"]).type # "credit",
           UNCHANGED <<registered, wrote, got, readBy, owed, outstanding>>, MidStays,
           \A s \in Streams : StartStay(s),
           \A s \in Streams : r.frame \in Of("ack", s) => acceptor[s] = "none"
    PROVE  CInv'
<1>1. QueueInv /\ up' = up /\ "server" \in Peers /\ Other("server") = "client"
  BY ThePeers DEF IInv, TakenOff
<1>2. \A q \in Peers, s \in Streams : Credits(Channel(q, s), s)' = Credits(Channel(q, s), s)
  BY <1>1, TakenOffFree
<1>3. ASSUME NEW s \in Streams PROVE StartInv(s)'
  <2>1. run'["server"] = r /\ cmdQ' = cmdQ
    BY <1>1 DEF TakenOff
  <2>2. Held("server", Of("ack", s))' => Held("server", Of("ack", s)) \/ r.frame \in Of("ack", s)
    BY <2>1 DEF Held, HeldIn
  <2>3. StartInv(s)
    BY DEF CInv
  <2>4. QED
    BY <2>2, <2>3, StartStays
<1>4. QED
  BY <1>1, <1>2, <1>3, AllCreditStays

LEMMA HandleAuthRequestCredit ==
    ASSUME IInv, CInv, NEW f \in AnyFrame, HandleAuthRequest(f)
    PROVE  CInv'
<1> DEFINE r == Sending(Frame("authResponse", f.id, f.n), "none")
<1>1. PICK t \in Streams, n \in Nat : t = f.id /\ n = f.n
  BY DEF AnyFrame
<1>2. /\ UNCHANGED <<registered, wrote, got, readBy, owed, outstanding, pump, pending, acceptor>>
      /\ Head(wire["client"]).type = "authRequest"
  BY ThePeers DEF HandleAuthRequest, Takes, openVars, pumpVars, readVars
<1>3. r \in CommandsOf("server") /\ r.frame = Frame("authResponse", t, n)
  BY <1>1, ThePeers, Commands
<1>4. r.frame.type = "authResponse"
  BY <1>3 DEF Frame
<1>5. TakenOff("server", r)
  BY DEF HandleAuthRequest, Takes, TakenOff, pumpVars, IInv, QueueInv
<1> HIDE DEF r
<1>6. \A s \in Streams : StartStay(s) /\ r.frame \notin Of("ack", s)
  BY <1>2, <1>4, NoAcks DEF StartStay
<1>7. QED
  BY <1>2, <1>3, <1>4, <1>5, <1>6, PumpStays, AnswerCredit

LEMMA RefuseOpenCredit ==
    ASSUME IInv, CInv, NEW f \in AnyFrame, RefuseOpen(f)
    PROVE  CInv'
<1> DEFINE r == Sending(Frame("ack", f.id, STATUS_ERR), "none")
<1>1. PICK t \in Streams : t = f.id
  BY DEF AnyFrame
<1>2. /\ UNCHANGED <<registered, wrote, got, readBy, owed, outstanding, pump, pending>>
      /\ acceptor' = [acceptor EXCEPT ![t] = "barred"]
      /\ wire["client"] # <<>> /\ Head(wire["client"]) = f /\ f.type = "open" /\ f.id = t
  BY <1>1, ThePeers DEF RefuseOpen, Takes, pumpVars, readVars
<1>3. r \in CommandsOf("server") /\ r.frame = Frame("ack", t, STATUS_ERR)
  BY <1>1, ThePeers, Commands DEF STATUS_ERR
<1>4. r.frame.type = "ack" /\ r.frame.id = t
  BY <1>3 DEF Frame
<1>5. TakenOff("server", r)
  BY DEF RefuseOpen, Takes, TakenOff, pumpVars, IInv, QueueInv
<1> HIDE DEF r
<1>6. acceptor[t] = "none"
  <2>1. /\ Channel("client", t)[1] = f /\ f \in FramesOf("client")
        /\ Len(Channel("client", t)) \in Nat
        /\ Taken(Channel("client", t), Tail(Channel("client", t)))
        /\ Len(Tail(Channel("client", t))) \in Nat
    BY <1>2, ThePeers, ChannelHead DEF IInv
  <2>2. f \in Of("open", t)
    BY <1>2, <2>1, Kinds DEF FramesOf
  <2>3. Has(Channel("client", t), Of("open", t))
    BY <2>1, <2>2, Taking
  <2>4. QED
    BY <2>3 DEF IInv, StreamInv, OpenInv, OpenOk
<1>7. \A s \in Streams : StartStay(s)
  <2>1. acceptor \in [Streams -> {"none", "event", "taken", "accepted", "refused", "barred"}]
    BY DEF IInv, EndsTyped
  <2>2. QED
    BY <1>2, <1>6, <2>1 DEF StartStay
<1>8. \A s \in Streams : r.frame \in Of("ack", s) => acceptor[s] = "none"
  BY <1>4, <1>6 DEF Of
<1>9. r.frame.type # "credit" /\ Head(wire["client"]).type # "credit"
  BY <1>2, <1>4
<1>10. QED
  BY <1>2, <1>3, <1>5, <1>7, <1>8, <1>9, PumpStays, AnswerCredit

----------------------------------------------------------------------------
(* The end of a run task. *)

LEMMA EndRunCredit ==
    ASSUME IInv, CInv, NEW p \in Peers, EndRun(p)
    PROVE  CInv'
<1>1. /\ UNCHANGED <<acceptor, pump, wrote, got, readBy, owed, outstanding>>
      /\ up' = [up EXCEPT ![p] = FALSE]
      /\ registered' = [registered EXCEPT ![p] = {}]
      /\ pending' = {} \/ pending' = pending
      /\ run' = [run EXCEPT ![p] = Idle] /\ cmdQ' = [cmdQ EXCEPT ![p] = <<>>]
  BY DEF EndRun, pumpVars, readVars
<1>2. QueueInv /\ QueueInv'
  BY EndRunQueues DEF IInv
<1>3. up'[p] = FALSE /\ registered'[p] = {}
  BY <1>1, <1>2 DEF QueueInv, IInv, EndsTyped
<1>4. ASSUME NEW q \in Peers, NEW s \in Streams PROVE CreditInv(q, s)'
  <2>1. CreditInv(q, s) /\ Other(q) \in Peers /\ (q = p \/ Other(q) = p)
    BY ThePeers, OtherPeer DEF CInv, Peers
  <2> DEFINE d == Credits(Channel(Other(q), s), s)'
  <2>2. d \in Nat
    BY <1>2, <2>1, ChannelAnyNext
  \* With one of the two gone, or the stream no longer registered, there is less to say.
  <2>3. ~(up'[q] /\ up'[Other(q)]) /\ ~(s \in registered'[q] /\ up'[Other(q)])
    BY <1>3, <2>1
  <2> HIDE DEF d
  <2>4. CreditOk(up'[q], up'[Other(q)], wrote[q][s], got[Other(q)][s], readBy[Other(q)][s],
                 owed[Other(q)][s], outstanding[q][s], Mid(pump[q][s]), s \in registered'[q], d)
    BY <2>1, <2>2, <2>3 DEF CreditInv, CreditOk
  <2>5. QED
    BY <1>1, <2>4 DEF CreditInv, d
<1>5. ASSUME NEW s \in Streams PROVE StartInv(s)'
  <2>1. Held("server", Of("ack", s))' => Held("server", Of("ack", s))
    <3>1. DOMAIN run = Peers /\ DOMAIN cmdQ = Peers
      BY <1>2 DEF QueueInv
    <3>2. /\ run'[p] = Idle /\ cmdQ'[p] = <<>> /\ Len(<<>>) = 0
          /\ \A q \in Peers : q # p => run'[q] = run[q] /\ cmdQ'[q] = cmdQ[q]
      BY <1>1, <3>1
    <3>3. QED
      BY <3>2, ThePeers DEF Held, HeldIn
  <2>2. StartInv(s) /\ StartStay(s)
    BY <1>1 DEF CInv, StartStay
  <2>3. QED
    BY <2>1, <2>2, StartStays
<1>6. QED
  BY <1>1, <1>4, <1>5, ThePeers DEF CInv
----------------------------------------------------------------------------
(* The initial states and the steps. *)

LEMMA CreditInit == MuxInit => CInv
<1> SUFFICES ASSUME MuxInit PROVE CInv
  OBVIOUS
<1>1. /\ pump = PerStream("none") /\ readBy = PerStream(0) /\ got = PerStream(0)
      /\ wrote = PerStream(0) /\ owed = PerStream(0) /\ outstanding = PerStream(0)
      /\ outQ = PerStream(<<>>) /\ registered = [p \in Peers |-> {}]
      /\ cmdQ = [p \in Peers |-> <<>>] /\ run = [p \in Peers |-> Idle]
      /\ frameQ = [p \in Peers |-> <<>>] /\ wire = [p \in Peers |-> <<>>]
  BY DEF MuxInit, Init
<1>2. QueueInv
  BY MuxInitKeeps DEF IInv
<1>3. readBy \in [Peers -> [Streams -> Nat]] /\ outstanding \in [Peers -> [Streams -> Nat]]
  BY <1>1 DEF PerStream
<1>4. ASSUME NEW p \in Peers, NEW s \in Streams PROVE CreditInv(p, s)
  <2>1. Other(p) \in Peers
    BY OtherPeer
  <2>2. Credits(Channel(Other(p), s), s) \in Nat
    BY <1>2, <2>1, ChannelAny
  <2>3. Credits(Channel(Other(p), s), s) = 0
    <3> DEFINE q == Other(p)
    <3>1. /\ wire[q] = <<>> /\ frameQ[q] = <<>> /\ InHand(run[q]) = <<>> /\ cmdQ[q] = <<>>
          /\ outQ[q][s] = <<>>
      BY <1>1, <2>1 DEF PerStream, InHand
    <3>2. FramesIn(cmdQ[q]) = <<>>
      <4>1. cmdQ[q] \in Seq(CommandsOf(q)) /\ Len(cmdQ[q]) = 0
        BY <3>1, EmptySeq
      <4>2. FramesIn(cmdQ[q]) \in Seq(FramesOf(q)) /\ Len(FramesIn(cmdQ[q])) = 0
        BY <2>1, <4>1, CommandFrames
      <4>3. QED
        BY <4>2, EmptySeq
    <3>3. Behind(q, s) = <<>>
      BY <3>1 DEF Behind
    <3>4. <<>> \o <<>> = <<>>
      BY ConcatEmptySeq, EmptySeq
    <3>5. Channel(q, s) = <<>>
      BY <3>1, <3>2, <3>3, <3>4 DEF Channel, Passing, Queues
    <3>6. QED
      BY <3>5, NoCredits
  <2>4. /\ readBy[Other(p)][s] = 0 /\ got[Other(p)][s] = 0 /\ owed[Other(p)][s] = 0
        /\ wrote[p][s] = 0 /\ outstanding[p][s] = 0
    BY <1>1, <2>1 DEF PerStream
  <2>5. QED
    <3>1. Mid(pump[p][s]) = 0 /\ s \notin registered[p]
      BY <1>1 DEF PerStream, Mid
    <3>2. QED
      BY <2>3, <2>4, <3>1 DEF CreditInv, CreditOk
<1>5. ASSUME NEW s \in Streams PROVE StartInv(s)
  BY <1>1, ThePeers DEF PerStream, StartInv
<1>6. QED
  BY <1>3, <1>4, <1>5, ThePeers DEF CInv

LEMMA CreditStepKeeps == IInv /\ CInv /\ [MuxNext]_muxTunnelVars => CInv'
<1> SUFFICES ASSUME IInv, CInv, [MuxNext]_muxTunnelVars PROVE CInv'
  OBVIOUS
<1>1. ASSUME NEW s \in Streams, Authenticate(s, "good") \/ Authenticate(s, "bad") PROVE CInv'
  BY <1>1, AuthenticateCredit
<1>2. ASSUME NEW s \in Streams, AuthenticateFails(s) PROVE CInv'
  BY <1>2, CallCredit
<1>3. ASSUME NEW s \in Streams, OpenSession(s) PROVE CInv'
  BY <1>3, OpenSessionCredit
<1>4. ASSUME NEW s \in Streams, OpenFails(s) PROVE CInv'
  BY <1>4, CallCredit
<1>5. ASSUME NEW s \in Streams, ReplyOpen(s) PROVE CInv'
  BY <1>5, ReplyOpenCredit
<1>6. ASSUME NEW p \in Peers, TakeCmd(p) PROVE CInv'
  BY <1>6, TakeCmdCredit
<1>7. ASSUME NEW p \in Peers, SendFrame(p) PROVE CInv'
  BY <1>7, SendFrameCredit
<1>8. ASSUME NEW p \in Peers, NoticeLoss(p) \/ LoseConnection(p) PROVE CInv'
  BY <1>8, EndRunCredit DEF NoticeLoss, LoseConnection
<1>9. ASSUME NEW p \in Peers, HandleOther(p) PROVE CInv'
  BY <1>9, HandleOtherCredit
<1>10. ASSUME NEW p \in Peers, HandleSessions(p) PROVE CInv'
  <2>1. wire[Other(p)] # <<>> /\ Other(p) \in Peers
    BY <1>10, OtherPeer DEF HandleSessions
  <2>2. wire[Other(p)] \in Seq(FramesOf(Other(p)))
    BY <2>1 DEF IInv, QueueInv, QueueTypes
  <2>3. PICK f \in AnyFrame : f = Head(wire[Other(p)])
    BY <2>1, <2>2 DEF FramesOf
  <2>4. HandleAuthRequest(f) \/ RefuseOpen(f) \/ HandleAuthResponse(f)
    BY <1>10, <2>3 DEF HandleSessions
  <2>5. QED
    BY <2>4, HandleAuthRequestCredit, RefuseOpenCredit, HandleAuthResponseCredit
<1>11. ASSUME NEW p \in Peers, Write(p) PROVE CInv'
  BY <1>11, WriteCredit
<1>12. ASSUME NEW p \in Peers, NEW s \in Streams, StreamStep(p, s) PROVE CInv'
  BY <1>12, PumpDataCredit, PumpCountCredit, ForwardDataCredit, PumpEndsCredit, PumpCloseCredit, AppReadCredit
     DEF StreamStep
<1>13. CASE UNCHANGED muxTunnelVars
  <2>1. /\ UNCHANGED <<up, registered, wrote, got, readBy, owed, outstanding, pump, acceptor, pending>>
        /\ UNCHANGED <<wire, frameQ, run, outQ, cmdQ>>
    BY <1>13 DEF muxTunnelVars, vars
  <2>2. \A q \in Peers, s \in Streams : Channel(q, s)' = Channel(q, s)
    BY <2>1, QueuesStay DEF IInv
  <2>3. \A s \in Streams : StartStay(s)
    BY <2>1 DEF StartStay
  <2>4. QED
    BY <2>1, <2>2, <2>3, HeldStays, PumpStays, QuietStep
<1>14. ASSUME NEW s \in Streams, TakeEvent(s) PROVE CInv'
  BY <1>14, TakeEventCredit
<1>15. ASSUME NEW p \in Peers, TakeDatagram(p) PROVE CInv'
  BY <1>15, TakeDatagramCredit
<1>16. ASSUME NEW p \in Peers, NEW s \in Streams, SendDatagram(p, s) PROVE CInv'
  BY <1>16, SendDatagramCredit
<1>17. QED
  BY <1>1, <1>2, <1>3, <1>4, <1>5, <1>6, <1>7, <1>8, <1>9, <1>10, <1>11, <1>12, <1>13, <1>14,
     <1>15, <1>16 DEF MuxNext, MuxRunStep

----------------------------------------------------------------------------
\* CInv is invariant: at each step of the tasks of ws.rs the credit that was given
\* out fits, but for one frame, with what was sent, received and read at both ends of
\* a stream, and a stream is registered (its StreamCredit starts from nothing) once on
\* each side.
THEOREM CreditInvariant == MuxSpec => []CInv
BY CreditInit, CreditStepKeeps, MuxInvariant, PTL DEF MuxSpec

\* StreamCredit and CreditReader invent no credit and lose one frame of it at most,
\* when it overtakes the count of its chunk: between two live ends the sender's count,
\* with the chunk still to count, is what it sent and the receiver has not read, plus
\* the batch the reader holds back, plus the STREAM_CREDIT frames under way, or one
\* more; for any number of streams, any amount of data and queues of any size.
THEOREM CreditIsAccounted == MuxSpec => []CreditAccounted
<1>1. IInv /\ CInv => CreditAccounted
  <2> SUFFICES ASSUME IInv, CInv, NEW p \in Peers, NEW s \in Streams,
                      s \in registered[p], up[Other(p)]
               PROVE  Drift(p, s) \in 0..1
    BY DEF CreditAccounted
  <2> DEFINE q == Other(p)
  <2>1. q \in Peers /\ CreditInv(p, s) /\ DataInv(p, s) /\ QueueInv
    BY ThePeers, OtherPeer DEF IInv, StreamInv, CInv, Peers
  <2>2. LET k == wrote[p][s] - readBy[q][s] + owed[q][s] + Credits(Channel(q, s), s)
        IN  /\ wrote[p][s] \in Nat /\ readBy[q][s] \in Nat /\ owed[q][s] \in Nat
            /\ outstanding[p][s] \in Nat /\ Credits(Channel(q, s), s) \in Nat
            /\ \/ outstanding[p][s] + Mid(pump[p][s]) = k
               \/ outstanding[p][s] + Mid(pump[p][s]) = k + 1
    BY <2>1 DEF CreditInv, CreditOk, DataInv, DataOk
  <2>3. Pipeline(q) = Passing(q)
    BY DEF Pipeline, Passing, Queues, InHand, FramesIn
  <2>4. Credits(Channel(q, s), s) = Credits(Passing(q), s)
    <3>1. Passing(q) \in Seq(FramesOf(q)) /\ Behind(q, s) \in Seq(FramesOf(q))
      BY <2>1, ChannelTyped
    <3>2. Passing(q) \in Seq(AnyFrame) /\ Behind(q, s) \in Seq(AnyFrame)
      <4>1. FramesOf(q) \subseteq AnyFrame
        BY DEF FramesOf
      <4>2. QED
        BY <3>1, <4>1, SeqMonotonic
    <3>3. \A i \in 1..Len(Behind(q, s)) : CreditOf(Behind(q, s)[i], s) = 0
      <4>1. Behind(q, s) \in Seq(Of("data", s))
        BY <2>1, EmptySeq DEF QueueInv, Behind
      <4>2. \A i \in 1..Len(Behind(q, s)) : Behind(q, s)[i] \in Of("data", s)
        BY <4>1
      <4>3. QED
        BY <4>2 DEF Of, CreditOf
    <3>4. QED
      BY <3>2, <3>3, FreeCredits DEF Channel
  <2>5. Drift(p, s) = outstanding[p][s] + Mid(pump[p][s])
                        - (wrote[p][s] - readBy[q][s] + owed[q][s] + Credits(Channel(q, s), s))
    BY <2>3, <2>4 DEF CreditInFlight, Drift, Mid
  <2>6. Mid(pump[p][s]) \in 0..1
    BY DEF Mid
  <2>7. QED
    BY <2>2, <2>5, <2>6
<1>2. QED
  BY <1>1, MuxInvariant, CreditInvariant, PTL

----------------------------------------------------------------------------
(* The bounds of the queues and of what is counted. *)

LEMMA Greatest ==
    ASSUME NEW S, IsFiniteSet(S), S # {}, NEW f \in [S -> Nat]
    PROVE  \E x \in S : \A y \in S : f[x] >= f[y]
<1> DEFINE Top(U) == \E x \in U : \A y \in U : f[x] >= f[y]
           T == {n \in Nat : \A U \in SUBSET S : Cardinality(U) = n /\ U # {} => Top(U)}
<1>1. /\ T \subseteq Nat
      /\ \A n \in Nat : n \in T <=> \A U \in SUBSET S : Cardinality(U) = n /\ U # {} => Top(U)
  OBVIOUS
<1> HIDE DEF T
<1>2. \A U \in SUBSET S : IsFiniteSet(U) /\ Cardinality(U) \in Nat
  BY FS_Subset, FS_CardinalityType
<1>3. 0 \in T
  BY <1>1, <1>2, FS_EmptySet
<1>4. ASSUME NEW n \in T PROVE n + 1 \in T
  <2>1. ASSUME NEW U \in SUBSET S, Cardinality(U) = n + 1, U # {} PROVE Top(U)
    <3>1. PICK x \in U : TRUE
      BY <2>1
    <3> DEFINE V == U \ {x}
    <3>2. V \in SUBSET S /\ Cardinality(V) = n
      <4>1. n \in Nat /\ IsFiniteSet(U)
        BY <1>1, <1>2
      <4>2. Cardinality(V) = Cardinality(U) - 1
        BY <3>1, <4>1, FS_RemoveElement
      <4>3. QED
        BY <2>1, <4>1, <4>2
    <3>3. CASE V = {}
      <4>1. \A y \in U : y = x
        BY <3>3
      <4>2. f[x] \in Nat
        BY <3>1
      <4>3. QED
        BY <3>1, <4>1, <4>2
    <3>4. CASE V # {}
      <4>1. PICK v \in V : \A y \in V : f[v] >= f[y]
        <5> HIDE DEF V
        <5>1. n \in Nat /\ \A W \in SUBSET S : Cardinality(W) = n /\ W # {} => Top(W)
          BY <1>1
        <5>2. Top(V)
          BY <3>2, <3>4, <5>1
        <5>3. QED
          BY <5>2
      <4>2. v \in U /\ f[v] \in Nat /\ f[x] \in Nat /\ \A y \in U : y = x \/ y \in V
        BY <3>1, <4>1
      <4>3. CASE f[v] >= f[x]
        BY <4>1, <4>2, <4>3
      <4>4. CASE ~(f[v] >= f[x])
        <5>1. \A y \in V : f[y] \in Nat
          OBVIOUS
        <5>2. \A y \in U : f[x] >= f[y]
          BY <4>1, <4>2, <4>4, <5>1
        <5>3. QED
          BY <3>1, <5>2
      <4>5. QED
        BY <4>3, <4>4
    <3>5. QED
      BY <3>3, <3>4
  <2>2. QED
    BY <1>1, <2>1
<1>5. T = Nat
  BY <1>1, <1>3, <1>4, Induct
<1>6. S \in SUBSET S /\ Cardinality(S) \in Nat
  BY <1>2
<1>7. QED
  BY <1>1, <1>5, <1>6

LEMMA MaxFramesBounds ==
    ASSUME NEW w \in Workloads
    PROVE  MaxFrames \in Nat /\ w["client"] <= MaxFrames /\ w["server"] <= MaxFrames
<1> DEFINE f == [v \in Workloads |-> v["client"] + v["server"]]
           S == {v["client"] + v["server"] : v \in Workloads}
<1>1. IsFiniteSet(Workloads) /\ \A v \in Workloads : v["client"] \in Nat /\ v["server"] \in Nat
  BY TunnelAssumption, ThePeers
<1>2. f \in [Workloads -> Nat] /\ \A v \in Workloads : f[v] = v["client"] + v["server"]
  BY <1>1
<1> HIDE DEF f
<1>3. PICK v \in Workloads : \A u \in Workloads : f[v] >= f[u]
  BY <1>1, <1>2, Greatest
<1>4. f[v] \in S /\ f[v] \in Nat /\ \A y \in S : f[v] >= y
  BY <1>2, <1>3
<1> HIDE DEF S
<1>5. Max(S) \in S /\ \A y \in S : Max(S) >= y
  BY <1>4 DEF Max
<1>6. MaxFrames = Max(S)
  BY DEF MaxFrames, S
<1>7. MaxFrames \in S /\ w["client"] + w["server"] \in S /\ MaxFrames >= w["client"] + w["server"]
  BY <1>5, <1>6 DEF S
<1>8. MaxFrames \in Nat
  BY <1>1, <1>7 DEF S
<1>9. QED
  BY <1>1, <1>7, <1>8

\* Queue q holds at most n elements of S.
Fits(q, S, n) == q \in Seq(S) /\ Len(q) <= n

LEMMA FitsAppend ==
    ASSUME NEW S, NEW n \in Nat, NEW q, Fits(q, S, n), NEW x \in S, Len(q) < n
    PROVE  Fits(Append(q, x), S, n)
BY AppendProperties DEF Fits

LEMMA FitsTail ==
    ASSUME NEW S, NEW n \in Nat, NEW q, Fits(q, S, n), q # <<>>
    PROVE  Head(q) \in S /\ Fits(Tail(q), S, n)
<1>1. /\ Head(q) \in S /\ Tail(q) \in Seq(S) /\ Len(Tail(q)) = Len(q) - 1 /\ Len(q) \in Nat
  BY HeadTailProperties, EmptySeq DEF Fits
<1>2. QED
  BY <1>1 DEF Fits

BoundedCommands == [frame : Frames, then : {"none", "pend", "register"}]

BoundOk(p) ==
    /\ Fits(wire[p], Frames, WireCap) /\ Fits(frameQ[p], Frames, FrameCap)
    /\ Fits(cmdQ[p], BoundedCommands, CmdCap) /\ run[p] \in BoundedCommands \cup {Idle}
    /\ \A s \in Streams : Fits(outQ[p][s], Frames, OutCap)

BInv == chunks \in Workloads /\ \A p \in Peers : BoundOk(p)

LEMMA Caps == {Window, Batch, OutCap, CmdCap, FrameCap, WireCap, EventCap} \subseteq Nat
BY TunnelAssumption

\* What bounds the amounts: no more is written than there is to write.
LEMMA AmountsBounded ==
    ASSUME IInv, CInv, BInv
    PROVE  /\ MaxFrames \in Nat
           /\ \A p \in Peers, s \in Streams :
                /\ wrote[p][s] \in 0..MaxFrames /\ outstanding[p][s] \in 0..MaxFrames
                /\ got[p][s] \in 0..MaxFrames /\ readBy[p][s] \in 0..MaxFrames
                /\ owed[p][s] \in 0..MaxFrames /\ owed[p][s] <= readBy[p][s]
                /\ chunks[p] \in 0..MaxFrames
<1>1. MaxFrames \in Nat /\ \A p \in Peers : chunks[p] \in Nat /\ chunks[p] <= MaxFrames
  BY MaxFramesBounds DEF BInv, IInv, EndsTyped, Peers
<1>2. ASSUME NEW p \in Peers, NEW s \in Streams
      PROVE  /\ wrote[p][s] \in 0..MaxFrames /\ outstanding[p][s] \in 0..MaxFrames
             /\ got[Other(p)][s] \in 0..MaxFrames /\ readBy[Other(p)][s] \in 0..MaxFrames
             /\ owed[Other(p)][s] \in 0..MaxFrames
             /\ owed[Other(p)][s] <= readBy[Other(p)][s]
  <2>1. CreditInv(p, s) /\ DataInv(p, s)
    BY ThePeers DEF IInv, StreamInv, CInv, Peers
  <2>2. /\ wrote[p][s] \in Nat /\ got[Other(p)][s] \in Nat /\ got[Other(p)][s] <= wrote[p][s]
        /\ wrote[p][s] <= chunks[p]
    BY <2>1 DEF DataInv, DataOk
  <2>3. /\ readBy[Other(p)][s] \in Nat /\ owed[Other(p)][s] \in Nat /\ outstanding[p][s] \in Nat
        /\ readBy[Other(p)][s] <= got[Other(p)][s] /\ owed[Other(p)][s] <= readBy[Other(p)][s]
        /\ outstanding[p][s] <= wrote[p][s]
    BY <2>1, <2>2 DEF CreditInv, CreditOk, Mid
  <2>4. chunks[p] \in Nat /\ chunks[p] <= MaxFrames
    BY <1>1
  <2>5. QED
    BY <1>1, <2>2, <2>3, <2>4
<1>3. ASSUME NEW p \in Peers, NEW s \in Streams
      PROVE  /\ wrote[p][s] \in 0..MaxFrames /\ outstanding[p][s] \in 0..MaxFrames
             /\ got[p][s] \in 0..MaxFrames /\ readBy[p][s] \in 0..MaxFrames
             /\ owed[p][s] \in 0..MaxFrames /\ owed[p][s] <= readBy[p][s]
             /\ chunks[p] \in 0..MaxFrames
  <2>1. Other(p) \in Peers /\ Other(Other(p)) = p
    BY OtherPeer
  <2>2. /\ got[p][s] \in 0..MaxFrames /\ readBy[p][s] \in 0..MaxFrames
        /\ owed[p][s] \in 0..MaxFrames /\ owed[p][s] <= readBy[p][s]
    BY <1>2, <2>1
  <2>3. chunks[p] \in 0..MaxFrames
    BY <1>1
  <2>4. QED
    BY <1>2, <2>2, <2>3
<1>4. QED
  BY <1>1, <1>3

LEMMA FrameBounded ==
    ASSUME NEW t \in FrameTypes, NEW s \in Streams, NEW n \in 0..(MaxFrames + 1)
    PROVE  Frame(t, s, n) \in Frames
BY DEF Frame, Frames

\* A step that puts one frame in p's command queue.
LEMMA CommandBound ==
    ASSUME QueueInv, BInv, NEW p \in Peers, NEW f \in Frames,
           NEW next \in {"none", "pend", "register"}, Command(p, f, next),
           UNCHANGED <<chunks, run, frameQ, wire, outQ>>
    PROVE  BInv'
<1> DEFINE x == Sending(f, next)
<1>1. x \in BoundedCommands
  BY DEF Sending, BoundedCommands
<1>2. /\ cmdQ' = [cmdQ EXCEPT ![p] = Append(@, x)] /\ Len(cmdQ[p]) < CmdCap /\ DOMAIN cmdQ = Peers
  BY DEF Command, QueueInv
<1> HIDE DEF x
<1>3. cmdQ'[p] = Append(cmdQ[p], x) /\ \A q \in Peers : q # p => cmdQ'[q] = cmdQ[q]
  BY <1>2
<1>4. Fits(Append(cmdQ[p], x), BoundedCommands, CmdCap)
  BY <1>1, <1>2, Caps, FitsAppend DEF BInv, BoundOk
<1>5. QED
  BY <1>3, <1>4 DEF BInv, BoundOk

\* handle_frame takes a frame off the wire, and may take an answer in hand.
LEMMA TakenBound ==
    ASSUME QueueInv, BInv, NEW p \in Peers, NEW r \in BoundedCommands \cup {Idle}, TakenOff(p, r),
           chunks' = chunks
    PROVE  BInv'
<1>1. /\ wire'[Other(p)] = Tail(wire[Other(p)]) /\ wire[Other(p)] # <<>>
      /\ \A q \in Peers : q # Other(p) => wire'[q] = wire[q]
      /\ \A q \in Peers : run'[q] = IF q = p THEN r ELSE run[q]
      /\ UNCHANGED <<cmdQ, frameQ, outQ>>
  BY OtherPeer DEF TakenOff, QueueInv
<1>2. Fits(Tail(wire[Other(p)]), Frames, WireCap)
  BY <1>1, Caps, OtherPeer, FitsTail DEF BInv, BoundOk
<1>3. QED
  BY <1>1, <1>2 DEF BInv, BoundOk

LEMMA CallBound ==
    ASSUME IInv, CInv, BInv, NEW s \in Streams,
           \/ Authenticate(s, "good") \/ Authenticate(s, "bad") \/ AuthenticateFails(s)
           \/ OpenSession(s) \/ OpenFails(s) \/ TakeEvent(s) \/ ReplyOpen(s)
    PROVE  BInv'
<1>1. MaxFrames \in Nat /\ QueueInv
  BY AmountsBounded DEF IInv
<1>2. /\ 0 \in 0..(MaxFrames + 1) /\ STATUS_OK \in 0..(MaxFrames + 1)
      /\ STATUS_ERR \in 0..(MaxFrames + 1)
  BY <1>1 DEF STATUS_OK, STATUS_ERR
<1>3. {"open", "ack", "authRequest"} \subseteq FrameTypes
  BY DEF FrameTypes
<1>4. /\ Frame("open", s, 0) \in Frames
      /\ \A n \in {STATUS_OK, STATUS_ERR} :
           Frame("ack", s, n) \in Frames /\ Frame("authRequest", s, n) \in Frames
  BY <1>2, <1>3, FrameBounded
<1>5. CASE Authenticate(s, "good") \/ Authenticate(s, "bad")
  <2>1. PICK n \in {STATUS_OK, STATUS_ERR} : Command("client", Frame("authRequest", s, n), "none")
    BY <1>5 DEF Authenticate
  <2>2. UNCHANGED <<chunks, run, frameQ, wire, outQ>>
    BY <1>5 DEF Authenticate, pumpVars
  <2>3. QED
    BY <1>1, <1>4, <2>1, <2>2, ThePeers, CommandBound
<1>6. CASE AuthenticateFails(s) \/ OpenFails(s) \/ TakeEvent(s)
  BY <1>6 DEF AuthenticateFails, OpenFails, TakeEvent, vars, queueVars, pumpVars, BInv, BoundOk
<1>7. CASE OpenSession(s)
  <2>1. /\ Command("client", Frame("open", s, 0), "pend")
        /\ UNCHANGED <<chunks, run, frameQ, wire, outQ>>
    BY <1>7 DEF OpenSession, OpenStream, pumpVars
  <2>2. QED
    BY <1>1, <1>4, <2>1, ThePeers, CommandBound
<1>8. CASE ReplyOpen(s)
  <2>1. PICK n \in {STATUS_OK, STATUS_ERR}, next \in {"none", "register"} :
          Command("server", Frame("ack", s, n), next)
    BY <1>8 DEF ReplyOpen
  <2>2. UNCHANGED <<chunks, run, frameQ, wire, outQ>>
    BY <1>8 DEF ReplyOpen, pumpVars
  <2>3. QED
    BY <1>1, <1>4, <2>1, <2>2, ThePeers, CommandBound
<1>9. QED
  BY <1>5, <1>6, <1>7, <1>8

LEMMA StreamStepBound ==
    ASSUME IInv, CInv, BInv, NEW p \in Peers, NEW s \in Streams, StreamStep(p, s)
    PROVE  BInv'
<1>1. /\ QueueInv /\ MaxFrames \in Nat
      /\ DOMAIN outQ = Peers /\ \A q \in Peers : DOMAIN outQ[q] = Streams
  BY AmountsBounded, Caps DEF IInv, QueueInv
<1>2. Fits(outQ[p][s], Frames, OutCap)
  BY DEF BInv, BoundOk
<1>3. /\ wrote[p][s] \in 0..MaxFrames /\ chunks[p] \in 0..MaxFrames /\ owed[p][s] \in 0..MaxFrames
  BY AmountsBounded
\* A step that changes the stream's queue only.
<1>4. ASSUME NEW q, Fits(q, Frames, OutCap), outQ' = [outQ EXCEPT ![p][s] = q],
             UNCHANGED <<chunks, run, frameQ, wire, cmdQ>>
      PROVE  BInv'
  <2>1. /\ outQ'[p][s] = q
        /\ \A o \in Peers, t \in Streams : (o # p \/ t # s) => outQ'[o][t] = outQ[o][t]
    BY <1>1, <1>4
  <2>2. \A o \in Peers, t \in Streams : Fits(outQ'[o][t], Frames, OutCap)
    BY <1>4, <2>1 DEF BInv, BoundOk
  <2>3. QED
    BY <1>4, <2>2 DEF BInv, BoundOk
<1>5. CASE PumpData(p, s)
  <2> DEFINE f == Frame("data", s, wrote[p][s] + 1)
  <2>1. /\ outQ' = [outQ EXCEPT ![p][s] = Append(@, f)] /\ Len(outQ[p][s]) < OutCap
        /\ UNCHANGED <<chunks, run, frameQ, wire, cmdQ>>
    BY <1>5 DEF PumpData, queueVars
  <2>2. f \in Frames
    <3>1. wrote[p][s] + 1 \in 0..(MaxFrames + 1) /\ "data" \in FrameTypes
      BY <1>1, <1>3 DEF FrameTypes
    <3>2. QED
      BY <3>1, FrameBounded
  <2> HIDE DEF f
  <2>3. Fits(Append(outQ[p][s], f), Frames, OutCap)
    BY <1>2, <2>1, <2>2, Caps, FitsAppend
  <2>4. QED
    BY <1>4, <2>1, <2>3
<1>6. CASE ForwardData(p, s)
  <2>1. /\ outQ[p][s] # <<>> /\ Command(p, Head(outQ[p][s]), "none")
        /\ outQ' = [outQ EXCEPT ![p][s] = Tail(@)]
        /\ UNCHANGED <<chunks, run, frameQ, wire>>
    BY <1>6 DEF ForwardData
  <2>2. Head(outQ[p][s]) \in Frames /\ Fits(Tail(outQ[p][s]), Frames, OutCap)
    BY <1>2, <2>1, Caps, FitsTail
  <2> DEFINE x == Sending(Head(outQ[p][s]), "none")
  <2>3. x \in BoundedCommands
    BY <2>2 DEF Sending, BoundedCommands
  <2>4. /\ cmdQ' = [cmdQ EXCEPT ![p] = Append(@, x)] /\ Len(cmdQ[p]) < CmdCap /\ DOMAIN cmdQ = Peers
    BY <1>1, <2>1 DEF Command, QueueInv
  <2> HIDE DEF x
  <2>5. cmdQ'[p] = Append(cmdQ[p], x) /\ \A q \in Peers : q # p => cmdQ'[q] = cmdQ[q]
    BY <2>4
  <2>6. Fits(Append(cmdQ[p], x), BoundedCommands, CmdCap)
    BY <2>3, <2>4, Caps, FitsAppend DEF BInv, BoundOk
  <2>7. /\ outQ'[p][s] = Tail(outQ[p][s])
        /\ \A o \in Peers, t \in Streams : (o # p \/ t # s) => outQ'[o][t] = outQ[o][t]
    BY <1>1, <2>1
  <2>8. \A o \in Peers, t \in Streams : Fits(outQ'[o][t], Frames, OutCap)
    BY <2>2, <2>7 DEF BInv, BoundOk
  <2>9. QED
    BY <2>1, <2>5, <2>6, <2>8 DEF BInv, BoundOk
<1>7. CASE PumpCount(p, s) \/ PumpEof(p, s)
  BY <1>7 DEF PumpCount, PumpEof, queueVars, BInv, BoundOk
<1>8. CASE PumpClose(p, s)
  <2>1. Command(p, Frame("close", s, 0), "none") /\ UNCHANGED <<chunks, run, frameQ, wire, outQ>>
    BY <1>8 DEF PumpClose
  <2>2. 0 \in 0..(MaxFrames + 1) /\ "close" \in FrameTypes
    BY <1>1 DEF FrameTypes
  <2>3. QED
    BY <1>1, <2>1, <2>2, FrameBounded, CommandBound
<1>9. CASE PumpStops(p, s)
  <2>1. outQ' = [outQ EXCEPT ![p][s] = <<>>] /\ UNCHANGED <<chunks, run, frameQ, wire, cmdQ>>
    BY <1>9 DEF PumpStops, queueVars
  <2>2. <<>> \in Seq(Frames) /\ Len(<<>>) = 0 /\ OutCap \in Nat
    BY Caps, EmptySeq
  <2>3. Fits(<<>>, Frames, OutCap)
    BY <2>2 DEF Fits
  <2>4. QED
    BY <1>4, <2>1, <2>3
<1>10. CASE AppRead(p, s)
  <2>1. UNCHANGED <<chunks, run, frameQ, wire, outQ>>
    BY <1>10 DEF AppRead, pumpVars
  <2>2. CASE cmdQ' = cmdQ
    BY <2>1, <2>2 DEF BInv, BoundOk
  <2>3. CASE Command(p, Frame("credit", s, owed[p][s] + 1), "none")
    <3>1. owed[p][s] + 1 \in 0..(MaxFrames + 1) /\ "credit" \in FrameTypes
      BY <1>1, <1>3 DEF FrameTypes
    <3>2. QED
      BY <1>1, <2>1, <2>3, <3>1, FrameBounded, CommandBound
  <2>4. QED
    BY <1>10, <2>2, <2>3 DEF AppRead
<1>11. QED
  BY <1>5, <1>6, <1>7, <1>8, <1>9, <1>10 DEF StreamStep

LEMMA RunStepBound ==
    ASSUME IInv, CInv, BInv, NEW p \in Peers, TakeCmd(p) \/ SendFrame(p) \/ Write(p)
    PROVE  BInv'
<1>1. /\ DOMAIN cmdQ = Peers /\ DOMAIN run = Peers /\ DOMAIN frameQ = Peers /\ DOMAIN wire = Peers
      /\ BoundOk(p)
  BY DEF IInv, QueueInv, BInv
<1>2. CASE TakeCmd(p)
  <2>1. /\ run'[p] = Head(cmdQ[p]) /\ cmdQ'[p] = Tail(cmdQ[p]) /\ cmdQ[p] # <<>>
        /\ \A q \in Peers : q # p => run'[q] = run[q] /\ cmdQ'[q] = cmdQ[q]
        /\ UNCHANGED <<chunks, frameQ, wire, outQ>>
    BY <1>1, <1>2 DEF TakeCmd, pumpVars
  <2>2. Head(cmdQ[p]) \in BoundedCommands /\ Fits(Tail(cmdQ[p]), BoundedCommands, CmdCap)
    BY <1>1, <2>1, Caps, FitsTail DEF BoundOk
  <2>3. QED
    BY <2>1, <2>2 DEF BInv, BoundOk
<1>3. CASE SendFrame(p)
  <2>1. /\ run'[p] = Idle /\ frameQ'[p] = Append(frameQ[p], run[p].frame) /\ run[p] # Idle
        /\ Len(frameQ[p]) < FrameCap
        /\ \A q \in Peers : q # p => run'[q] = run[q] /\ frameQ'[q] = frameQ[q]
        /\ UNCHANGED <<chunks, cmdQ, wire, outQ>>
    BY <1>1, <1>3 DEF SendFrame
  <2>2. run[p].frame \in Frames
    BY <1>1, <2>1 DEF BoundOk, BoundedCommands
  <2>3. Fits(Append(frameQ[p], run[p].frame), Frames, FrameCap)
    BY <1>1, <2>1, <2>2, Caps, FitsAppend DEF BoundOk
  <2>4. QED
    BY <2>1, <2>3 DEF BInv, BoundOk
<1>4. CASE Write(p)
  <2>1. /\ wire'[p] = Append(wire[p], Head(frameQ[p])) /\ frameQ'[p] = Tail(frameQ[p])
        /\ frameQ[p] # <<>> /\ Len(wire[p]) < WireCap
        /\ \A q \in Peers : q # p => wire'[q] = wire[q] /\ frameQ'[q] = frameQ[q]
        /\ UNCHANGED <<chunks, cmdQ, run, outQ>>
    BY <1>1, <1>4 DEF Write, pumpVars
  <2>2. Head(frameQ[p]) \in Frames /\ Fits(Tail(frameQ[p]), Frames, FrameCap)
    BY <1>1, <2>1, Caps, FitsTail DEF BoundOk
  <2>3. Fits(Append(wire[p], Head(frameQ[p])), Frames, WireCap)
    BY <1>1, <2>1, <2>2, Caps, FitsAppend DEF BoundOk
  <2>4. QED
    BY <2>1, <2>2, <2>3 DEF BInv, BoundOk
<1>5. QED
  BY <1>2, <1>3, <1>4

LEMMA HandleBound ==
    ASSUME IInv, CInv, BInv, NEW p \in Peers, HandleOther(p) \/ HandleSessions(p)
    PROVE  BInv'
<1>1. QueueInv /\ MaxFrames \in Nat
  BY AmountsBounded DEF IInv
<1>2. CASE HandleOther(p)
  <2>1. TakenOff(p, Idle) /\ chunks' = chunks
    BY <1>1, <1>2 DEF HandleOther, HandleFrame, TakenOff, QueueInv
  <2>2. QED
    BY <1>1, <2>1, TakenBound
<1>3. ASSUME NEW f \in Frames, HandleAuthResponse(f) PROVE BInv'
  <2>1. TakenOff("client", Idle) /\ chunks' = chunks
    BY <1>1, <1>3 DEF HandleAuthResponse, Takes, TakenOff, pumpVars, QueueInv
  <2>2. QED
    BY <1>1, <2>1, ThePeers, TakenBound
<1>4. ASSUME NEW f \in Frames, HandleAuthRequest(f) PROVE BInv'
  <2> DEFINE r == Sending(Frame("authResponse", f.id, f.n), "none")
  <2>1. TakenOff("server", r) /\ chunks' = chunks
    BY <1>1, <1>4 DEF HandleAuthRequest, Takes, TakenOff, pumpVars, QueueInv
  <2>2. r \in BoundedCommands
    <3>1. f.id \in Streams /\ f.n \in 0..(MaxFrames + 1) /\ "authResponse" \in FrameTypes
      BY DEF Frames, FrameTypes
    <3>2. QED
      BY <3>1, FrameBounded DEF Sending, BoundedCommands
  <2> HIDE DEF r
  <2>3. QED
    BY <1>1, <2>1, <2>2, ThePeers, TakenBound
<1>5. ASSUME NEW f \in Frames, RefuseOpen(f) PROVE BInv'
  <2> DEFINE r == Sending(Frame("ack", f.id, STATUS_ERR), "none")
  <2>1. TakenOff("server", r) /\ chunks' = chunks
    BY <1>1, <1>5 DEF RefuseOpen, Takes, TakenOff, pumpVars, QueueInv
  <2>2. r \in BoundedCommands
    <3>1. f.id \in Streams /\ STATUS_ERR \in 0..(MaxFrames + 1) /\ "ack" \in FrameTypes
      BY <1>1 DEF Frames, FrameTypes, STATUS_ERR
    <3>2. QED
      BY <3>1, FrameBounded DEF Sending, BoundedCommands
  <2> HIDE DEF r
  <2>3. QED
    BY <1>1, <2>1, <2>2, ThePeers, TakenBound
<1>6. CASE HandleSessions(p)
  <2>1. wire[Other(p)] # <<>> /\ Fits(wire[Other(p)], Frames, WireCap)
    BY <1>6, OtherPeer DEF HandleSessions, BInv, BoundOk
  <2>2. PICK f \in Frames : f = Head(wire[Other(p)])
    BY <2>1, Caps, FitsTail
  <2>3. HandleAuthRequest(f) \/ RefuseOpen(f) \/ HandleAuthResponse(f)
    BY <1>6, <2>2 DEF HandleSessions
  <2>4. QED
    BY <1>3, <1>4, <1>5, <2>3
<1>7. QED
  BY <1>2, <1>6

LEMMA DatagramBound ==
    ASSUME IInv, CInv, BInv, NEW p \in Peers,
           TakeDatagram(p) \/ \E s \in Streams : SendDatagram(p, s)
    PROVE  BInv'
<1>1. CASE TakeDatagram(p)
  BY <1>1 DEF TakeDatagram, queueVars, pumpVars, BInv, BoundOk
<1>2. ASSUME NEW s \in Streams, SendDatagram(p, s) PROVE BInv'
  <2>1. Command(p, Frame("datagram", s, 0), "none") /\ UNCHANGED <<chunks, run, frameQ, wire, outQ>>
    BY <1>2 DEF SendDatagram, pumpVars
  <2>2. QueueInv /\ 0 \in 0..(MaxFrames + 1) /\ "datagram" \in FrameTypes
    BY AmountsBounded DEF IInv, FrameTypes
  <2>3. QED
    BY <2>1, <2>2, FrameBounded, CommandBound
<1>3. QED
  BY <1>1, <1>2

LEMMA EndRunBound ==
    ASSUME IInv, BInv, NEW p \in Peers, EndRun(p)
    PROVE  BInv'
<1>1. /\ wire'[p] = wire[p] /\ wire'[Other(p)] = <<>>
      /\ run'[p] = Idle /\ cmdQ'[p] = <<>>
      /\ \A q \in Peers : q # p => run'[q] = run[q] /\ cmdQ'[q] = cmdQ[q] /\ q = Other(p)
      /\ UNCHANGED <<chunks, frameQ, outQ>>
  BY OtherPeer, ThePeers DEF EndRun, IInv, QueueInv, pumpVars
<1>2. Fits(<<>>, Frames, WireCap) /\ Fits(<<>>, BoundedCommands, CmdCap)
  BY Caps, EmptySeq DEF Fits
<1>3. QED
  BY <1>1, <1>2, ThePeers DEF BInv, BoundOk

LEMMA BoundInit == MuxInit => BInv
<1> SUFFICES ASSUME MuxInit PROVE BInv
  OBVIOUS
<1>1. /\ chunks \in Workloads /\ outQ = PerStream(<<>>)
      /\ cmdQ = [p \in Peers |-> <<>>] /\ run = [p \in Peers |-> Idle]
      /\ frameQ = [p \in Peers |-> <<>>] /\ wire = [p \in Peers |-> <<>>]
  BY DEF MuxInit, Init
<1>2. /\ Fits(<<>>, Frames, WireCap) /\ Fits(<<>>, Frames, FrameCap) /\ Fits(<<>>, Frames, OutCap)
      /\ Fits(<<>>, BoundedCommands, CmdCap)
  BY Caps, EmptySeq DEF Fits
<1>3. \A p \in Peers, s \in Streams : outQ[p][s] = <<>>
  BY <1>1 DEF PerStream
<1>4. QED
  BY <1>1, <1>2, <1>3 DEF BInv, BoundOk

LEMMA BoundStepKeeps == IInv /\ CInv /\ BInv /\ [MuxNext]_muxTunnelVars => BInv'
<1> SUFFICES ASSUME IInv, CInv, BInv, [MuxNext]_muxTunnelVars PROVE BInv'
  OBVIOUS
<1>1. ASSUME NEW s \in Streams,
             \/ Authenticate(s, "good") \/ Authenticate(s, "bad") \/ AuthenticateFails(s)
             \/ OpenSession(s) \/ OpenFails(s) \/ TakeEvent(s) \/ ReplyOpen(s)
      PROVE BInv'
  BY <1>1, CallBound
<1>2. ASSUME NEW p \in Peers, TakeCmd(p) \/ SendFrame(p) \/ Write(p) PROVE BInv'
  BY <1>2, RunStepBound
<1>3. ASSUME NEW p \in Peers, NoticeLoss(p) \/ LoseConnection(p) PROVE BInv'
  BY <1>3, EndRunBound DEF NoticeLoss, LoseConnection
<1>4. ASSUME NEW p \in Peers, HandleOther(p) \/ HandleSessions(p) PROVE BInv'
  BY <1>4, HandleBound
<1>5. ASSUME NEW p \in Peers, NEW s \in Streams, StreamStep(p, s) PROVE BInv'
  BY <1>5, StreamStepBound
<1>6. CASE UNCHANGED muxTunnelVars
  BY <1>6 DEF muxTunnelVars, vars, BInv, BoundOk
<1>7. ASSUME NEW p \in Peers, TakeDatagram(p) \/ \E s \in Streams : SendDatagram(p, s) PROVE BInv'
  BY <1>7, DatagramBound
<1>8. QED
  BY <1>1, <1>2, <1>3, <1>4, <1>5, <1>6, <1>7 DEF MuxNext, MuxRunStep

----------------------------------------------------------------------------
(* The event queue. *)

Opens(a) == {s \in Streams : a[s] = "event"}

EventInv ==
    /\ chunks \in Workloads
    /\ datagrams \in [Peers -> Nat] /\ inbox \in [Peers -> Nat]
    /\ \A p \in Peers : datagrams[p] <= Datagrams[chunks][p]
    /\ inbox["client"] <= EventCap + 1
    /\ inbox["server"] + Cardinality(Opens(acceptor)) <= EventCap + 1

LEMMA OpensFinite ==
    ASSUME NEW a
    PROVE  IsFiniteSet(Opens(a)) /\ Cardinality(Opens(a)) \in Nat
BY FS_Subset, FS_CardinalityType, TunnelAssumption DEF Opens

\* Fewer opens wait, or as many.
LEMMA OpensFewer ==
    ASSUME NEW a, NEW b, Opens(b) \subseteq Opens(a)
    PROVE  Cardinality(Opens(b)) <= Cardinality(Opens(a))
BY OpensFinite, FS_Subset

\* One more at most.
LEMMA OpensGrow ==
    ASSUME NEW a, NEW b, NEW s, Opens(b) \subseteq Opens(a) \cup {s}
    PROVE  Cardinality(Opens(b)) <= Cardinality(Opens(a)) + 1
<1>0. IsFiniteSet(Opens(a)) /\ Cardinality(Opens(a)) \in Nat
  BY OpensFinite
<1>1. /\ IsFiniteSet(Opens(a) \cup {s})
      /\ Cardinality(Opens(a) \cup {s}) <= Cardinality(Opens(a)) + 1
      /\ Cardinality(Opens(a) \cup {s}) \in Nat
  <2>1. /\ IsFiniteSet(Opens(a) \cup {s})
        /\ \/ Cardinality(Opens(a) \cup {s}) = Cardinality(Opens(a))
           \/ Cardinality(Opens(a) \cup {s}) = Cardinality(Opens(a)) + 1
    BY <1>0, FS_AddElement
  <2>2. QED
    BY <1>0, <2>1
<1>2. Cardinality(Opens(b)) <= Cardinality(Opens(a) \cup {s})
  BY <1>1, FS_Subset
<1>3. QED
  BY <1>1, <1>2, OpensFinite

\* A step that puts nothing in the event queue.
LEMMA EventsStay ==
    ASSUME EventInv, UNCHANGED <<chunks, dgramVars>>, Opens(acceptor') \subseteq Opens(acceptor)
    PROVE  EventInv'
<1>1. Cardinality(Opens(acceptor')) <= Cardinality(Opens(acceptor))
  BY OpensFewer
<1>2. Cardinality(Opens(acceptor')) \in Nat /\ Cardinality(Opens(acceptor)) \in Nat
  BY OpensFinite
<1>3. EventCap \in Nat
  BY Caps
<1>4. inbox["server"] \in Nat
  BY ThePeers DEF EventInv
<1>5. inbox["server"] + Cardinality(Opens(acceptor')) <= EventCap + 1
  BY <1>1, <1>2, <1>3, <1>4 DEF EventInv
<1>6. QED
  BY <1>5 DEF EventInv, dgramVars

LEMMA NotWaiting ==
    ASSUME EventInv, NEW p \in Peers, ~Waiting(p)
    PROVE  /\ p = "client" => inbox["client"] <= EventCap
           /\ p = "server" => inbox["server"] + Cardinality(Opens(acceptor)) <= EventCap
<1>1. /\ EventCap \in Nat /\ inbox["client"] \in Nat /\ inbox["server"] \in Nat
      /\ Cardinality(Opens(acceptor)) \in Nat
  BY Caps, OpensFinite, ThePeers DEF EventInv
<1>2. CASE p = "client"
  <2>1. Events(p) = inbox["client"] + 0
    BY <1>2 DEF Events
  <2>2. QED
    BY <1>1, <1>2, <2>1 DEF Waiting
<1>3. CASE p = "server"
  <2>1. Events(p) = inbox["server"] + Cardinality(Opens(acceptor))
    BY <1>3 DEF Events, Opens
  <2>2. QED
    BY <1>1, <1>3, <2>1 DEF Waiting
<1>4. QED
  BY <1>2, <1>3, ThePeers

LEMMA HandleEvents ==
    ASSUME IInv, EventInv, NEW p \in Peers, HandleFrame(p)
    PROVE  EventInv'
<1> DEFINE f == Head(wire[Other(p)])
<1>1. chunks' = chunks /\ datagrams' = datagrams /\ ~Waiting(p)
  BY DEF HandleFrame
<1>2. CASE f.type = "open" /\ HandleOpen(p, f.id)
  <2>1. inbox' = inbox /\ acceptor' = [acceptor EXCEPT ![f.id] = "event"]
    BY <1>2 DEF HandleOpen
  <2>2. p = "server"
    <3>1. wire[Other(p)] \in Seq(FramesOf(Other(p))) /\ wire[Other(p)] # <<>>
      BY OtherPeer DEF IInv, QueueInv, QueueTypes, HandleFrame
    <3>2. f \in FramesOf(Other(p))
      BY <3>1
    <3>3. QED
      BY <1>2, <3>2 DEF FramesOf, Peers, Other
  <2>3. Opens(acceptor') \subseteq Opens(acceptor) \cup {f.id}
    BY <2>1 DEF Opens, IInv, EndsTyped
  <2>4. Cardinality(Opens(acceptor')) <= Cardinality(Opens(acceptor)) + 1
    BY <2>3, OpensGrow
  <2>5. inbox["server"] + Cardinality(Opens(acceptor)) <= EventCap
    BY <1>1, <2>2, NotWaiting
  <2>6. /\ Cardinality(Opens(acceptor')) \in Nat /\ Cardinality(Opens(acceptor)) \in Nat
        /\ EventCap \in Nat /\ inbox["server"] \in Nat
    BY OpensFinite, Caps, ThePeers DEF EventInv
  <2>7. inbox["server"] + Cardinality(Opens(acceptor')) <= EventCap + 1
    BY <2>4, <2>5, <2>6
  <2>8. QED
    BY <1>1, <2>1, <2>7 DEF EventInv
<1>3. CASE f.type = "datagram" /\ HandleDatagram(p)
  <2>1. inbox' = [inbox EXCEPT ![p] = @ + 1] /\ acceptor' = acceptor
    BY <1>3 DEF HandleDatagram, openVars
  <2>2. /\ inbox'[p] = inbox[p] + 1 /\ inbox[p] \in Nat
        /\ \A q \in Peers : q # p => inbox'[q] = inbox[q]
    BY <2>1 DEF EventInv
  <2>3. inbox' \in [Peers -> Nat]
    <3>1. inbox[p] + 1 \in Nat
      BY <2>2
    <3>2. QED
      BY <2>1, <3>1 DEF EventInv
  <2>4. EventCap \in Nat /\ Cardinality(Opens(acceptor)) \in Nat
    BY OpensFinite, Caps
  <2>5. CASE p = "client"
    <3>1. inbox'["client"] <= EventCap + 1 /\ inbox'["server"] = inbox["server"]
      BY <1>1, <2>2, <2>4, <2>5, ThePeers, NotWaiting
    <3>2. QED
      BY <1>1, <2>1, <2>3, <3>1 DEF EventInv
  <2>6. CASE p = "server"
    <3>1. /\ inbox'["server"] + Cardinality(Opens(acceptor)) <= EventCap + 1
          /\ inbox'["client"] = inbox["client"]
      BY <1>1, <2>2, <2>4, <2>6, ThePeers, NotWaiting
    <3>2. QED
      BY <1>1, <2>1, <2>3, <3>1 DEF EventInv
  <2>7. QED
    BY <2>5, <2>6, ThePeers
<1>4. CASE \/ HandleAck(p, f.id, f.n) \/ HandleData(p, f.id) \/ HandleCredit(p, f.id, f.n)
           \/ HandleClose(p, f.id)
  <2>1. acceptor' = acceptor /\ inbox' = inbox
    BY <1>4 DEF HandleAck, HandleData, HandleCredit, HandleClose, openVars
  <2>2. QED
    BY <1>1, <2>1, EventsStay DEF dgramVars
<1>5. QED
  BY <1>2, <1>3, <1>4 DEF HandleFrame

LEMMA DatagramEvents ==
    ASSUME EventInv, NEW p \in Peers, TakeDatagram(p) \/ \E s \in Streams : SendDatagram(p, s)
    PROVE  EventInv'
<1>1. EventCap \in Nat /\ Cardinality(Opens(acceptor)) \in Nat
  BY OpensFinite, Caps
<1>2. CASE TakeDatagram(p)
  <2>1. /\ UNCHANGED <<chunks, acceptor, datagrams>>
        /\ inbox[p] > 0 /\ inbox' = [inbox EXCEPT ![p] = @ - 1]
    BY <1>2 DEF TakeDatagram, openVars
  <2>2. inbox[p] - 1 \in Nat /\ inbox[p] \in Nat /\ inbox \in [Peers -> Nat]
    BY <2>1 DEF EventInv
  <2>3. inbox' \in [Peers -> Nat] /\ \A q \in Peers : inbox'[q] <= inbox[q]
    BY <2>1, <2>2
  <2>4. /\ inbox'["client"] <= EventCap + 1
        /\ inbox'["server"] + Cardinality(Opens(acceptor)) <= EventCap + 1
    BY <1>1, <2>2, <2>3, ThePeers DEF EventInv
  <2>5. QED
    BY <2>1, <2>3, <2>4 DEF EventInv
<1>3. ASSUME NEW s \in Streams, SendDatagram(p, s) PROVE EventInv'
  <2>1. /\ UNCHANGED <<chunks, acceptor, inbox>>
        /\ datagrams[p] < Datagrams[chunks][p] /\ datagrams' = [datagrams EXCEPT ![p] = @ + 1]
    BY <1>3 DEF SendDatagram, openVars
  <2>2. datagrams[p] + 1 \in Nat /\ datagrams[p] \in Nat /\ Datagrams[chunks][p] \in Nat
    BY TunnelAssumption DEF EventInv
  <2>3. datagrams' \in [Peers -> Nat] /\ \A q \in Peers : datagrams'[q] <= Datagrams[chunks][q]
    BY <2>1, <2>2 DEF EventInv
  <2>4. QED
    BY <2>1, <2>3 DEF EventInv
<1>4. QED
  BY <1>2, <1>3

LEMMA EventInit == MuxInit => EventInv
<1> SUFFICES ASSUME MuxInit PROVE EventInv
  OBVIOUS
<1>1. /\ chunks \in Workloads /\ datagrams = [p \in Peers |-> 0] /\ inbox = [p \in Peers |-> 0]
      /\ acceptor = [s \in Streams |-> "none"]
  BY DEF MuxInit, Init
<1>2. Opens(acceptor) = {}
  BY <1>1 DEF Opens
<1>3. Cardinality(Opens(acceptor)) = 0
  BY <1>2, FS_EmptySet
<1>4. EventCap \in Nat /\ \A p \in Peers : Datagrams[chunks][p] \in Nat
  BY <1>1, Caps, TunnelAssumption
<1>5. QED
  BY <1>1, <1>3, <1>4, ThePeers DEF EventInv

LEMMA EventStepKeeps == IInv /\ EventInv /\ [MuxNext]_muxTunnelVars => EventInv'
<1> SUFFICES ASSUME IInv, EventInv, [MuxNext]_muxTunnelVars PROVE EventInv'
  OBVIOUS
<1>0. acceptor \in [Streams -> {"none", "event", "taken", "accepted", "refused", "barred"}]
  BY DEF IInv, EndsTyped
<1>1. ASSUME NEW s \in Streams,
             \/ Authenticate(s, "good") \/ Authenticate(s, "bad") \/ AuthenticateFails(s)
             \/ OpenSession(s) \/ OpenFails(s)
      PROVE EventInv'
  <2>1. UNCHANGED <<chunks, dgramVars, acceptor>>
    BY <1>1 DEF Authenticate, AuthenticateFails, OpenSession, OpenStream, OpenFails, vars, openVars,
                dgramVars
  <2>2. QED
    BY <2>1, EventsStay
<1>2. ASSUME NEW s \in Streams, TakeEvent(s) \/ ReplyOpen(s) PROVE EventInv'
  <2>1. UNCHANGED <<chunks, dgramVars>>
    BY <1>2 DEF TakeEvent, ReplyOpen
  <2>2. \E a \in {"taken", "accepted", "refused"} : acceptor' = [acceptor EXCEPT ![s] = a]
    BY <1>2 DEF TakeEvent, ReplyOpen
  <2>3. Opens(acceptor') \subseteq Opens(acceptor)
    BY <1>0, <2>2 DEF Opens
  <2>4. QED
    BY <2>1, <2>3, EventsStay
<1>3. ASSUME NEW p \in Peers, TakeCmd(p) \/ SendFrame(p) \/ Write(p) PROVE EventInv'
  <2>1. UNCHANGED <<chunks, dgramVars, acceptor>>
    BY <1>3 DEF TakeCmd, SendFrame, Write, openVars
  <2>2. QED
    BY <2>1, EventsStay
<1>4. ASSUME NEW p \in Peers, NoticeLoss(p) \/ LoseConnection(p) PROVE EventInv'
  <2>1. UNCHANGED <<chunks, dgramVars, acceptor>>
    BY <1>4 DEF NoticeLoss, LoseConnection, EndRun
  <2>2. QED
    BY <2>1, EventsStay
<1>5. ASSUME NEW p \in Peers, HandleOther(p) PROVE EventInv'
  BY <1>5, HandleEvents DEF HandleOther
<1>6. ASSUME NEW p \in Peers, HandleSessions(p) PROVE EventInv'
  <2>1. PICK f : HandleAuthRequest(f) \/ RefuseOpen(f) \/ HandleAuthResponse(f)
    BY <1>6 DEF HandleSessions
  <2>2. UNCHANGED <<chunks, dgramVars>>
    BY <2>1 DEF HandleAuthRequest, RefuseOpen, HandleAuthResponse, Takes
  <2>3. acceptor' = acceptor \/ acceptor' = [acceptor EXCEPT ![f.id] = "barred"]
    BY <2>1 DEF HandleAuthRequest, RefuseOpen, HandleAuthResponse, openVars
  <2>4. Opens(acceptor') \subseteq Opens(acceptor)
    BY <1>0, <2>3 DEF Opens
  <2>5. QED
    BY <2>2, <2>4, EventsStay
<1>7. ASSUME NEW p \in Peers, NEW s \in Streams, StreamStep(p, s) PROVE EventInv'
  <2>1. UNCHANGED <<chunks, dgramVars, acceptor>>
    BY <1>7 DEF StreamStep, PumpData, PumpCount, ForwardData, PumpEof, PumpClose, PumpStops, AppRead,
                openVars
  <2>2. QED
    BY <2>1, EventsStay
<1>8. ASSUME NEW p \in Peers, TakeDatagram(p) \/ \E s \in Streams : SendDatagram(p, s)
      PROVE EventInv'
  BY <1>8, DatagramEvents
<1>9. CASE UNCHANGED muxTunnelVars
  <2>1. UNCHANGED <<chunks, dgramVars, acceptor>>
    BY <1>9 DEF muxTunnelVars, vars, dgramVars
  <2>2. QED
    BY <2>1, EventsStay
<1>10. QED
  BY <1>1, <1>2, <1>3, <1>4, <1>5, <1>6, <1>7, <1>8, <1>9 DEF MuxNext, MuxRunStep

\* EventInv is invariant: the run task never puts an event in event_tx while one it
\* had no room for still waits, so that event_tx and the task's own hand hold
\* EventCap + 1 of them at most, for any number of streams and datagrams.
THEOREM EventInvariant == MuxSpec => []EventInv
BY EventInit, EventStepKeeps, MuxInvariant, PTL DEF MuxSpec

----------------------------------------------------------------------------
\* No channel of ws.rs ever holds more than its capacity, no frame counts beyond the
\* data there is to write, and no command but an open's or an ack's registers.
THEOREM BoundInvariant == MuxSpec => []BInv
BY BoundInit, BoundStepKeeps, MuxInvariant, CreditInvariant, PTL DEF MuxSpec

LEMMA FitsRange ==
    ASSUME NEW q, NEW S, NEW n, Fits(q, S, n)
    PROVE  Len(q) <= n /\ Range(q) \subseteq S
<1>1. q \in Seq(S) /\ DOMAIN q = 1..Len(q) /\ \A i \in 1..Len(q) : q[i] \in S
  BY DEF Fits
<1>2. QED
  BY <1>1 DEF Range, Fits

LEMMA CountsTyped ==
    ASSUME NEW f \in [Peers -> [Streams -> Nat]],
           \A p \in Peers, s \in Streams : f[p][s] \in 0..MaxFrames
    PROVE  f \in [Peers -> [Streams -> 0..MaxFrames]]
<1>1. \A p \in Peers : f[p] \in [Streams -> 0..MaxFrames]
  OBVIOUS
<1>2. QED
  BY <1>1

LEMMA Typed == IInv /\ CInv /\ BInv /\ EventInv => MuxTypeOK
<1> SUFFICES ASSUME IInv, CInv, BInv, EventInv PROVE MuxTypeOK
  OBVIOUS
<1>1. EndsTyped /\ up \in [Peers -> BOOLEAN]
  BY DEF IInv, QueueInv
<1>2. ASSUME NEW p \in Peers
      PROVE  /\ Len(cmdQ[p]) <= CmdCap /\ Len(frameQ[p]) <= FrameCap /\ Len(wire[p]) <= WireCap
             /\ Range(frameQ[p]) \cup Range(wire[p]) \subseteq Frames
             /\ \A c \in Range(cmdQ[p]) \cup ({run[p]} \ {Idle}) :
                  c \in [frame : Frames, then : {"none", "pend", "register"}]
             /\ \A s \in Streams : Len(outQ[p][s]) <= OutCap /\ Range(outQ[p][s]) \subseteq Frames
  <2>1. BoundOk(p)
    BY DEF BInv
  <2>2. /\ Len(wire[p]) <= WireCap /\ Range(wire[p]) \subseteq Frames
        /\ Len(frameQ[p]) <= FrameCap /\ Range(frameQ[p]) \subseteq Frames
    BY <2>1, FitsRange DEF BoundOk
  <2>3. Len(cmdQ[p]) <= CmdCap /\ Range(cmdQ[p]) \subseteq BoundedCommands
    BY <2>1, FitsRange DEF BoundOk
  <2>4. run[p] \in BoundedCommands \cup {Idle}
    BY <2>1 DEF BoundOk
  <2>5. \A c \in Range(cmdQ[p]) \cup ({run[p]} \ {Idle}) : c \in BoundedCommands
    BY <2>3, <2>4
  <2>6. ASSUME NEW s \in Streams PROVE Len(outQ[p][s]) <= OutCap /\ Range(outQ[p][s]) \subseteq Frames
    <3>1. Fits(outQ[p][s], Frames, OutCap)
      BY <2>1 DEF BoundOk
    <3>2. QED
      BY <3>1, FitsRange
  <2>7. QED
    BY <2>2, <2>3, <2>5, <2>6 DEF BoundedCommands
<1>3. {wrote, outstanding, got, readBy, owed} \subseteq [Peers -> [Streams -> 0..MaxFrames]]
  <2>1. {wrote, outstanding, got, readBy, owed} \subseteq [Peers -> [Streams -> Nat]]
    BY <1>1 DEF EndsTyped, CInv
  <2>2. \A p \in Peers, s \in Streams :
          /\ wrote[p][s] \in 0..MaxFrames /\ outstanding[p][s] \in 0..MaxFrames
          /\ got[p][s] \in 0..MaxFrames /\ readBy[p][s] \in 0..MaxFrames
          /\ owed[p][s] \in 0..MaxFrames
    BY AmountsBounded
  <2>3. wrote \in [Peers -> [Streams -> 0..MaxFrames]]
    BY <2>1, <2>2, CountsTyped
  <2>4. outstanding \in [Peers -> [Streams -> 0..MaxFrames]]
    BY <2>1, <2>2, CountsTyped
  <2>5. got \in [Peers -> [Streams -> 0..MaxFrames]]
    BY <2>1, <2>2, CountsTyped
  <2>6. readBy \in [Peers -> [Streams -> 0..MaxFrames]]
    BY <2>1, <2>2, CountsTyped
  <2>7. owed \in [Peers -> [Streams -> 0..MaxFrames]]
    BY <2>1, <2>2, CountsTyped
  <2>8. QED
    BY <2>3, <2>4, <2>5, <2>6, <2>7
<1>4. \A p \in Peers : datagrams[p] \in 0..Datagrams[chunks][p] /\ Events(p) \in 0..(EventCap + 1)
  <2>1. /\ EventCap \in Nat /\ Cardinality(Opens(acceptor)) \in Nat
        /\ \A p \in Peers : inbox[p] \in Nat /\ datagrams[p] \in Nat
        /\ \A p \in Peers : Datagrams[chunks][p] \in Nat
    BY Caps, OpensFinite, TunnelAssumption DEF EventInv
  <2>2. Events("client") = inbox["client"] + 0
    BY DEF Events
  <2>3. Events("server") = inbox["server"] + Cardinality(Opens(acceptor))
    BY DEF Events, Opens
  <2>4. Events("client") \in 0..(EventCap + 1)
    BY <2>1, <2>2, ThePeers DEF EventInv
  <2>5. Events("server") \in 0..(EventCap + 1)
    BY <2>1, <2>3, ThePeers DEF EventInv
  <2>6. \A p \in Peers : datagrams[p] \in 0..Datagrams[chunks][p]
    BY <2>1 DEF EventInv
  <2>7. QED
    BY <2>4, <2>5, <2>6, ThePeers
<1>5. TypeOK
  BY <1>1, <1>2, <1>3, <1>4 DEF TypeOK, EndsTyped, BInv
<1>6. QED
  BY <1>1, <1>5 DEF MuxTypeOK, EndsTyped

\* Every variable of the tunnel keeps its type, and with it its bounds: the capacities
\* of cmd_rx, of frame_tx, of a stream's queue and of the wire, and of every count of
\* StreamCredit and CreditReader the amount of data there is.
THEOREM MuxIsTyped == MuxSpec => []MuxTypeOK
BY Typed, MuxInvariant, CreditInvariant, BoundInvariant, EventInvariant, PTL

===============================================================================
