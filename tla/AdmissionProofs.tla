--------------------------- MODULE AdmissionProofs ---------------------------
(***************************************************************************)
(* Proofs about Admission, for any number of connections, any capacity and *)
(* lifetime of the nonce cache, any number of permits and any rate: what   *)
(* the cache promises about replays, that no permit leaks, and that the    *)
(* rate limit holds although its clock is read before its lock is taken.   *)
(***************************************************************************)
EXTENDS Admission, FiniteSetTheorems, FunctionTheorems, SequenceTheorems, TLAPS

Stamped == [nonce : Nonces, at : Nat]

Distinct(q) == \A i, j \in 1..Len(q) : q[i].nonce = q[j].nonce => i = j

\* A queue is the end of the log of grants; what of the log is not in the queue
\* has expired, or a whole cache has come after it; no nonce is queued twice.
Coherent(q, log) ==
    /\ q \in Seq(Stamped)
    /\ Len(q) <= CacheMax
    /\ Len(q) <= Len(log)
    /\ \A i \in 1..Len(q) : q[i] = log[Len(log) - Len(q) + i]
    /\ \A i \in 1..(Len(log) - Len(q)) : \/ now - log[i].at >= ReplayTtl
                                         \/ Len(log) - i >= CacheMax
    /\ Distinct(q)

NonceInv ==
    /\ now \in Nat /\ granted \in Seq(Stamped)
    /\ Coherent(order, granted)
    /\ set = Remembered(order)
    /\ ReplayRefused

----------------------------------------------------------------------------
\* A queue without repetition is as long as the set of what it remembers.
LEMMA DistinctCounts ==
    ASSUME NEW q \in Seq(Stamped), Distinct(q)
    PROVE  Cardinality(Remembered(q)) = Len(q)
<1> DEFINE f == [i \in 1..Len(q) |-> q[i].nonce]
<1>1. Len(q) \in Nat /\ DOMAIN q = 1..Len(q)
  OBVIOUS
<1>2. f \in Bijection(1..Len(q), Remembered(q))
  <2>1. f \in [1..Len(q) -> Remembered(q)]
    BY <1>1 DEF Remembered
  <2>2. \A i, j \in 1..Len(q) : f[i] = f[j] => i = j
    BY DEF Distinct
  <2>3. \A n \in Remembered(q) : \E i \in 1..Len(q) : f[i] = n
    BY <1>1 DEF Remembered
  <2> HIDE DEF f
  <2>4. QED
    BY <2>1, <2>2, <2>3, Fun_IsBij
<1>3. ExistsBijection(1..Len(q), Remembered(q))
  BY <1>2 DEF ExistsBijection
<1>4. IsFiniteSet(1..Len(q)) /\ Cardinality(1..Len(q)) = Len(q)
  BY <1>1, FS_Interval
<1>5. QED
  BY <1>3, <1>4, FS_Bijection

\* evict_expired takes a front of the queue away, and all of it had expired.
LEMMA Evicted ==
    ASSUME NEW q \in Seq(Stamped)
    PROVE  \E p \in 0..Len(q) :
               /\ EvictExpired(q) \in Seq(Stamped)
               /\ Len(EvictExpired(q)) = Len(q) - p
               /\ \A i \in 1..(Len(q) - p) : EvictExpired(q)[i] = q[p + i]
               /\ \A i \in 1..p : Expired(q[i])
<1> DEFINE F == ExpiredFront(q)
           p == Cardinality(F)
<1>1. Len(q) \in Nat /\ DOMAIN q = 1..Len(q)
  OBVIOUS
<1>2. F \in SUBSET (1..Len(q)) /\ \A i \in F : \A j \in 1..i : Expired(q[j])
  BY <1>1 DEF ExpiredFront
<1>3. \A i \in F : \A j \in 1..i : j \in F
  BY <1>1 DEF ExpiredFront
<1>4. IsFiniteSet(1..Len(q)) /\ Cardinality(1..Len(q)) = Len(q)
  BY <1>1, FS_Interval
<1>5. IsFiniteSet(F) /\ p \in Nat /\ p <= Len(q)
  BY <1>2, <1>4, FS_Subset, FS_CardinalityType
<1> HIDE DEF F, p
<1>6. ASSUME p >= 1 PROVE p \in F
  <2> SUFFICES ASSUME p \notin F PROVE FALSE
    OBVIOUS
  <2>1. F \in SUBSET (1..(p - 1))
    BY <1>1, <1>2, <1>3, <1>5, <1>6
  <2>2. IsFiniteSet(1..(p - 1)) /\ Cardinality(1..(p - 1)) = p - 1
    BY <1>5, <1>6, FS_Interval
  <2>3. Cardinality(F) <= p - 1
    BY <2>1, <2>2, FS_Subset
  <2>4. QED
    BY <1>5, <2>3 DEF p
<1>7. \A i \in 1..p : Expired(q[i])
  BY <1>2, <1>5, <1>6
<1>8. EvictExpired(q) = SubSeq(q, p + 1, Len(q))
  BY DEF EvictExpired, F, p
<1>9. /\ SubSeq(q, p + 1, Len(q)) \in Seq(Stamped)
      /\ Len(SubSeq(q, p + 1, Len(q))) = Len(q) - p
      /\ \A i \in 1..(Len(q) - p) : SubSeq(q, p + 1, Len(q))[i] = q[p + i]
  <2>1. \A i \in (p + 1)..Len(q) : q[i] \in Stamped
    BY <1>1, <1>5
  <2> DEFINE t == SubSeq(q, p + 1, Len(q))
  <2>2. /\ t \in Seq(Stamped)
        /\ Len(t) = IF p + 1 <= Len(q) THEN Len(q) - (p + 1) + 1 ELSE 0
        /\ \A i \in 1..(Len(q) - (p + 1) + 1) : t[i] = q[p + 1 + i - 1]
    BY <1>1, <1>5, <2>1, SubSeqProperties
  <2> HIDE DEF t
  <2>3. /\ Len(t) = Len(q) - p
        /\ \A i \in 1..(Len(q) - p) : t[i] = q[p + i]
    <3>1. Len(t) = Len(q) - p
      <4>1. \A L, d \in Nat : d <= L => (IF d + 1 <= L THEN L - (d + 1) + 1 ELSE 0) = L - d
        OBVIOUS
      <4>2. Len(q) \in Nat /\ p \in Nat /\ p <= Len(q)
        BY <1>1, <1>5
      <4>3. QED
        BY <2>2, <4>1, <4>2
    <3>2. ASSUME NEW i \in 1..(Len(q) - p) PROVE t[i] = q[p + i]
      <4>1. i \in 1..(Len(q) - (p + 1) + 1) /\ p + 1 + i - 1 = p + i
        BY <1>1, <1>5
      <4>2. t[i] = q[p + 1 + i - 1]
        BY <2>2, <4>1
      <4>3. QED
        BY <4>1, <4>2
    <3>3. QED
      BY <3>1, <3>2
  <2>4. QED
    BY <2>2, <2>3 DEF t
<1>10. p \in 0..Len(q)
  BY <1>1, <1>5
<1>11. QED
  BY <1>7, <1>8, <1>9, <1>10

\* Eviction keeps the queue coherent with the log.
LEMMA EvictCoherent ==
    ASSUME now \in Nat, NEW log \in Seq(Stamped), NEW q, Coherent(q, log)
    PROVE  /\ Coherent(EvictExpired(q), log)
           /\ Remembered(EvictExpired(q)) \subseteq Remembered(q)
<1> DEFINE kept == EvictExpired(q)
<1>1. q \in Seq(Stamped)
  BY DEF Coherent
<1>2. PICK p \in 0..Len(q) : /\ kept \in Seq(Stamped)
                             /\ Len(kept) = Len(q) - p
                             /\ \A i \in 1..(Len(q) - p) : kept[i] = q[p + i]
                             /\ \A i \in 1..p : Expired(q[i])
  BY <1>1, Evicted
<1> HIDE DEF kept
<1>3. Len(q) \in Nat /\ Len(log) \in Nat /\ CacheMax \in Nat /\ p \in Nat /\ p <= Len(q)
  BY <1>1, AdmissionAssumption
<1>4. Len(q) <= CacheMax /\ Len(q) <= Len(log)
  BY DEF Coherent
<1>5. \A i \in 1..Len(kept) : p + i \in 1..Len(q) /\ kept[i] = q[p + i]
  BY <1>2, <1>3
<1>6. ASSUME NEW i \in 1..Len(kept) PROVE kept[i] = log[Len(log) - Len(kept) + i]
  <2>1. q[p + i] = log[Len(log) - Len(q) + (p + i)]
    BY <1>5 DEF Coherent
  <2>2. Len(log) - Len(q) + (p + i) = Len(log) - Len(kept) + i
    BY <1>2, <1>3
  <2>3. QED
    BY <1>5, <2>1, <2>2
<1>7. ASSUME NEW i \in 1..(Len(log) - Len(kept))
      PROVE  now - log[i].at >= ReplayTtl \/ Len(log) - i >= CacheMax
  <2>1. CASE i \in 1..(Len(log) - Len(q))
    BY <2>1 DEF Coherent
  <2>2. CASE i \notin 1..(Len(log) - Len(q))
    <3> DEFINE j == i - (Len(log) - Len(q))
    <3>1. j \in 1..p /\ j \in 1..Len(q) /\ Len(log) - Len(q) + j = i
      BY <1>2, <1>3, <1>4, <2>2
    <3> HIDE DEF j
    <3>2. Expired(q[j]) /\ q[j] = log[i]
      BY <1>2, <3>1 DEF Coherent
    <3>3. QED
      BY <3>2 DEF Expired
  <2>3. QED
    BY <2>1, <2>2
<1>8. Distinct(kept)
  <2> SUFFICES ASSUME NEW i \in 1..Len(kept), NEW j \in 1..Len(kept),
                      kept[i].nonce = kept[j].nonce
               PROVE  i = j
    BY DEF Distinct
  <2>1. p + i = p + j
    <3>1. q[p + i].nonce = q[p + j].nonce /\ p + i \in 1..Len(q) /\ p + j \in 1..Len(q)
      BY <1>5
    <3>2. \A a, b \in 1..Len(q) : q[a].nonce = q[b].nonce => a = b
      BY DEF Coherent, Distinct
    <3>3. QED
      BY <3>1, <3>2
  <2>2. QED
    BY <1>2, <1>3, <2>1
<1>9. Len(kept) <= CacheMax /\ Len(kept) <= Len(log)
  BY <1>2, <1>3, <1>4
<1>10. Coherent(kept, log)
  BY <1>2, <1>6, <1>7, <1>8, <1>9 DEF Coherent
<1>11. Remembered(kept) \subseteq Remembered(q)
  <2> SUFFICES ASSUME NEW i \in DOMAIN kept PROVE kept[i].nonce \in Remembered(q)
    BY DEF Remembered
  <2>1. i \in 1..Len(kept)
    BY <1>2
  <2>2. kept[i] = q[p + i] /\ p + i \in DOMAIN q
    BY <1>1, <1>5, <2>1
  <2>3. QED
    BY <2>2 DEF Remembered
<1>12. QED
  BY <1>10, <1>11 DEF kept

\* Append, in the form the proofs use.
LEMMA Appended ==
    ASSUME NEW q \in Seq(Stamped), NEW e \in Stamped
    PROVE  /\ Append(q, e) \in Seq(Stamped) /\ Len(Append(q, e)) = Len(q) + 1
           /\ \A i \in 1..Len(q) : Append(q, e)[i] = q[i]
           /\ Append(q, e)[Len(q) + 1] = e
           /\ Remembered(Append(q, e)) = Remembered(q) \cup {e.nonce}
<1> DEFINE g == Append(q, e)
<1>1. /\ g \in Seq(Stamped) /\ Len(g) = Len(q) + 1
      /\ \A i \in 1..Len(q) : g[i] = q[i]
      /\ g[Len(q) + 1] = e
  BY AppendProperties
<1> HIDE DEF g
<1>2. Len(q) \in Nat /\ DOMAIN q = 1..Len(q) /\ DOMAIN g = 1..(Len(q) + 1)
  BY <1>1
<1>3. DOMAIN g = DOMAIN q \cup {Len(q) + 1}
  BY <1>2
<1>4. Remembered(g) = Remembered(q) \cup {e.nonce}
  BY <1>1, <1>2, <1>3 DEF Remembered
<1>5. QED
  BY <1>1, <1>4 DEF g

\* A nonce the queue does not remember may be added to the queue and the log:
\* they stay coherent, before the overflow, but for the length.
LEMMA GrownCoherent ==
    ASSUME now \in Nat, NEW log \in Seq(Stamped), NEW q, Coherent(q, log),
           NEW e \in Stamped, e.nonce \notin Remembered(q)
    PROVE  LET grown == Append(q, e)
               longer == Append(log, e)
           IN  /\ Len(grown) <= CacheMax + 1
               /\ Len(grown) <= Len(longer)
               /\ \A i \in 1..Len(grown) : grown[i] = longer[Len(longer) - Len(grown) + i]
               /\ \A i \in 1..(Len(longer) - Len(grown)) :
                      now - longer[i].at >= ReplayTtl \/ Len(longer) - i >= CacheMax
               /\ Distinct(grown)
<1> DEFINE grown == Append(q, e)
           longer == Append(log, e)
<1>1. q \in Seq(Stamped) /\ Len(q) <= CacheMax /\ Len(q) <= Len(log)
  BY DEF Coherent
<1>2. /\ grown \in Seq(Stamped) /\ Len(grown) = Len(q) + 1
      /\ \A i \in 1..Len(q) : grown[i] = q[i]
      /\ grown[Len(q) + 1] = e
  BY <1>1, Appended
<1>3. /\ longer \in Seq(Stamped) /\ Len(longer) = Len(log) + 1
      /\ \A i \in 1..Len(log) : longer[i] = log[i]
      /\ longer[Len(log) + 1] = e
  BY Appended
<1> HIDE DEF grown, longer
<1>4. Len(q) \in Nat /\ Len(log) \in Nat /\ CacheMax \in Nat
  BY <1>1, AdmissionAssumption
<1>5. Len(grown) <= CacheMax + 1 /\ Len(grown) <= Len(longer)
  BY <1>1, <1>2, <1>3, <1>4
<1>6. Len(longer) - Len(grown) = Len(log) - Len(q)
  BY <1>2, <1>3, <1>4
<1>7. ASSUME NEW i \in 1..Len(grown) PROVE grown[i] = longer[Len(longer) - Len(grown) + i]
  <2>1. CASE i \in 1..Len(q)
    <3>1. Len(log) - Len(q) + i \in 1..Len(log)
      BY <1>1, <1>4, <2>1
    <3>2. q[i] = log[Len(log) - Len(q) + i]
      BY <2>1 DEF Coherent
    <3>3. QED
      BY <1>2, <1>3, <1>6, <2>1, <3>1, <3>2
  <2>2. CASE i = Len(q) + 1
    <3>1. Len(log) - Len(q) + i = Len(log) + 1
      BY <1>4, <2>2
    <3>2. QED
      BY <1>2, <1>3, <1>6, <2>2, <3>1
  <2>3. QED
    BY <1>2, <1>4, <2>1, <2>2
<1>8. ASSUME NEW i \in 1..(Len(longer) - Len(grown))
      PROVE  now - longer[i].at >= ReplayTtl \/ Len(longer) - i >= CacheMax
  <2>1. i \in 1..(Len(log) - Len(q)) /\ i \in 1..Len(log)
    BY <1>1, <1>4, <1>6
  <2>2. longer[i] = log[i]
    BY <1>3, <2>1
  <2>3. now - log[i].at >= ReplayTtl \/ Len(log) - i >= CacheMax
    BY <2>1 DEF Coherent
  <2>4. Len(log) - i >= CacheMax => Len(longer) - i >= CacheMax
    BY <1>3, <1>4, <2>1
  <2>5. QED
    BY <2>2, <2>3, <2>4
<1>9. Distinct(grown)
  <2> SUFFICES ASSUME NEW i \in 1..Len(grown), NEW j \in 1..Len(grown),
                      grown[i].nonce = grown[j].nonce
               PROVE  i = j
    BY DEF Distinct
  <2>1. \A k \in 1..Len(q) : grown[k].nonce # e.nonce
    <3>1. DOMAIN q = 1..Len(q)
      BY <1>1
    <3>2. QED
      BY <1>2, <3>1 DEF Remembered
  <2>2. \A a, b \in 1..Len(q) : grown[a].nonce = grown[b].nonce => a = b
    BY <1>2 DEF Coherent, Distinct
  <2>3. \A k \in 1..Len(grown) : k \in 1..Len(q) \/ k = Len(q) + 1
    BY <1>2, <1>4
  <2>4. QED
    BY <1>2, <2>1, <2>2, <2>3
<1>10. QED
  BY <1>5, <1>7, <1>8, <1>9 DEF grown, longer

\* The overflow of the queue keeps it coherent: the one entry that leaves has a
\* whole cache after it.
LEMMA OverflowCoherent ==
    ASSUME NEW log \in Seq(Stamped), NEW q \in Seq(Stamped),
           Len(q) <= CacheMax + 1, Len(q) <= Len(log),
           \A i \in 1..Len(q) : q[i] = log[Len(log) - Len(q) + i],
           \A i \in 1..(Len(log) - Len(q)) :
               now - log[i].at >= ReplayTtl \/ Len(log) - i >= CacheMax,
           Distinct(q)
    PROVE  /\ Coherent(Overflow(q), log)
           /\ Remembered(Overflow(q)) \subseteq Remembered(q)
<1>1. Len(q) \in Nat /\ Len(log) \in Nat /\ CacheMax \in Nat /\ CacheMax >= 1
  BY AdmissionAssumption
<1>2. CASE Len(q) <= CacheMax
  <2>1. Overflow(q) = q
    BY <1>1, <1>2 DEF Overflow
  <2>2. QED
    BY <1>2, <2>1 DEF Coherent
<1>3. CASE Len(q) = CacheMax + 1
  <2> DEFINE t == Tail(q)
  <2>1. Overflow(q) = t
    BY <1>1, <1>3 DEF Overflow
  <2>2. q # <<>>
    BY <1>1, <1>3
  <2>3. /\ t \in Seq(Stamped) /\ Len(t) = Len(q) - 1
        /\ \A i \in 1..Len(t) : t[i] = q[i + 1]
    BY <2>2, HeadTailProperties
  <2> HIDE DEF t
  <2>4. Len(t) = CacheMax /\ Len(t) <= Len(log) /\ DOMAIN t = 1..Len(t) /\ DOMAIN q = 1..Len(q)
    BY <1>1, <1>3, <2>3
  <2>5. \A i \in 1..Len(t) : i + 1 \in 1..Len(q)
    BY <1>1, <2>3
  <2>6. ASSUME NEW i \in 1..Len(t) PROVE t[i] = log[Len(log) - Len(t) + i]
    <3>1. Len(log) - Len(q) + (i + 1) = Len(log) - Len(t) + i
      BY <1>1, <2>3
    <3>2. QED
      BY <2>3, <2>5, <3>1
  <2>7. ASSUME NEW i \in 1..(Len(log) - Len(t))
        PROVE  now - log[i].at >= ReplayTtl \/ Len(log) - i >= CacheMax
    BY <1>1, <2>4
  <2>8. Distinct(t)
    <3> SUFFICES ASSUME NEW i \in 1..Len(t), NEW j \in 1..Len(t), t[i].nonce = t[j].nonce
                 PROVE  i = j
      BY DEF Distinct
    <3>1. i + 1 = j + 1
      <4>1. q[i + 1].nonce = q[j + 1].nonce /\ i + 1 \in 1..Len(q) /\ j + 1 \in 1..Len(q)
        BY <2>3, <2>5
      <4>2. \A a, b \in 1..Len(q) : q[a].nonce = q[b].nonce => a = b
        BY DEF Distinct
      <4>3. QED
        BY <4>1, <4>2
    <3>2. QED
      BY <1>1, <2>3, <3>1
  <2>9. Coherent(t, log)
    BY <1>1, <2>3, <2>4, <2>6, <2>7, <2>8 DEF Coherent
  <2>10. Remembered(t) \subseteq Remembered(q)
    <3> SUFFICES ASSUME NEW i \in DOMAIN t PROVE t[i].nonce \in Remembered(q)
      BY DEF Remembered
    <3>1. t[i] = q[i + 1] /\ i + 1 \in DOMAIN q
      BY <2>3, <2>4, <2>5
    <3>2. QED
      BY <3>1 DEF Remembered
  <2>11. QED
    BY <2>1, <2>9, <2>10
<1>4. QED
  BY <1>1, <1>2, <1>3

----------------------------------------------------------------------------
\* The nonce cache starts empty.
LEMMA NonceInit == Init => NonceInv
<1> SUFFICES ASSUME Init PROVE NonceInv
  OBVIOUS
<1>1. order = <<>> /\ granted = <<>> /\ set = {} /\ now = 0
  BY DEF Init
<1>2. Coherent(<<>>, <<>>)
  BY AdmissionAssumption DEF Coherent, Distinct
<1>3. Remembered(<<>>) = {}
  BY DEF Remembered
<1>4. ReplayRefused
  BY <1>1 DEF ReplayRefused
<1>5. QED
  BY <1>1, <1>2, <1>3, <1>4 DEF NonceInv

\* What is left of the set after the eviction is what is left of the queue.
LEMMA EvictedSet ==
    ASSUME NonceInv
    PROVE  LET kept == EvictExpired(order)
           IN  Coherent(kept, granted) /\ SetAfterEviction(kept) = Remembered(kept)
<1> DEFINE kept == EvictExpired(order)
<1>1. Coherent(kept, granted) /\ Remembered(kept) \subseteq Remembered(order)
  BY EvictCoherent DEF NonceInv
<1>2. SetAfterEviction(kept) = set \ (Remembered(order) \ Remembered(kept))
  BY DEF SetAfterEviction
<1>3. set = Remembered(order)
  BY DEF NonceInv
<1> HIDE DEF kept
<1>4. SetAfterEviction(kept) = Remembered(kept)
  BY <1>1, <1>2, <1>3
<1>5. QED
  BY <1>1, <1>4 DEF kept

\* A fresh nonce is granted: the earlier grants of it are not in the queue, so
\* they have expired or a whole cache lies between.
LEMMA FreshInv ==
    ASSUME NonceInv, now' = now, NEW n \in Nonces, InsertFresh(n)
    PROVE  NonceInv'
<1> DEFINE kept == EvictExpired(order)
           e == [nonce |-> n, at |-> now]
           grown == Append(kept, e)
           log == Append(granted, e)
<1>1. /\ now \in Nat /\ granted \in Seq(Stamped) /\ e \in Stamped /\ e.nonce = n /\ e.at = now
  BY DEF NonceInv, Stamped
<1>2. Coherent(kept, granted) /\ SetAfterEviction(kept) = Remembered(kept)
  BY EvictedSet
<1>3. /\ n \notin Remembered(kept)
      /\ order' = Overflow(grown) /\ granted' = log
      /\ set' = (Remembered(kept) \cup {n}) \ (Remembered(grown) \ Remembered(order'))
  BY <1>2 DEF InsertFresh
<1>4. kept \in Seq(Stamped) /\ Len(kept) <= Len(granted)
  BY <1>2 DEF Coherent
<1> HIDE DEF kept, e
<1>5. grown \in Seq(Stamped) /\ Remembered(grown) = Remembered(kept) \cup {n}
  BY <1>1, <1>4, Appended
<1>6. /\ log \in Seq(Stamped) /\ Len(log) = Len(granted) + 1
      /\ \A i \in 1..Len(granted) : log[i] = granted[i]
      /\ log[Len(granted) + 1] = e
  BY <1>1, Appended
<1>7. /\ Len(grown) <= CacheMax + 1
      /\ Len(grown) <= Len(log)
      /\ \A i \in 1..Len(grown) : grown[i] = log[Len(log) - Len(grown) + i]
      /\ \A i \in 1..(Len(log) - Len(grown)) :
             now - log[i].at >= ReplayTtl \/ Len(log) - i >= CacheMax
      /\ Distinct(grown)
  BY <1>1, <1>2, <1>3, GrownCoherent
<1> HIDE DEF grown, log
<1>8. Coherent(order', log) /\ Remembered(order') \subseteq Remembered(grown)
  BY <1>3, <1>5, <1>6, <1>7, OverflowCoherent
<1>9. Coherent(order, granted)'
  BY <1>3, <1>8 DEF Coherent
<1>10. set' = Remembered(order)'
  BY <1>3, <1>5, <1>8 DEF Remembered
<1>11. ReplayRefused'
  <2> SUFFICES ASSUME NEW i \in 1..Len(log), NEW j \in 1..Len(log), i < j,
                      log[i].nonce = log[j].nonce
               PROVE  log[j].at - log[i].at >= ReplayTtl \/ j - i > CacheMax
    BY <1>3, <1>6 DEF ReplayRefused
  <2>1. Len(granted) \in Nat /\ Len(kept) \in Nat /\ CacheMax \in Nat
    BY <1>1, <1>4, AdmissionAssumption
  <2>2. i \in 1..Len(granted)
    BY <1>6, <2>1
  <2>3. CASE j \in 1..Len(granted)
    <3>1. \A a, b \in 1..Len(granted) : a < b /\ granted[a].nonce = granted[b].nonce =>
              granted[b].at - granted[a].at >= ReplayTtl \/ b - a > CacheMax
      BY <1>1 DEF NonceInv, ReplayRefused
    <3>2. log[i] = granted[i] /\ log[j] = granted[j]
      BY <1>6, <2>2, <2>3
    <3>3. QED
      BY <2>2, <2>3, <3>1, <3>2
  <2>4. CASE j = Len(granted) + 1
    <3>1. granted[i].nonce = n /\ log[j].at = now /\ log[i] = granted[i]
      BY <1>1, <1>6, <2>2, <2>4
    <3>2. i \in 1..(Len(granted) - Len(kept))
      <4> SUFFICES ASSUME i > Len(granted) - Len(kept) PROVE FALSE
        BY <2>1, <2>2
      <4> DEFINE k == i - (Len(granted) - Len(kept))
      <4>1. k \in 1..Len(kept) /\ Len(granted) - Len(kept) + k = i
        BY <1>4, <2>1, <2>2
      <4> HIDE DEF k
      <4>2. kept[k] = granted[i] /\ k \in DOMAIN kept
        BY <1>2, <1>4, <4>1 DEF Coherent
      <4>3. QED
        BY <1>3, <3>1, <4>2 DEF Remembered
    <3>3. now - granted[i].at >= ReplayTtl \/ Len(granted) - i >= CacheMax
      BY <1>2, <3>2 DEF Coherent
    <3>4. Len(granted) - i >= CacheMax => j - i > CacheMax
      BY <2>1, <2>2, <2>4
    <3>5. QED
      BY <3>1, <3>3, <3>4
  <2>5. QED
    BY <1>6, <2>1, <2>3, <2>4
<1>12. QED
  BY <1>1, <1>3, <1>6, <1>9, <1>10, <1>11 DEF NonceInv

\* A replayed nonce is refused; the eviction stays.
LEMMA ReplayedInv ==
    ASSUME NonceInv, now' = now, NEW n \in Nonces, InsertReplayed(n)
    PROVE  NonceInv'
<1> DEFINE kept == EvictExpired(order)
<1>1. Coherent(kept, granted) /\ SetAfterEviction(kept) = Remembered(kept)
  BY EvictedSet
<1>2. order' = kept /\ set' = Remembered(kept) /\ granted' = granted
  BY <1>1 DEF InsertReplayed
<1> HIDE DEF kept
<1>3. Coherent(order, granted)' /\ set' = Remembered(order)'
  BY <1>1, <1>2 DEF Coherent, Remembered
<1>4. QED
  BY <1>2, <1>3 DEF NonceInv, ReplayRefused

\* A step that does not touch the cache; time may pass.
LEMMA NonceStill ==
    ASSUME NonceInv, now' \in Nat, now' >= now, UNCHANGED <<order, set, granted>>
    PROVE  NonceInv'
<1>1. now \in Nat /\ granted \in Seq(Stamped) /\ order \in Seq(Stamped)
  BY DEF NonceInv, Coherent
<1>2. ASSUME NEW i \in 1..(Len(granted) - Len(order)), now - granted[i].at >= ReplayTtl
      PROVE  now' - granted[i].at >= ReplayTtl
  <2>1. i \in 1..Len(granted)
    BY <1>1
  <2>2. granted[i] \in Stamped
    BY <1>1, <2>1
  <2>3. granted[i].at \in Nat
    BY <2>2 DEF Stamped
  <2>4. QED
    BY <1>1, <1>2, <2>3, AdmissionAssumption
<1>3. Coherent(order, granted)'
  BY <1>2 DEF NonceInv, Coherent, Distinct
<1>4. QED
  BY <1>3 DEF NonceInv, ReplayRefused, Remembered

\* Only validate touches the cache, and only Tick the clock.
LEMMA NonceStep == NonceInv /\ [Next]_vars => NonceInv'
<1> SUFFICES ASSUME NonceInv, [Next]_vars PROVE NonceInv'
  OBVIOUS
<1>1. now \in Nat
  BY DEF NonceInv
<1>2. CASE Tick
  BY <1>1, <1>2, NonceStill DEF Tick, nonceVars, cacheVars
<1>3. ASSUME NEW c \in Conns, Validate(c) \/ Revalidate(c) PROVE NonceInv'
  <2>1. now' = now
    BY <1>3 DEF Validate, Revalidate
  <2>2. ASSUME NEW n \in Nonces, InsertFresh(n) PROVE NonceInv'
    BY <2>1, <2>2, FreshInv
  <2>3. ASSUME NEW n \in Nonces, InsertReplayed(n) PROVE NonceInv'
    BY <2>1, <2>3, ReplayedInv
  <2>4. CASE UNCHANGED <<order, set, granted>>
    BY <1>1, <2>1, <2>4, NonceStill
  <2>5. PICK answer \in {"ok", "refused"} : Validates(answer)
    BY <1>3 DEF Validate, Revalidate
  <2>6. QED
    BY <2>2, <2>3, <2>4, <2>5 DEF Validates, cacheVars
<1>4. CASE \E l \in Listeners : RateAllow(l) \/ \E c \in Conns, ip \in IPs : Accept(l, c, ip)
  BY <1>1, <1>4, NonceStill DEF RateAllow, Accept, nonceVars, cacheVars
<1>5. ASSUME NEW c \in Conns,
             \/ HandshakeFails(c) \/ HandshakeTimeout(c) \/ OrphanEnds(c)
             \/ TakePermit(c) \/ NoPermit(c)
             \/ HopConnects(c) \/ HopFails(c) \/ TunnelEnds(c)
      PROVE  NonceInv'
  BY <1>1, <1>5, NonceStill
     DEF HandshakeFails, HandshakeTimeout, OrphanEnds, TakePermit, NoPermit, HopConnects,
         HopFails, TunnelEnds, nonceVars, cacheVars
<1>6. CASE UNCHANGED vars
  BY <1>1, <1>6, NonceStill DEF vars
<1>7. QED
  BY <1>2, <1>3, <1>4, <1>5, <1>6 DEF Next

\* NonceCache::insert accepts a nonce twice only when its record has expired or
\* a whole cache of others came in between, for any capacity and lifetime.
THEOREM ReplaysRefused == Spec => []ReplayRefused
<1>1. NonceInv => ReplayRefused
  BY DEF NonceInv
<1>2. QED
  BY <1>1, NonceInit, NonceStep, PTL DEF Spec

\* The set and the queue of NonceCache never drift apart or exceed the capacity.
THEOREM CacheStaysConsistent == Spec => []CacheConsistent
<1>1. NonceInv => CacheConsistent
  BY DistinctCounts DEF NonceInv, Coherent, CacheConsistent
<1>2. QED
  BY <1>1, NonceInit, NonceStep, PTL DEF Spec

----------------------------------------------------------------------------
(* The permits *)

\* The connection an accept loop has in hand is at the limiter, and no other
\* accept loop has it.
HandInv ==
    /\ conn \in [Conns -> Stages]
    /\ accepting = [l \in Listeners |-> accepting[l]]
    /\ \A l \in Listeners :
           accepting[l].conn # NoConn =>
               /\ accepting[l].conn \in Conns /\ conn[accepting[l].conn] = "limiter"
               /\ \A m \in Listeners : accepting[m].conn = accepting[l].conn => m = l

SlotInv ==
    /\ HandInv
    /\ permits \in Nat /\ active \in Nat
    /\ SlotsConserved

\* A connection that is not in hand moves.
LEMMA HandStill ==
    ASSUME HandInv, UNCHANGED accepting, NEW c \in Conns, conn[c] # "limiter", NEW to \in Stages,
           conn' = [conn EXCEPT ![c] = to]
    PROVE  HandInv'
<1>1. conn' \in [Conns -> Stages] /\ \A d \in Conns : d # c => conn'[d] = conn[d]
  BY DEF HandInv
<1>2. QED
  BY <1>1 DEF HandInv

\* An accept loop lets go of the connection it has in hand.
LEMMA HandReleased ==
    ASSUME HandInv, NEW l \in Listeners, RateAllow(l)
    PROVE  /\ HandInv'
           /\ accepting[l].conn \in Conns /\ conn[accepting[l].conn] = "limiter"
           /\ \E to \in {"handshake", "closed"} :
                  conn' = [conn EXCEPT ![accepting[l].conn] = to]
<1> DEFINE c == accepting[l].conn
<1>1. c # NoConn /\ accepting' = [accepting EXCEPT ![l] = Free]
  BY DEF RateAllow
<1>2. PICK to \in {"handshake", "closed"} : conn' = [conn EXCEPT ![c] = to]
  BY DEF RateAllow
<1>3. c \in Conns /\ conn[c] = "limiter"
  BY <1>1 DEF HandInv
<1>4. \A m \in Listeners : m # l => accepting[m].conn # c
  BY <1>1 DEF HandInv
<1>5. /\ accepting'[l].conn = NoConn
      /\ \A m \in Listeners : m # l => accepting'[m] = accepting[m]
      /\ accepting' = [m \in Listeners |-> accepting'[m]]
  BY <1>1 DEF HandInv, Free
<1>6. /\ conn' \in [Conns -> Stages]
      /\ \A d \in Conns : d # c => conn'[d] = conn[d]
  BY <1>2, <1>3 DEF HandInv, Stages
<1> HIDE DEF c
<1>7. HandInv'
  BY <1>4, <1>5, <1>6 DEF HandInv
<1>8. QED
  BY <1>2, <1>3, <1>7 DEF c

\* An accept loop takes a connection in hand.
LEMMA HandTaken ==
    ASSUME HandInv, NEW l \in Listeners, NEW c \in Conns, NEW ip \in IPs, Accept(l, c, ip)
    PROVE  HandInv' /\ conn[c] = "outside" /\ conn' = [conn EXCEPT ![c] = "limiter"]
<1>1. /\ conn[c] = "outside" /\ conn' = [conn EXCEPT ![c] = "limiter"]
      /\ accepting' = [accepting EXCEPT ![l] = [conn |-> c, ip |-> ip, stamp |-> now]]
  BY DEF Accept
<1>2. \A m \in Listeners : accepting[m].conn # c
  BY <1>1, AdmissionAssumption DEF HandInv
<1>3. /\ accepting'[l].conn = c
      /\ \A m \in Listeners : m # l => accepting'[m] = accepting[m]
      /\ accepting' = [m \in Listeners |-> accepting'[m]]
  BY <1>1 DEF HandInv
<1>4. /\ conn' \in [Conns -> Stages] /\ conn'[c] = "limiter"
      /\ \A d \in Conns : d # c => conn'[d] = conn[d]
  BY <1>1 DEF HandInv, Stages
<1>5. HandInv'
  BY <1>2, <1>3, <1>4 DEF HandInv
<1>6. QED
  BY <1>1, <1>5

\* Every step keeps the accept loops and the connections together.
LEMMA HandStep == ASSUME HandInv, [Next]_vars PROVE HandInv'
<1>1. CASE Tick \/ UNCHANGED vars
  BY <1>1 DEF HandInv, Tick, rateVars, vars
<1>2. ASSUME NEW l \in Listeners, RateAllow(l) PROVE HandInv'
  BY <1>2, HandReleased
<1>3. ASSUME NEW l \in Listeners, NEW c \in Conns, NEW ip \in IPs, Accept(l, c, ip) PROVE HandInv'
  BY <1>3, HandTaken
<1>4. ASSUME NEW c \in Conns,
             \/ Validate(c) \/ HandshakeFails(c) \/ HandshakeTimeout(c) \/ OrphanEnds(c)
             \/ TakePermit(c) \/ NoPermit(c)
             \/ HopConnects(c) \/ HopFails(c) \/ TunnelEnds(c)
      PROVE  HandInv'
  <2>1. UNCHANGED accepting /\ conn[c] # "limiter"
    BY <1>4 DEF Validate, HandshakeFails, HandshakeTimeout, OrphanEnds, TakePermit, NoPermit,
                HopConnects, HopFails, TunnelEnds, rateVars
  <2>2. \E to \in Stages : conn' = [conn EXCEPT ![c] = to]
    BY <1>4 DEF Validate, HandshakeFails, HandshakeTimeout, OrphanEnds, TakePermit, NoPermit,
                HopConnects, HopFails, TunnelEnds, Dropped, Stages
  <2>3. QED
    BY <2>1, <2>2, HandStill
<1>5. ASSUME NEW c \in Conns, Revalidate(c) PROVE HandInv'
  BY <1>5 DEF Revalidate, rateVars, HandInv
<1>6. QED
  BY <1>1, <1>2, <1>3, <1>4, <1>5 DEF Next

\* Tunnels in service are finitely many.
LEMMA ServingFinite == IsFiniteSet(Serving) /\ Cardinality(Serving) \in Nat
BY AdmissionAssumption, FS_Subset, FS_CardinalityType DEF Serving

\* A connection moves between stages in which it holds no permit, or keeps it.
LEMMA SlotStill ==
    ASSUME SlotInv, HandInv', UNCHANGED <<permits, active>>, NEW c \in Conns, NEW to \in Stages,
           conn' = [conn EXCEPT ![c] = to],
           conn[c] \in {"hop", "open"} <=> to \in {"hop", "open"}
    PROVE  SlotInv'
<1>1. Serving' = Serving
  BY DEF SlotInv, HandInv, Serving
<1>2. QED
  BY <1>1 DEF SlotInv, SlotsConserved

\* A connection takes a permit and enters service.
LEMMA SlotTaken ==
    ASSUME SlotInv, HandInv', NEW c \in Conns, TakePermit(c)
    PROVE  SlotInv'
<1>1. Serving' = Serving \cup {c} /\ c \notin Serving
  BY DEF SlotInv, HandInv, Serving, TakePermit, Stages
<1>2. Cardinality(Serving') = Cardinality(Serving) + 1
  BY <1>1, ServingFinite, FS_AddElement
<1>3. /\ permits' = permits - 1 /\ active' = active + 1 /\ permits > 0
      /\ permits \in Nat /\ active \in Nat
      /\ permits + Cardinality(Serving) = MaxConns /\ active = Cardinality(Serving)
  BY DEF SlotInv, SlotsConserved, TakePermit
<1> DEFINE old == Cardinality(Serving)
           new == Cardinality(Serving')
<1>4. new = old + 1 /\ old \in Nat
  BY <1>2, ServingFinite
<1> HIDE DEF old, new
<1>5. permits' \in Nat /\ active' \in Nat
  BY <1>3
<1>6. permits' + new = MaxConns /\ active' = new
  BY <1>3, <1>4, AdmissionAssumption DEF old
<1>7. SlotsConserved'
  BY <1>6 DEF SlotsConserved, new
<1>8. QED
  BY <1>5, <1>7 DEF SlotInv

\* A connection in service leaves it and releases its permit.
LEMMA SlotReleased ==
    ASSUME SlotInv, HandInv', NEW c \in Conns, conn[c] \in {"hop", "open"}, Release,
           NEW to \in {"orphan", "closed"}, conn' = [conn EXCEPT ![c] = to]
    PROVE  SlotInv'
<1>1. Serving' = Serving \ {c} /\ c \in Serving
  BY DEF SlotInv, HandInv, Serving
<1>2. Cardinality(Serving') = Cardinality(Serving) - 1
  BY <1>1, ServingFinite, FS_RemoveElement
<1>3. Cardinality(Serving') \in Nat
  BY <1>1, ServingFinite, FS_RemoveElement, FS_CardinalityType
<1>4. /\ permits' = permits + 1 /\ active' = active - 1
      /\ permits \in Nat /\ active \in Nat
      /\ permits + Cardinality(Serving) = MaxConns /\ active = Cardinality(Serving)
  BY DEF SlotInv, SlotsConserved, Release
<1> DEFINE old == Cardinality(Serving)
           new == Cardinality(Serving')
<1>5. new = old - 1 /\ old \in Nat /\ new \in Nat
  BY <1>2, <1>3, ServingFinite
<1> HIDE DEF old, new
<1>6. permits' + new = MaxConns /\ active' = new
  BY <1>4, <1>5, AdmissionAssumption DEF old
<1>7. permits' \in Nat /\ active' \in Nat
  BY <1>4, <1>5, <1>6
<1>8. SlotsConserved'
  BY <1>6 DEF SlotsConserved, new
<1>9. QED
  BY <1>7, <1>8 DEF SlotInv

\* All permits are free at the start.
LEMMA SlotInit == Init => SlotInv
<1> SUFFICES ASSUME Init PROVE SlotInv
  OBVIOUS
<1>1. Serving = {}
  BY DEF Init, Serving
<1>2. Cardinality(Serving) = 0
  BY <1>1, FS_EmptySet
<1>3. HandInv
  BY DEF Init, HandInv, Free, Stages
<1>4. QED
  BY <1>2, <1>3, AdmissionAssumption DEF Init, SlotInv, SlotsConserved

\* Every step conserves the permits.
LEMMA SlotStep == SlotInv /\ [Next]_vars => SlotInv'
<1> SUFFICES ASSUME SlotInv, [Next]_vars PROVE SlotInv'
  OBVIOUS
<1>0. HandInv /\ HandInv'
  BY HandStep DEF SlotInv
<1>1. CASE Tick \/ UNCHANGED vars
  <2>1. UNCHANGED <<conn, permits, active>>
    BY <1>1 DEF Tick, slotVars, vars
  <2>2. QED
    BY <1>0, <2>1 DEF SlotInv, SlotsConserved, Serving
<1>2. ASSUME NEW l \in Listeners, RateAllow(l) PROVE SlotInv'
  <2>1. UNCHANGED <<permits, active>>
    BY <1>2 DEF RateAllow, slotVars
  <2>2. QED
    BY <1>0, <1>2, <2>1, HandReleased, SlotStill DEF Stages
<1>3. ASSUME NEW l \in Listeners, NEW c \in Conns, NEW ip \in IPs, Accept(l, c, ip) PROVE SlotInv'
  <2>1. UNCHANGED <<permits, active>>
    BY <1>3 DEF Accept, slotVars
  <2>2. QED
    BY <1>0, <1>3, <2>1, HandTaken, SlotStill DEF Stages
<1>4. ASSUME NEW c \in Conns,
             \/ Validate(c) \/ HandshakeFails(c) \/ HandshakeTimeout(c) \/ OrphanEnds(c)
             \/ NoPermit(c)
      PROVE  SlotInv'
  <2>1. UNCHANGED <<permits, active>> /\ conn[c] \in {"handshake", "validated", "orphan"}
    BY <1>4 DEF Validate, HandshakeFails, HandshakeTimeout, OrphanEnds, NoPermit, slotVars
  <2>2. \E to \in {"validated", "orphan", "closed"} : conn' = [conn EXCEPT ![c] = to]
    BY <1>4 DEF Validate, HandshakeFails, HandshakeTimeout, OrphanEnds, NoPermit, Dropped
  <2>3. QED
    BY <1>0, <2>1, <2>2, SlotStill DEF Stages
<1>5. ASSUME NEW c \in Conns, HopConnects(c) PROVE SlotInv'
  BY <1>0, <1>5, SlotStill DEF HopConnects, Stages
<1>6. ASSUME NEW c \in Conns, TakePermit(c) PROVE SlotInv'
  BY <1>0, <1>6, SlotTaken
<1>7. ASSUME NEW c \in Conns, HopFails(c) \/ TunnelEnds(c) PROVE SlotInv'
  <2>1. PICK to \in {"orphan", "closed"} : conn' = [conn EXCEPT ![c] = to]
    BY <1>7 DEF HopFails, TunnelEnds, Dropped
  <2>2. conn[c] \in {"hop", "open"} /\ Release
    BY <1>7 DEF HopFails, TunnelEnds
  <2>3. QED
    BY <1>0, <2>1, <2>2, SlotReleased
<1>8. ASSUME NEW c \in Conns, Revalidate(c) PROVE SlotInv'
  <2>1. UNCHANGED <<conn, permits, active>>
    BY <1>8 DEF Revalidate, slotVars
  <2>2. QED
    BY <1>0, <2>1 DEF SlotInv, SlotsConserved, Serving
<1>9. QED
  BY <1>1, <1>2, <1>3, <1>4, <1>5, <1>6, <1>7, <1>8 DEF Next

\* No exit of handle_tunnel leaks a permit, and max_conns is never exceeded.
THEOREM SlotsAreConserved == Spec => []SlotsConserved
<1>1. SlotInv => SlotsConserved
  BY DEF SlotInv
<1>2. QED
  BY <1>1, SlotInit, SlotStep, PTL DEF Spec

----------------------------------------------------------------------------
(* The rate limiter *)

Logs == SUBSET [n : Nat, at : Nat]
Tries == SUBSET [n : Nat, stamp : Nat]

\* The log of an address against its attempts: they are numbered alike; an
\* attempt was allowed at most a delay after its stamp; and what the retain has
\* dropped was allowed longer ago than the window that is guaranteed.
LogInv(log, tried, time) ==
    /\ IsFiniteSet(log) /\ IsFiniteSet(tried)
    /\ Cardinality(tried) <= AuthMax
    /\ \A x \in log : x.at <= time /\ x.n < Cardinality(log)
    /\ \A y \in tried : y.n < Cardinality(log)
    /\ \A x, y \in log : x.n = y.n => x = y
    /\ \A x \in log, y \in tried : x.n = y.n => x.at <= y.stamp + MaxDelay
    /\ \A x \in log : x.at > time - (AuthWindow - MaxDelay) => \E y \in tried : y.n = x.n

InWindow(log, t) == {x \in log : x.at \in (t - (AuthWindow - MaxDelay) + 1)..t}
Bounded(log) == \A t \in 0..MaxTime : Cardinality(InWindow(log, t)) <= AuthMax

RateTypes ==
    /\ now \in 0..MaxTime
    /\ accepting \in [Listeners -> [conn : Conns, ip : IPs, stamp : 0..MaxTime] \cup {Free}]
    /\ attempts \in [IPs -> SUBSET [n : Nat, stamp : 0..MaxTime]]
    /\ allowed \in [IPs -> SUBSET [n : Nat, at : 0..MaxTime]]

\* rate_allow takes its lock within MaxDelay.
DelayInv ==
    \A l \in Listeners : accepting[l].conn # NoConn =>
        accepting[l].stamp <= now /\ now - accepting[l].stamp <= MaxDelay

RateInv ==
    /\ RateTypes /\ DelayInv
    /\ \A ip \in IPs : LogInv(allowed[ip], attempts[ip], now) /\ Bounded(allowed[ip])

\* What was allowed in the current window is still among the attempts.
LEMMA RecentFits ==
    ASSUME NEW log \in Logs, NEW tried \in Tries, NEW time \in Nat, LogInv(log, tried, time),
           NEW X \in SUBSET log, \A x \in X : x.at > time - (AuthWindow - MaxDelay)
    PROVE  IsFiniteSet(X) /\ Cardinality(X) \in Nat /\ Cardinality(X) <= AuthMax
<1> DEFINE f == [x \in X |-> CHOOSE y \in tried : y.n = x.n]
<1>1. ASSUME NEW x \in X PROVE f[x] \in tried /\ f[x].n = x.n
  <2>1. \E y \in tried : y.n = x.n
    BY DEF LogInv
  <2>2. QED
    BY <2>1
<1>2. f \in [X -> tried]
  BY <1>1
<1>3. ASSUME NEW a \in X, NEW b \in X, f[a] = f[b] PROVE a = b
  <2>1. a.n = b.n /\ a \in log /\ b \in log
    BY <1>1, <1>3
  <2>2. QED
    BY <2>1 DEF LogInv
<1> HIDE DEF f
<1>4. f \in Injection(X, tried)
  BY <1>2, <1>3, Fun_IsInj
<1>5. IsFiniteSet(tried) /\ Cardinality(tried) <= AuthMax
  BY DEF LogInv
<1>6. IsFiniteSet(X) /\ Cardinality(X) <= Cardinality(tried)
  BY <1>4, <1>5, FS_Injection
<1>7. Cardinality(X) \in Nat /\ Cardinality(tried) \in Nat
  BY <1>5, <1>6, FS_CardinalityType
<1>8. QED
  BY <1>5, <1>6, <1>7, AdmissionAssumption

\* The retain drops only what is too old to count.
LEMMA Retained ==
    ASSUME NEW log \in Logs, NEW tried \in Tries, NEW time \in Nat, LogInv(log, tried, time),
           NEW stamp \in Nat, stamp <= time, time - stamp <= MaxDelay
    PROVE  LogInv(log, Recent(tried, stamp), time) /\ Recent(tried, stamp) \in Tries
<1> DEFINE kept == Recent(tried, stamp)
<1>1. kept \subseteq tried /\ \A y \in tried : y \in kept \/ stamp - y.stamp >= AuthWindow
  BY AdmissionAssumption DEF Recent, Tries
<1>2. IsFiniteSet(kept) /\ Cardinality(kept) <= Cardinality(tried)
  BY <1>1, FS_Subset DEF LogInv
<1>3. Cardinality(kept) <= AuthMax
  <2>1. Cardinality(kept) \in Nat /\ Cardinality(tried) \in Nat /\ Cardinality(tried) <= AuthMax
    BY <1>2, FS_CardinalityType DEF LogInv
  <2>2. QED
    BY <1>2, <2>1, AdmissionAssumption
<1> HIDE DEF kept
<1>4. ASSUME NEW x \in log, x.at > time - (AuthWindow - MaxDelay)
      PROVE  \E y \in kept : y.n = x.n
  <2>1. PICK y \in tried : y.n = x.n
    BY <1>4 DEF LogInv
  <2>2. x.at <= y.stamp + MaxDelay
    BY <2>1 DEF LogInv
  <2>3. x.at \in Nat /\ y.stamp \in Nat
    BY DEF Logs, Tries
  <2>4. ~(stamp - y.stamp >= AuthWindow)
    BY <1>4, <2>2, <2>3, AdmissionAssumption
  <2>5. QED
    BY <1>1, <2>1, <2>4
<1>5. LogInv(log, kept, time)
  BY <1>1, <1>2, <1>3, <1>4 DEF LogInv
<1>6. QED
  BY <1>1, <1>5 DEF kept, Tries

\* An attempt below the limit is logged and remembered.
LEMMA Logged ==
    ASSUME NEW log \in Logs, NEW tried \in Tries, NEW time \in Nat, LogInv(log, tried, time),
           NEW stamp \in Nat, stamp <= time, time - stamp <= MaxDelay,
           Cardinality(tried) < AuthMax
    PROVE  LET n == Cardinality(log)
           IN  LogInv(log \cup {[n |-> n, at |-> time]}, tried \cup {[n |-> n, stamp |-> stamp]}, time)
<1> DEFINE n == Cardinality(log)
           x == [n |-> n, at |-> time]
           y == [n |-> n, stamp |-> stamp]
           more == log \cup {x}
           most == tried \cup {y}
<1>1. /\ IsFiniteSet(log) /\ IsFiniteSet(tried) /\ n \in Nat /\ Cardinality(tried) \in Nat
      /\ \A z \in log : z.n < n
      /\ \A z \in tried : z.n < n
  BY FS_CardinalityType DEF LogInv
<1>2. x \notin log /\ y \notin tried
  BY <1>1
<1>3. IsFiniteSet(more) /\ Cardinality(more) = n + 1
  BY <1>1, <1>2, FS_AddElement
<1>4. IsFiniteSet(most) /\ Cardinality(most) = Cardinality(tried) + 1
  BY <1>1, <1>2, FS_AddElement
<1>5. Cardinality(most) <= AuthMax
  BY <1>1, <1>4, AdmissionAssumption
<1>6. x.n = n /\ x.at = time /\ y.n = n /\ y.stamp = stamp
  OBVIOUS
<1>7. \A z \in log : z.n \in Nat /\ z.at \in Nat
  BY DEF Logs
<1>8. \A z \in tried : z.n \in Nat /\ z.stamp \in Nat
  BY DEF Tries
<1> HIDE DEF x, y, n
<1>9. \A z \in more : z.at <= time /\ z.n < Cardinality(more)
  BY <1>1, <1>3, <1>6, <1>7 DEF LogInv
<1>10. \A z \in most : z.n < Cardinality(more)
  BY <1>1, <1>3, <1>6, <1>8
<1>11. \A z, w \in more : z.n = w.n => z = w
  BY <1>1, <1>6, <1>7 DEF LogInv
<1>12. \A z \in more, w \in most : z.n = w.n => z.at <= w.stamp + MaxDelay
  BY <1>1, <1>6, <1>7, <1>8, AdmissionAssumption DEF LogInv
<1>13. \A z \in more : z.at > time - (AuthWindow - MaxDelay) => \E w \in most : w.n = z.n
  BY <1>6 DEF LogInv
<1>14. LogInv(more, most, time)
  BY <1>3, <1>4, <1>5, <1>9, <1>10, <1>11, <1>12, <1>13 DEF LogInv
<1>15. QED
  BY <1>14 DEF x, y, n

\* Time passes: less of the log counts.
LEMMA LogAges ==
    ASSUME NEW log \in Logs, NEW tried \in Tries, NEW time \in Nat, LogInv(log, tried, time)
    PROVE  LogInv(log, tried, time + 1)
<1>1. \A x \in log : x.at \in Nat
  BY DEF Logs
<1>2. QED
  BY <1>1, AdmissionAssumption DEF LogInv

\* The windows that are over do not change, and the others hold what counts.
LEMMA StaysBounded ==
    ASSUME NEW log \in Logs, NEW tried \in Tries, NEW time \in Nat, LogInv(log, tried, time),
           NEW before \in SUBSET log, Bounded(before),
           \A x \in log : x \in before \/ x.at = time
    PROVE  Bounded(log)
<1> SUFFICES ASSUME NEW t \in 0..MaxTime PROVE Cardinality(InWindow(log, t)) <= AuthMax
  BY DEF Bounded
<1>1. \A x \in log : x.at \in Nat
  BY DEF Logs
<1>2. CASE t < time
  <2>1. InWindow(log, t) = InWindow(before, t)
    BY <1>1, <1>2 DEF InWindow
  <2>2. QED
    BY <2>1 DEF Bounded
<1>3. CASE t >= time
  <2>1. \A x \in InWindow(log, t) : x \in log /\ x.at > time - (AuthWindow - MaxDelay)
    BY <1>1, <1>3, AdmissionAssumption DEF InWindow
  <2>2. InWindow(log, t) \in SUBSET log
    BY DEF InWindow
  <2>3. QED
    BY <2>1, <2>2, RecentFits
<1>4. QED
  BY <1>2, <1>3

\* rate_allow under its lock.
LEMMA RateAllowKeepsInv ==
    ASSUME RateInv, NEW l \in Listeners, RateAllow(l) PROVE RateInv'
<1> DEFINE a == accepting[l]
           ip == a.ip
           recent == Recent(attempts[ip], a.stamp)
           n == Cardinality(allowed[ip])
           ok == Cardinality(recent) < AuthMax
<1>1. /\ a \in [conn : Conns, ip : IPs, stamp : 0..MaxTime]
      /\ a.conn # NoConn /\ ip \in IPs /\ a.stamp \in Nat /\ now \in Nat
      /\ a.stamp <= now /\ now - a.stamp <= MaxDelay
  BY DEF RateAllow, RateInv, RateTypes, DelayInv, Free
<1>2. /\ accepting' = [accepting EXCEPT ![l] = Free]
      /\ attempts' = [attempts EXCEPT ![ip] = recent \cup
                        IF ok THEN {[n |-> n, stamp |-> a.stamp]} ELSE {}]
      /\ allowed' = [allowed EXCEPT ![ip] = @ \cup IF ok THEN {[n |-> n, at |-> now]} ELSE {}]
      /\ now' = now
  BY DEF RateAllow
<1>3. /\ \A p \in IPs : allowed[p] \in Logs /\ attempts[p] \in Tries
      /\ LogInv(allowed[ip], attempts[ip], now) /\ Bounded(allowed[ip])
  BY <1>1 DEF RateInv, RateTypes, Logs, Tries
<1>4. LogInv(allowed[ip], recent, now) /\ recent \in Tries
  BY <1>1, <1>3, Retained
<1>5. n \in Nat /\ \A y \in recent : y \in attempts[ip]
  BY <1>3, FS_CardinalityType DEF LogInv, Recent
<1> HIDE DEF a, recent, n, ok
<1>6. /\ \A p \in IPs : p # ip => allowed'[p] = allowed[p] /\ attempts'[p] = attempts[p]
      /\ ok => /\ allowed'[ip] = allowed[ip] \cup {[n |-> n, at |-> now]}
               /\ attempts'[ip] = recent \cup {[n |-> n, stamp |-> a.stamp]}
      /\ ~ok => allowed'[ip] = allowed[ip] /\ attempts'[ip] = recent
  BY <1>1, <1>2 DEF RateInv, RateTypes
<1>7. LogInv(allowed'[ip], attempts'[ip], now)
  <2>1. CASE ok
    BY <1>1, <1>3, <1>4, <1>6, <2>1, Logged DEF ok, n
  <2>2. CASE ~ok
    BY <1>4, <1>6, <2>2
  <2>3. QED
    BY <2>1, <2>2
<1>8. allowed'[ip] \in SUBSET [n : Nat, at : 0..MaxTime]
  <2>1. [n |-> n, at |-> now] \in [n : Nat, at : 0..MaxTime]
    BY <1>5 DEF RateInv, RateTypes
  <2>2. allowed[ip] \in SUBSET [n : Nat, at : 0..MaxTime]
    BY <1>1 DEF RateInv, RateTypes
  <2>3. QED
    BY <1>6, <2>1, <2>2
<1>9. attempts'[ip] \in SUBSET [n : Nat, stamp : 0..MaxTime]
  <2>1. [n |-> n, stamp |-> a.stamp] \in [n : Nat, stamp : 0..MaxTime]
    BY <1>1, <1>5
  <2>2. attempts[ip] \in SUBSET [n : Nat, stamp : 0..MaxTime]
    BY <1>1 DEF RateInv, RateTypes
  <2>3. QED
    BY <1>5, <1>6, <2>1, <2>2
<1>10. Bounded(allowed'[ip])
  <2>1. allowed'[ip] \in Logs /\ attempts'[ip] \in Tries
    BY <1>8, <1>9 DEF Logs, Tries
  <2>2. allowed[ip] \in SUBSET allowed'[ip]
    BY <1>6
  <2>3. \A x \in allowed'[ip] : x \in allowed[ip] \/ x.at = now
    BY <1>6
  <2>4. QED
    BY <1>1, <1>3, <1>7, <2>1, <2>2, <2>3, StaysBounded
<1>11. RateTypes'
  <2>1. attempts' \in [IPs -> SUBSET [n : Nat, stamp : 0..MaxTime]]
    BY <1>1, <1>2, <1>6, <1>9 DEF RateInv, RateTypes
  <2>2. allowed' \in [IPs -> SUBSET [n : Nat, at : 0..MaxTime]]
    BY <1>1, <1>2, <1>6, <1>8 DEF RateInv, RateTypes
  <2>3. accepting' \in [Listeners -> [conn : Conns, ip : IPs, stamp : 0..MaxTime] \cup {Free}]
    BY <1>2 DEF RateInv, RateTypes
  <2>4. QED
    BY <1>2, <2>1, <2>2, <2>3 DEF RateInv, RateTypes
<1>12. DelayInv'
  BY <1>1, <1>2 DEF RateInv, RateTypes, DelayInv, Free
<1>13. QED
  BY <1>2, <1>6, <1>7, <1>10, <1>11, <1>12 DEF RateInv

\* Every step keeps the logs, the attempts and the delays.
LEMMA RateStep == RateInv /\ [Next]_vars => RateInv'
<1> SUFFICES ASSUME RateInv, [Next]_vars PROVE RateInv'
  OBVIOUS
<1> USE DEF RateInv
<1>1. CASE Tick
  <2>0. /\ UNCHANGED <<accepting, attempts, allowed>>
        /\ \A l \in Listeners : accepting[l].conn # NoConn => now - accepting[l].stamp < MaxDelay
    BY <1>1 DEF Tick, rateVars
  <2>1. now \in Nat /\ now' = now + 1 /\ now' \in 0..MaxTime
    BY <1>1, AdmissionAssumption DEF Tick, RateTypes
  <2>2. RateTypes'
    BY <2>0, <2>1 DEF RateTypes
  <2>3. \A l \in Listeners : accepting[l].conn # NoConn => accepting[l].stamp \in Nat
    BY DEF RateTypes, Free
  <2>4. DelayInv'
    BY <2>0, <2>1, <2>3, AdmissionAssumption DEF DelayInv
  <2>5. \A ip \in IPs : allowed[ip] \in Logs /\ attempts[ip] \in Tries
    BY DEF RateTypes, Logs, Tries
  <2>6. \A ip \in IPs : LogInv(allowed'[ip], attempts'[ip], now')
    BY <2>0, <2>1, <2>5, LogAges
  <2>7. QED
    BY <2>0, <2>2, <2>4, <2>6
<1>2. ASSUME NEW l \in Listeners, RateAllow(l) PROVE RateInv'
  BY <1>2, RateAllowKeepsInv
<1>3. ASSUME NEW l \in Listeners, NEW c \in Conns, NEW ip \in IPs, Accept(l, c, ip) PROVE RateInv'
  <2>1. /\ accepting' = [accepting EXCEPT ![l] = [conn |-> c, ip |-> ip, stamp |-> now]]
        /\ UNCHANGED <<now, attempts, allowed>>
    BY <1>3 DEF Accept
  <2>2. RateTypes'
    BY <2>1 DEF RateTypes
  <2>3. DelayInv'
    BY <2>1, AdmissionAssumption DEF DelayInv, RateTypes
  <2>4. QED
    BY <2>1, <2>2, <2>3
<1>4. CASE UNCHANGED <<now, rateVars>>
  BY <1>4 DEF rateVars, RateTypes, DelayInv
<1>5. ASSUME NEW c \in Conns,
             \/ Validate(c) \/ Revalidate(c)
             \/ HandshakeFails(c) \/ HandshakeTimeout(c) \/ OrphanEnds(c)
             \/ TakePermit(c) \/ NoPermit(c)
             \/ HopConnects(c) \/ HopFails(c) \/ TunnelEnds(c)
      PROVE  RateInv'
  BY <1>4, <1>5 DEF Validate, Revalidate, HandshakeFails, HandshakeTimeout, OrphanEnds,
                    TakePermit, NoPermit, HopConnects, HopFails, TunnelEnds
<1>6. CASE UNCHANGED vars
  BY <1>4, <1>6 DEF vars, rateVars
<1>7. QED
  BY <1>1, <1>2, <1>3, <1>5, <1>6 DEF Next

LEMMA RateInit == Init => RateInv
<1> SUFFICES ASSUME Init PROVE RateInv
  OBVIOUS
<1>1. IsFiniteSet({}) /\ Cardinality({}) = 0
  BY FS_EmptySet
<1>2. RateTypes
  BY AdmissionAssumption DEF Init, RateTypes
<1>3. DelayInv
  BY DEF Init, DelayInv, Free
<1>4. ASSUME NEW ip \in IPs PROVE LogInv(allowed[ip], attempts[ip], now) /\ Bounded(allowed[ip])
  <2>1. allowed[ip] = {} /\ attempts[ip] = {}
    BY DEF Init
  <2>2. \A t \in 0..MaxTime : InWindow({}, t) = {}
    BY DEF InWindow
  <2>3. 0 <= AuthMax
    BY AdmissionAssumption
  <2>4. Bounded({})
    BY <1>1, <2>2, <2>3 DEF Bounded
  <2>5. LogInv({}, {}, now)
    BY <1>1, <2>3 DEF LogInv
  <2>6. QED
    BY <2>1, <2>4, <2>5
<1>5. QED
  BY <1>2, <1>3, <1>4 DEF RateInv

\* rate_allow lets no more handshakes of an address begin in a window, less the
\* delay of its lock, than its limit: for every window, limit, delay and number of
\* connections.
THEOREM HandshakesAreBounded == Spec => []HandshakesBounded
<1>1. RateInv => HandshakesBounded
  BY DEF RateInv, Bounded, InWindow, HandshakesBounded
<1>2. QED
  BY <1>1, RateInit, RateStep, PTL DEF Spec

----------------------------------------------------------------------------
(* The types *)

\* The types of what the three arguments do not need.
OtherTypes ==
    /\ via \in [Conns -> Listeners]
    /\ verdict \in [Conns -> {"none", "ok", "refused"}]
    /\ downstream \in Conns \cup {NoConn}
    /\ granted \in Seq(Entries)
    /\ repeats \in 0..MaxRepeats

LEMMA OtherTypesStep == OtherTypes /\ now \in 0..MaxTime /\ [Next]_vars => OtherTypes'
<1> SUFFICES ASSUME OtherTypes, now \in 0..MaxTime, [Next]_vars PROVE OtherTypes'
  OBVIOUS
<1> USE DEF OtherTypes
<1>1. CASE UNCHANGED <<via, verdict, downstream, granted, repeats>>
  BY <1>1
<1>2. CASE Tick \/ UNCHANGED vars
  BY <1>1, <1>2 DEF Tick, nonceVars, cacheVars, slotVars, vars
<1>3. ASSUME NEW l \in Listeners, RateAllow(l) PROVE OtherTypes'
  BY <1>1, <1>3 DEF RateAllow, nonceVars, cacheVars, slotVars
<1>4. ASSUME NEW l \in Listeners, NEW c \in Conns, NEW ip \in IPs, Accept(l, c, ip) PROVE OtherTypes'
  BY <1>4 DEF Accept, nonceVars, cacheVars, slotVars
<1>5. ASSUME NEW c \in Conns, Validate(c) \/ Revalidate(c) PROVE OtherTypes'
  <2>1. UNCHANGED <<via, downstream>>
    BY <1>5 DEF Validate, Revalidate, slotVars
  <2>2. /\ verdict' \in [Conns -> {"none", "ok", "refused"}]
        /\ repeats' \in 0..MaxRepeats
    BY <1>5, AdmissionAssumption DEF Validate, Revalidate
  <2>3. granted' = granted \/ \E n \in Nonces : granted' = Append(granted, [nonce |-> n, at |-> now])
    BY <1>5 DEF Validate, Revalidate, Validates, InsertFresh, InsertReplayed, cacheVars
  <2>4. granted' \in Seq(Entries)
    <3>1. \A n \in Nonces : [nonce |-> n, at |-> now] \in Entries
      BY DEF Entries
    <3>2. \A e \in Entries : Append(granted, e) \in Seq(Entries)
      OBVIOUS
    <3>3. QED
      BY <2>3, <3>1, <3>2
  <2>5. QED
    BY <2>1, <2>2, <2>4
<1>6. ASSUME NEW c \in Conns, HopConnects(c) PROVE OtherTypes'
  BY <1>6 DEF HopConnects, nonceVars, cacheVars
<1>7. ASSUME NEW c \in Conns,
             \/ HandshakeFails(c) \/ HandshakeTimeout(c) \/ OrphanEnds(c)
             \/ TakePermit(c) \/ NoPermit(c) \/ HopFails(c) \/ TunnelEnds(c)
      PROVE  OtherTypes'
  BY <1>1, <1>7 DEF HandshakeFails, HandshakeTimeout, OrphanEnds, TakePermit, NoPermit, HopFails,
                    TunnelEnds, nonceVars, cacheVars, slotVars
<1>8. QED
  BY <1>2, <1>3, <1>4, <1>5, <1>6, <1>7 DEF Next

\* The queue of the cache holds entries of the log.
LEMMA QueueTypes == NonceInv /\ OtherTypes => order \in Seq(Entries) /\ set \subseteq Nonces
<1> SUFFICES ASSUME NonceInv, OtherTypes PROVE order \in Seq(Entries) /\ set \subseteq Nonces
  OBVIOUS
<1> DEFINE d == Len(granted) - Len(order)
<1>1. /\ order \in Seq(Stamped) /\ granted \in Seq(Entries)
      /\ Len(order) \in Nat /\ Len(granted) \in Nat /\ Len(order) <= Len(granted)
      /\ \A i \in 1..Len(order) : order[i] = granted[d + i]
  BY DEF NonceInv, Coherent, OtherTypes
<1>2. d \in Nat /\ d + Len(order) = Len(granted)
  BY <1>1
<1> HIDE DEF d
<1>3. ASSUME NEW i \in 1..Len(order) PROVE order[i] \in Entries
  <2>1. d + i \in 1..Len(granted)
    BY <1>1, <1>2
  <2>2. QED
    BY <1>1, <2>1
<1>4. order \in Seq(Entries)
  BY <1>1, <1>3
<1>5. Remembered(order) \subseteq Nonces
  <2>1. DOMAIN order = 1..Len(order)
    BY <1>4
  <2>2. \A i \in DOMAIN order : order[i].nonce \in Nonces
    BY <1>3, <2>1 DEF Entries
  <2>3. QED
    BY <2>2 DEF Remembered
<1>6. QED
  BY <1>4, <1>5 DEF NonceInv

\* The type invariant of the admission: in particular no more permits are given
\* back than were taken.
THEOREM TypeCorrect == Spec => []TypeOK
<1>1. Init => OtherTypes
  BY AdmissionAssumption DEF Init, OtherTypes, Listeners
<1>2. OtherTypes /\ RateInv /\ [Next]_vars => OtherTypes'
  BY OtherTypesStep DEF RateInv, RateTypes
<1>3. OtherTypes /\ RateInv /\ NonceInv /\ SlotInv => TypeOK
  <2> SUFFICES ASSUME OtherTypes, RateInv, NonceInv, SlotInv PROVE TypeOK
    OBVIOUS
  <2>1. permits \in 0..MaxConns /\ active \in 0..MaxConns
    BY ServingFinite, AdmissionAssumption DEF SlotInv, SlotsConserved
  <2>2. QED
    BY <2>1, QueueTypes DEF OtherTypes, RateInv, RateTypes, SlotInv, HandInv, TypeOK
<1>4. QED
  BY <1>1, <1>2, <1>3, RateInit, RateStep, NonceInit, NonceStep, SlotInit, SlotStep, PTL DEF Spec
=============================================================================
