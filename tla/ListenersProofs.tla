--------------------------- MODULE ListenersProofs ---------------------------
(***************************************************************************)
(* Proofs about ReplayFilter, for every window and any number of packets,  *)
(* and about CertReload, for any number of identities and crashes.         *)
(***************************************************************************)
EXTENDS ReplayFilter, CertReload, FiniteSetTheorems, TLAPS

----------------------------------------------------------------------------
(* The replay window. *)

\* The floor follows the newest packet at the distance of the window.
FloorInv == floor = FloorFor(last)

\* What was accepted is remembered, or is below the floor; it was accepted
\* once, and nothing newer than last was.
MemoryInv ==
    \A s \in Seqs :
        /\ s \in seen => accepted[s] = 1
        /\ accepted[s] # 0 => accepted[s] = 1 /\ s <= last /\ (s \in seen \/ s < floor)

SizeInv == IsFiniteSet(seen) /\ SeenBounded

IInv == FilterTypeOK /\ FloorInv /\ MemoryInv /\ ReorderedAccepted /\ SizeInv

----------------------------------------------------------------------------
\* An interval of naturals no longer than the window and one fits in twice the
\* window: what is left after a purge.
LEMMA PurgedFits ==
    ASSUME NEW S \in SUBSET Nat, NEW min \in Nat, NEW top \in Nat,
           top - min <= Window, min <= top, \A x \in S : x <= top
    PROVE  /\ IsFiniteSet(Purged(S, min))
           /\ Cardinality(Purged(S, min)) <= 2 * Window
<1>1. ASSUME NEW x \in Purged(S, min) PROVE x \in min..top
  <2>1. x \in S /\ x >= min
    BY DEF Purged
  <2>2. x \in Nat /\ x <= top
    BY <2>1
  <2>3. QED
    BY <2>1, <2>2
<1>2. IsFiniteSet(min..top) /\ Cardinality(min..top) = top - min + 1
  BY FS_Interval
<1>3. /\ IsFiniteSet(Purged(S, min))
      /\ Cardinality(Purged(S, min)) <= Cardinality(min..top)
  BY <1>1, <1>2, FS_Subset
<1>4. Cardinality(Purged(S, min)) \in Nat
  BY <1>3, FS_CardinalityType
<1>5. QED
  BY <1>2, <1>3, <1>4, ReplayAssumption

\* The floor trails the newest packet by at most the window.
LEMMA FloorIsNear ==
    ASSUME NEW top \in Nat
    PROVE  FloorFor(top) \in Nat /\ FloorFor(top) <= top /\ top - FloorFor(top) <= Window
BY ReplayAssumption DEF FloorFor

\* A filter that has seen nothing satisfies the invariant.
LEMMA InitInv == FilterInit => IInv
<1> SUFFICES ASSUME FilterInit PROVE IInv
  OBVIOUS
<1>1. IsFiniteSet({}) /\ Cardinality({}) = 0
  BY FS_EmptySet
<1>2. FilterTypeOK /\ FloorInv /\ MemoryInv /\ ReorderedAccepted
  BY ReplayAssumption
     DEF FilterInit, FilterTypeOK, FloorInv, FloorFor, MemoryInv, ReorderedAccepted, Seqs
<1>3. SizeInv
  BY <1>1, ReplayAssumption DEF FilterInit, SizeInv, SeenBounded
<1>4. QED
  BY <1>2, <1>3 DEF IInv

\* observe that returns true.
LEMMA AcceptKeepsInv ==
    ASSUME IInv, NEW seq \in Seqs, AcceptPacket(seq) PROVE IInv'
<1> USE ReplayAssumption
<1> DEFINE grown == seen \cup {seq}
<1>1. /\ send_seq \in 0..MaxSeq /\ last \in Nat /\ floor \in Nat
      /\ seen \in SUBSET Seqs /\ accepted \in [Seqs -> Nat] /\ dropped \in SUBSET Seqs
  BY DEF IInv, FilterTypeOK
<1>2. /\ seq \in Nat /\ seq >= floor /\ seq \notin seen
      /\ last' = (IF seq > last THEN seq ELSE last)
      /\ floor' = (IF seq > last THEN FloorFor(seq) ELSE floor)
      /\ seen' = (IF Cardinality(grown) > 2 * Window THEN Purged(grown, floor') ELSE grown)
      /\ accepted' = [accepted EXCEPT ![seq] = @ + 1]
      /\ UNCHANGED <<send_seq, dropped>>
  BY DEF AcceptPacket, Fresh, Seqs
<1>3. /\ last' \in Nat /\ floor' \in Nat /\ floor <= floor' /\ last <= last'
      /\ seq <= last' /\ floor' = FloorFor(last')
  BY <1>1, <1>2 DEF IInv, FloorInv, FloorFor
<1>4. seen' \subseteq grown /\ grown \in SUBSET Seqs
      /\ \A x \in grown : x \in seen' \/ x < floor'
  <2>1. grown \in SUBSET Seqs
    BY <1>1
  <2>2. seen' = grown \/ seen' = Purged(grown, floor')
    BY <1>2
  <2>3. QED
    BY <1>3, <2>1, <2>2 DEF Purged, Seqs
<1>5. accepted[seq] = 0
  BY <1>1, <1>2 DEF IInv, MemoryInv
<1>6. accepted' \in [Seqs -> Nat] /\ accepted'[seq] = 1
      /\ \A s \in Seqs : s # seq => accepted'[s] = accepted[s]
  BY <1>1, <1>2, <1>5
<1>7. FilterTypeOK'
  BY <1>1, <1>2, <1>3, <1>4, <1>6 DEF FilterTypeOK
<1>8. FloorInv'
  BY <1>3 DEF FloorInv
<1>9. MemoryInv'
  <2> SUFFICES ASSUME NEW s \in Seqs
               PROVE  /\ s \in seen' => accepted'[s] = 1
                      /\ accepted'[s] # 0 => /\ accepted'[s] = 1 /\ s <= last'
                                             /\ s \in seen' \/ s < floor'
    BY DEF MemoryInv
  <2>1. CASE s = seq
    BY <1>3, <1>4, <1>6, <2>1
  <2>2. CASE s # seq
    <3>1. /\ s \in seen => accepted[s] = 1
          /\ accepted[s] # 0 => accepted[s] = 1 /\ s <= last /\ (s \in seen \/ s < floor)
      BY DEF IInv, MemoryInv
    <3>2. s \in seen' => s \in seen
      BY <1>4, <2>2
    <3>3. s \in seen => s \in seen' \/ s < floor'
      BY <1>4
    <3>4. s \in Nat
      BY DEF Seqs
    <3>5. QED
      BY <1>1, <1>3, <1>6, <2>2, <3>1, <3>2, <3>3, <3>4
  <2>3. QED
    BY <2>1, <2>2
<1>10. ReorderedAccepted'
  BY <1>1, <1>2, <1>3 DEF IInv, ReorderedAccepted, Seqs
<1>11. SizeInv'
  <2>1. IsFiniteSet(grown)
    BY FS_AddElement DEF IInv, SizeInv
  <2>2. CASE Cardinality(grown) > 2 * Window
    <3>1. \A x \in grown : x <= last'
      BY <1>1, <1>3 DEF IInv, MemoryInv, Seqs
    <3>2. last' - floor' <= Window /\ floor' <= last'
      BY <1>3, FloorIsNear
    <3>3. grown \in SUBSET Nat
      BY <1>4 DEF Seqs
    <3>4. seen' = Purged(grown, floor')
      BY <1>2, <2>2
    <3>5. QED
      BY <1>3, <3>1, <3>2, <3>3, <3>4, PurgedFits DEF SizeInv, SeenBounded
  <2>3. CASE ~(Cardinality(grown) > 2 * Window)
    <3>1. seen' = grown /\ Cardinality(grown) \in Nat
      BY <1>2, <2>1, <2>3, FS_CardinalityType
    <3>2. QED
      BY <2>1, <2>3, <3>1 DEF SizeInv, SeenBounded
  <2>4. QED
    BY <2>2, <2>3
<1>12. QED
  BY <1>7, <1>8, <1>9, <1>10, <1>11 DEF IInv

\* observe that returns false.
LEMMA RefuseKeepsInv ==
    ASSUME IInv, NEW seq \in Seqs, RefusePacket(seq) PROVE IInv'
<1>1. FilterTypeOK' /\ FloorInv' /\ MemoryInv' /\ SizeInv'
  BY DEF IInv, RefusePacket, FilterTypeOK, FloorInv, MemoryInv, SizeInv, SeenBounded
<1>2. ReorderedAccepted'
  <2>1. accepted[seq] = 0 => seq + Window < last
    <3>1. accepted[seq] = 0 => seq \notin seen
      BY DEF IInv, MemoryInv
    <3>2. accepted[seq] = 0 => seq < floor
      BY <3>1 DEF RefusePacket, Fresh, Seqs, IInv, FilterTypeOK
    <3>3. QED
      BY <3>2, ReplayAssumption DEF IInv, FloorInv, FloorFor, FilterTypeOK, Seqs
  <2>2. QED
    BY <2>1 DEF IInv, ReorderedAccepted, RefusePacket
<1>3. QED
  BY <1>1, <1>2 DEF IInv

\* IInv is an inductive invariant of the specification.
THEOREM Invariance == FilterSpec => []IInv
<1>1. IInv /\ [FilterNext]_filterVars => IInv'
  <2> SUFFICES ASSUME IInv, [FilterNext]_filterVars PROVE IInv'
    OBVIOUS
  <2>1. CASE Encrypt
    BY <2>1, ReplayAssumption
       DEF Encrypt, IInv, FilterTypeOK, FloorInv, MemoryInv, ReorderedAccepted, SizeInv, SeenBounded
  <2>2. ASSUME NEW seq \in Seqs, AcceptPacket(seq) PROVE IInv'
    BY <2>2, AcceptKeepsInv
  <2>3. ASSUME NEW seq \in Seqs, RefusePacket(seq) PROVE IInv'
    BY <2>3, RefuseKeepsInv
  <2>4. CASE UNCHANGED filterVars
    BY <2>4
       DEF filterVars, IInv, FilterTypeOK, FloorInv, MemoryInv, ReorderedAccepted, SizeInv, SeenBounded
  <2>5. QED
    BY <2>1, <2>2, <2>3, <2>4 DEF FilterNext
<1>2. QED
  BY InitInv, <1>1, PTL DEF FilterSpec

\* Every variable of the filter keeps its type: observe works within the numbers
\* that were sent.
THEOREM TypeCorrect == FilterSpec => []FilterTypeOK
BY Invariance, PTL DEF IInv

\* No packet is accepted twice, however the network repeats and reorders.
THEOREM NoReplay == FilterSpec => []AcceptedOnce
<1>1. IInv => AcceptedOnce
  BY DEF IInv, MemoryInv, AcceptedOnce
<1>2. QED
  BY Invariance, <1>1, PTL

\* A packet is only refused for being more than a window late.
THEOREM NoFreshPacketLost == FilterSpec => []ReorderedAccepted
BY Invariance, PTL DEF IInv

\* The set of remembered packets never exceeds twice the window.
THEOREM MemoryBounded == FilterSpec => []SeenBounded
BY Invariance, PTL DEF IInv, SizeInv

----------------------------------------------------------------------------
(* The certificate. *)

\* Until the operator deploys one, there is a single identity: the one in the
\* files, as far as they are written, in the load in hand, and served.
SingleInv ==
    newest = NoFile =>
        /\ served \in {NoFile, shown}
        /\ shown # NoFile => certFile = shown /\ keyFile = shown
        /\ keyFile # NoFile => certFile = keyFile
        /\ watcher = "key" => loaded = certFile /\ keyFile # NoFile
        /\ watcher = "saveCert" => certFile = NoFile /\ keyFile = NoFile /\ served = NoFile
        /\ watcher = "saveKey" => certFile = loaded /\ keyFile = NoFile /\ served = NoFile
        /\ watcher \in {"saveCert", "saveKey"} => loaded # NoFile

CertInv == CertTypeOK /\ SingleInv

----------------------------------------------------------------------------
\* A step of the load keeps the invariant.
LEMMA LoadKeepsInv ==
    ASSUME CertInv, LoadCert \/ LoadRefused \/ Generate \/ SaveCert \/ SaveKey \/ LoadKey
    PROVE  CertInv'
<1> USE CertAssumption DEF CertInv, CertTypeOK, SingleInv, fileVars, deployVars, historyVars,
        At, Failing, Serves, NoFile, Unread
<1>1. CASE LoadCert
  BY <1>1 DEF LoadCert
<1>2. CASE LoadRefused
  BY <1>2 DEF LoadRefused
<1>3. CASE Generate
  BY <1>3 DEF Generate
<1>4. CASE SaveCert
  BY <1>4 DEF SaveCert
<1>5. CASE SaveKey
  BY <1>5 DEF SaveKey
<1>6. CASE LoadKey
  BY <1>6 DEF LoadKey
<1>7. QED
  BY <1>1, <1>2, <1>3, <1>4, <1>5, <1>6

\* So does a step of the watcher, the operator or the machine.
LEMMA RestKeepsInv ==
    ASSUME CertInv,
           \/ Hangup \/ Notice \/ FinishDeploy \/ Signal \/ Crash
           \/ \E keyIsFirst \in BOOLEAN : Deploy(keyIsFirst)
    PROVE  CertInv'
<1> USE CertAssumption DEF CertInv, CertTypeOK, SingleInv, fileVars, deployVars, historyVars,
        At, NoFile, Unread
<1>1. CASE Hangup
  BY <1>1 DEF Hangup
<1>2. CASE Notice
  BY <1>2 DEF Notice
<1>3. CASE FinishDeploy
  BY <1>3 DEF FinishDeploy
<1>4. CASE Signal
  BY <1>4 DEF Signal
<1>5. CASE Crash
  <2>1. /\ crashes' \in 0..MaxCrashes /\ served' = 0 /\ watcher' = "load"
        /\ last_mtime' = -1 /\ loaded' = 0 /\ hup' = FALSE
        /\ UNCHANGED <<certFile, keyFile, identities, newest, keyFirst, shown>>
    BY <1>5 DEF Crash
  <2>2. CertTypeOK'
    <3>1. last_mtime' \in Nat \cup {Unread}
      BY <2>1
    <3>2. {certFile, keyFile, identities, loaded, served, newest, shown}' \subseteq Nat
      BY <2>1
    <3>3. /\ watcher' \in {"load", "key", "saveCert", "saveKey", "watching", "failed"}
          /\ hup' \in BOOLEAN /\ keyFirst' \in BOOLEAN /\ crashes' \in 0..MaxCrashes
      BY <2>1
    <3>4. QED
      BY <3>1, <3>2, <3>3
  <2>3. SingleInv'
    BY <2>1
  <2>4. QED
    BY <2>2, <2>3
<1>6. ASSUME NEW keyIsFirst \in BOOLEAN, Deploy(keyIsFirst) PROVE CertInv'
  BY <1>6 DEF Deploy
<1>7. QED
  BY <1>1, <1>2, <1>3, <1>4, <1>5, <1>6

\* CertInv is an inductive invariant of the certificate's listener.
THEOREM CertInvariance == CertSpec => []CertInv
<1>1. CertInit => CertInv
  <2> SUFFICES ASSUME CertInit PROVE CertInv
    OBVIOUS
  <2>1. CertTypeOK
    <3>1. last_mtime \in Nat \cup {Unread}
      BY DEF CertInit
    <3>2. {certFile, keyFile, identities, loaded, served, newest, shown} \subseteq Nat
      BY DEF CertInit, NoFile
    <3>3. /\ watcher \in {"load", "key", "saveCert", "saveKey", "watching", "failed"}
          /\ hup \in BOOLEAN /\ keyFirst \in BOOLEAN
      BY DEF CertInit
    <3>4. crashes \in 0..MaxCrashes
      BY CertAssumption DEF CertInit
    <3>5. QED
      BY <3>1, <3>2, <3>3, <3>4 DEF CertTypeOK
  <2>2. SingleInv
    BY DEF CertInit, SingleInv, NoFile
  <2>3. QED
    BY <2>1, <2>2 DEF CertInv
<1>2. CertInv /\ [CertNext]_certVars => CertInv'
  <2> SUFFICES ASSUME CertInv, [CertNext]_certVars PROVE CertInv'
    OBVIOUS
  <2>1. CASE UNCHANGED certVars
    BY <2>1 DEF certVars, fileVars, deployVars, historyVars, CertInv, CertTypeOK, SingleInv
  <2>2. CASE CertNext
    BY <2>2, LoadKeepsInv, RestKeepsInv DEF CertNext, Watching
  <2>3. QED
    BY <2>1, <2>2
<1>3. QED
  BY <1>1, <1>2, PTL DEF CertSpec

\* The fingerprint survives every sequence of restarts, crashes between the two
\* writes of a generated pair included.
THEOREM IdentityIsKept == CertSpec => []IdentitySurvives
<1>1. CertInv => IdentitySurvives
  BY DEF CertInv, SingleInv, IdentitySurvives
<1>2. QED
  BY CertInvariance, <1>1, PTL

=============================================================================
