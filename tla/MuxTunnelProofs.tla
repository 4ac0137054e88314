---------------------------- MODULE MuxTunnelProofs ----------------------------
(***************************************************************************)
(* Proofs about MuxTunnel, for any number of streams, any amount of data   *)
(* and queues of any size.                                                 *)
(*                                                                         *)
(* A frame passes a stream's queue, the command queue, the hand of the run *)
(* task, frame_tx and the wire.  Put one behind the other these are one    *)
(* sequence, the Channel of a peer and a stream, and nearly every action   *)
(* does one of four things to it: leaves it alone, puts one frame in       *)
(* (Grown), takes the first one off (Taken) or cuts it (Part).             *)
(*                                                                         *)
(* The invariant IInv says of each stream how what its channels carry      *)
(* (Has), in which order (Led) and how often (Once) fits with the state of *)
(* its ends: DataInv of the data of each direction, RegInv of where the    *)
(* stream is registered, OpenInv of the open and its ack, SessInv of the   *)
(* authentication of its id.  These parts are not inductive alone: data is *)
(* behind the ack that registers it, an ack answers the only open.         *)
(***************************************************************************)
EXTENDS MuxTunnel, SequenceTheorems, TLAPS

----------------------------------------------------------------------------
(* What passes through a queue: Q is a sequence of frames, X, Y sets of them. *)

Has(Q, X) == \E i \in 1..Len(Q) : Q[i] \in X

\* Every frame of Y has one of X ahead of it.
Led(Q, Y, X) == \A i \in 1..Len(Q) : Q[i] \in Y => \E j \in 1..(i - 1) : Q[j] \in X

\* At most one frame is in X.
Once(Q, X) == \A i, j \in 1..Len(Q) : Q[i] \in X /\ Q[j] \in X => i = j

\* R is Q with f after its first k frames.
Grown(Q, R, f, k) ==
    /\ k \in 0..Len(Q) /\ Len(R) = Len(Q) + 1
    /\ \A i \in 1..k : R[i] = Q[i]
    /\ R[k + 1] = f
    /\ \A i \in (k + 1)..Len(Q) : R[i + 1] = Q[i]

\* R is a part of Q, after its first k frames.
Part(Q, R, k) ==
    /\ k \in Nat /\ Len(R) + k <= Len(Q)
    /\ \A i \in 1..Len(R) : R[i] = Q[i + k]

LEMMA GrownHas ==
    ASSUME NEW Q, NEW R, NEW f, NEW k, NEW X, Len(Q) \in Nat, Len(R) \in Nat, Grown(Q, R, f, k)
    PROVE  Has(R, X) <=> Has(Q, X) \/ f \in X
<1>1. ASSUME Has(Q, X) PROVE Has(R, X)
  BY <1>1 DEF Has, Grown
<1>2. ASSUME f \in X PROVE Has(R, X)
  BY <1>2 DEF Has, Grown
<1>3. ASSUME Has(R, X), f \notin X PROVE Has(Q, X)
  <2>1. PICK i \in 1..Len(R) : R[i] \in X
    BY <1>3 DEF Has
  <2>2. CASE i \in 1..k
    BY <2>1, <2>2 DEF Has, Grown
  <2>3. CASE i \in (k + 2)..Len(R)
    <3>1. R[(i - 1) + 1] = Q[i - 1]
      BY <2>3 DEF Grown
    <3>2. QED
      BY <2>1, <2>3, <3>1 DEF Has, Grown
  <2>4. QED
    BY <1>3, <2>1, <2>2, <2>3 DEF Grown
<1>4. QED
  BY <1>1, <1>2, <1>3

LEMMA GrownOnce ==
    ASSUME NEW Q, NEW R, NEW f, NEW k, NEW X, Len(Q) \in Nat, Len(R) \in Nat, Grown(Q, R, f, k),
           Once(Q, X), f \notin X \/ ~Has(Q, X)
    PROVE  Once(R, X)
<1> DEFINE Old(i) == IF i <= k THEN i ELSE i - 1
<1>1. \A i \in 1..Len(R) : i # k + 1 => Old(i) \in 1..Len(Q) /\ R[i] = Q[Old(i)]
  <2> SUFFICES ASSUME NEW i \in 1..Len(R), i # k + 1
               PROVE  Old(i) \in 1..Len(Q) /\ R[i] = Q[Old(i)]
    OBVIOUS
  <2>1. CASE i <= k
    BY <2>1 DEF Grown
  <2>2. CASE i > k
    <3>1. i - 1 \in (k + 1)..Len(Q)
      BY <2>2 DEF Grown
    <3>2. R[(i - 1) + 1] = Q[i - 1]
      BY <3>1 DEF Grown
    <3>3. QED
      BY <2>2, <3>1, <3>2 DEF Grown
  <2>3. QED
    BY <2>1, <2>2 DEF Grown
<1>2. \A i, j \in 1..Len(R) : i # k + 1 /\ j # k + 1 /\ Old(i) = Old(j) => i = j
  BY DEF Grown
<1>3. R[k + 1] = f
  BY DEF Grown
<1> HIDE DEF Old
<1>4. QED
  BY <1>1, <1>2, <1>3 DEF Once, Has

LEMMA GrownLed ==
    ASSUME NEW Q, NEW R, NEW f, NEW k, NEW X, NEW Y, Len(Q) \in Nat, Len(R) \in Nat,
           Grown(Q, R, f, k), Led(Q, Y, X),
           f \notin Y \/ \E j \in 1..k : Q[j] \in X
    PROVE  Led(R, Y, X)
<1> SUFFICES ASSUME NEW i \in 1..Len(R), R[i] \in Y PROVE \E j \in 1..(i - 1) : R[j] \in X
  BY DEF Led
<1>1. CASE i <= k
  BY <1>1 DEF Led, Grown
<1>2. CASE i = k + 1
  BY <1>2 DEF Grown
<1>3. CASE i > k + 1
  <2>1. i - 1 \in (k + 1)..Len(Q) /\ i - 1 \in 1..Len(Q) /\ (i - 1) + 1 = i
    BY <1>3 DEF Grown
  <2>2. R[i] = Q[i - 1]
    BY <2>1 DEF Grown
  <2>3. PICK j \in 1..((i - 1) - 1) : Q[j] \in X
    BY <2>1, <2>2 DEF Led
  <2>4. CASE j <= k
    BY <2>1, <2>3, <2>4 DEF Grown
  <2>5. CASE j > k
    <3>1. R[j + 1] = Q[j] /\ j + 1 \in 1..(i - 1)
      BY <2>1, <2>3, <2>5 DEF Grown
    <3>2. QED
      BY <2>3, <3>1
  <2>6. QED
    BY <2>3, <2>4, <2>5 DEF Grown
<1>4. QED
  BY <1>1, <1>2, <1>3 DEF Grown

LEMMA PartKeeps ==
    ASSUME NEW Q, NEW R, NEW k, Len(Q) \in Nat, Len(R) \in Nat, Part(Q, R, k)
    PROVE  /\ \A X : Has(R, X) => Has(Q, X)
           /\ \A X : Once(Q, X) => Once(R, X)
           /\ k = 0 => \A X, Y : Led(Q, Y, X) => Led(R, Y, X)
<1>1. \A i \in 1..Len(R) : i + k \in 1..Len(Q) /\ R[i] = Q[i + k]
  BY DEF Part
<1>2. k \in Nat
  BY DEF Part
<1>3. ASSUME NEW X, Has(R, X) PROVE Has(Q, X)
  BY <1>1, <1>3 DEF Has
<1>4. ASSUME NEW X, Once(Q, X) PROVE Once(R, X)
  <2> SUFFICES ASSUME NEW i \in 1..Len(R), NEW j \in 1..Len(R), R[i] \in X, R[j] \in X
               PROVE  i = j
    BY DEF Once
  <2>1. i + k = j + k
    BY <1>1, <1>4 DEF Once
  <2>2. QED
    BY <1>2, <2>1
<1>5. ASSUME NEW X, NEW Y, k = 0, Led(Q, Y, X) PROVE Led(R, Y, X)
  BY <1>1, <1>5 DEF Led
<1>6. QED
  BY <1>3, <1>4, <1>5

\* The first frame is taken off.
Taken(Q, R) == Part(Q, R, 1) /\ Len(R) + 1 = Len(Q)

LEMMA TakenKeeps ==
    ASSUME NEW Q, NEW R, Len(Q) \in Nat, Len(R) \in Nat, Taken(Q, R)
    PROVE  /\ \A X : Has(Q, X) => Q[1] \in X \/ Has(R, X)
           /\ \A X : Once(Q, X) /\ Q[1] \in X => ~Has(R, X)
           /\ \A X, Y : Led(Q, Y, X) => Q[1] \notin Y
           /\ \A X, Y : Led(Q, Y, X) /\ Q[1] \notin X => Led(R, Y, X)
<1>1. /\ 1 \in 1..Len(Q)
      /\ \A i \in 1..Len(R) : i + 1 \in 1..Len(Q) /\ R[i] = Q[i + 1]
  BY DEF Taken, Part
<1>2. \A i \in 1..Len(Q) : i # 1 => i - 1 \in 1..Len(R) /\ Q[i] = R[i - 1]
  BY <1>1, SMTT(30) DEF Taken, Part
<1>3. ASSUME NEW X, Has(Q, X), Q[1] \notin X PROVE Has(R, X)
  BY <1>2, <1>3 DEF Has
<1>4. ASSUME NEW X, Once(Q, X), Q[1] \in X PROVE ~Has(R, X)
  BY <1>1, <1>4, SMTT(30) DEF Has, Once
<1>5. ASSUME NEW X, NEW Y, Led(Q, Y, X) PROVE Q[1] \notin Y
  BY <1>1, <1>5 DEF Led
<1>6. ASSUME NEW X, NEW Y, Led(Q, Y, X), Q[1] \notin X PROVE Led(R, Y, X)
  <2> SUFFICES ASSUME NEW i \in 1..Len(R), R[i] \in Y PROVE \E j \in 1..(i - 1) : R[j] \in X
    BY DEF Led
  <2>1. PICK j \in 1..((i + 1) - 1) : Q[j] \in X
    BY <1>1, <1>6 DEF Led
  <2>2. j # 1 /\ j \in 1..Len(Q) /\ j - 1 \in 1..(i - 1)
    BY <1>1, <1>6, <2>1
  <2>3. QED
    BY <1>2, <2>1, <2>2
<1>7. QED
  BY <1>3, <1>4, <1>5, <1>6

----------------------------------------------------------------------------
(* The frames of the two peers, and the sequences they are in. *)

AnyFrame == [type : FrameTypes, id : Streams, n : Nat]

Of(type, s) == {f \in AnyFrame : f.type = type /\ f.id = s}
Nth(type, s, n) == {f \in AnyFrame : f.type = type /\ f.id = s /\ f.n = n}

FramesOf(p) ==
    {f \in AnyFrame :
        f.type \in {"data", "credit", "close", "datagram"}
                     \cup IF p = "client" THEN {"open", "authRequest"} ELSE {"ack", "authResponse"}}

\* What is done once a frame is in frame_tx depends on the frame only.
CommandsOf(p) ==
    {c \in [frame : FramesOf(p), then : {"none", "pend", "register"}] :
        /\ c.then = "pend" <=> c.frame.type = "open"
        /\ c.then = "register" <=> c.frame.type = "ack" /\ c.frame.n = STATUS_OK}

FramesIn(c) == [i \in DOMAIN c |-> c[i].frame]
InHand(r) == IF r = Idle THEN <<>> ELSE <<r.frame>>

\* A run task's queues in the order a frame passes them.
Queues(w, f, r, c) == w \o f \o InHand(r) \o FramesIn(c)

\* What of stream s p has still to get to its peer, and of the other streams what
\* has left their pumps.  The queue of a stream is stuck once p's run task has ended.
Passing(p) == Queues(wire[p], frameQ[p], run[p], cmdQ[p])
Behind(p, s) == IF up[p] THEN outQ[p][s] ELSE <<>>
Channel(p, s) == Passing(p) \o Behind(p, s)

LEMMA CommandFrames ==
    ASSUME NEW p \in Peers, NEW c \in Seq(CommandsOf(p))
    PROVE  /\ FramesIn(c) \in Seq(FramesOf(p)) /\ Len(FramesIn(c)) = Len(c)
           /\ \A i \in 1..Len(c) : FramesIn(c)[i] = c[i].frame
<1>1. Len(c) \in Nat /\ DOMAIN c = 1..Len(c) /\ \A i \in 1..Len(c) : c[i] \in CommandsOf(p)
  OBVIOUS
<1>2. \A i \in 1..Len(c) : c[i].frame \in FramesOf(p)
  BY <1>1 DEF CommandsOf
<1>3. FramesIn(c) \in [1..Len(c) -> FramesOf(p)]
  BY <1>1, <1>2 DEF FramesIn
<1>4. FramesIn(c) \in Seq(FramesOf(p)) /\ Len(FramesIn(c)) = Len(c)
  BY <1>1, <1>3
<1>5. QED
  BY <1>1, <1>4 DEF FramesIn

LEMMA FramesInAppend ==
    ASSUME NEW p \in Peers, NEW c \in Seq(CommandsOf(p)), NEW x \in CommandsOf(p)
    PROVE  FramesIn(Append(c, x)) = Append(FramesIn(c), x.frame)
<1> DEFINE d == Append(c, x)
           e == Append(FramesIn(c), x.frame)
<1>1. /\ d \in Seq(CommandsOf(p)) /\ Len(d) = Len(c) + 1 /\ d[Len(c) + 1] = x
      /\ \A i \in 1..Len(c) : d[i] = c[i]
  BY AppendProperties
<1>2. x.frame \in FramesOf(p)
  BY DEF CommandsOf
<1>3. /\ FramesIn(c) \in Seq(FramesOf(p)) /\ Len(FramesIn(c)) = Len(c)
      /\ \A i \in 1..Len(c) : FramesIn(c)[i] = c[i].frame
  BY CommandFrames
<1>4. /\ e \in Seq(FramesOf(p)) /\ Len(e) = Len(c) + 1 /\ e[Len(c) + 1] = x.frame
      /\ \A i \in 1..Len(c) : e[i] = c[i].frame
  BY <1>2, <1>3, AppendProperties
<1>5. /\ FramesIn(d) \in Seq(FramesOf(p)) /\ Len(FramesIn(d)) = Len(c) + 1
      /\ \A i \in 1..(Len(c) + 1) : FramesIn(d)[i] = d[i].frame
  <2> HIDE DEF d
  <2>1. QED
    BY <1>1, CommandFrames
<1> HIDE DEF d, e
<1>6. ASSUME NEW i \in 1..(Len(c) + 1) PROVE FramesIn(d)[i] = e[i]
  <2>1. FramesIn(d)[i] = d[i].frame
    BY <1>5
  <2>2. Len(c) \in Nat
    OBVIOUS
  <2>3. CASE i = Len(c) + 1
    BY <1>1, <1>4, <2>1, <2>3
  <2>4. CASE i \in 1..Len(c)
    BY <1>1, <1>4, <2>1, <2>4
  <2>5. QED
    BY <2>2, <2>3, <2>4
<1>7. FramesIn(d) = e
  BY <1>4, <1>5, <1>6, SeqEqual
<1>8. QED
  BY <1>7 DEF d, e

LEMMA FramesInTail ==
    ASSUME NEW p \in Peers, NEW c \in Seq(CommandsOf(p)), c # <<>>
    PROVE  /\ Head(c) \in CommandsOf(p) /\ Tail(c) \in Seq(CommandsOf(p))
           /\ FramesIn(c) = <<Head(c).frame>> \o FramesIn(Tail(c))
<1> DEFINE t == Tail(c)
           h == Head(c)
           e == <<h.frame>> \o FramesIn(t)
<1>1. /\ h \in CommandsOf(p) /\ t \in Seq(CommandsOf(p)) /\ Len(t) = Len(c) - 1 /\ h = c[1]
      /\ \A i \in 1..Len(t) : t[i] = c[i + 1]
      /\ Len(c) \in Nat \ {0}
  BY HeadTailProperties, EmptySeq
<1> HIDE DEF t, h
<1>2. h.frame \in FramesOf(p)
  BY <1>1 DEF CommandsOf
<1>3. /\ FramesIn(t) \in Seq(FramesOf(p)) /\ Len(FramesIn(t)) = Len(t)
      /\ \A i \in 1..Len(t) : FramesIn(t)[i] = t[i].frame
  BY <1>1, CommandFrames
<1>4. /\ FramesIn(c) \in Seq(FramesOf(p)) /\ Len(FramesIn(c)) = Len(c)
      /\ \A i \in 1..Len(c) : FramesIn(c)[i] = c[i].frame
  BY CommandFrames
<1>5. /\ <<h.frame>> \in Seq(FramesOf(p)) /\ Len(<<h.frame>>) = 1 /\ <<h.frame>>[1] = h.frame
  BY <1>2
<1>6. /\ e \in Seq(FramesOf(p)) /\ Len(e) = 1 + Len(t)
      /\ \A i \in 1..(1 + Len(t)) :
            e[i] = IF i <= 1 THEN <<h.frame>>[i] ELSE FramesIn(t)[i - 1]
  BY <1>3, <1>5, ConcatProperties
<1> HIDE DEF e
<1>7. \A i \in 1..Len(c) : FramesIn(c)[i] = e[i]
  <2> SUFFICES ASSUME NEW i \in 1..Len(c) PROVE FramesIn(c)[i] = e[i]
    OBVIOUS
  <2>1. CASE i = 1
    BY <2>1, <1>1, <1>4, <1>5, <1>6
  <2>2. CASE i # 1
    <3>1. i - 1 \in 1..Len(t) /\ (i - 1) + 1 = i /\ i \in 1..(1 + Len(t)) /\ ~(i <= 1)
      BY <2>2, <1>1
    <3>2. FramesIn(t)[i - 1] = c[i].frame
      BY <3>1, <1>1, <1>3
    <3>3. QED
      BY <3>1, <3>2, <1>4, <1>6
  <2>3. QED
    BY <2>1, <2>2
<1>8. FramesIn(c) = e
  BY <1>1, <1>4, <1>6, <1>7, SeqEqual
<1>9. QED
  BY <1>1, <1>8 DEF t, h, e

----------------------------------------------------------------------------
(* How a step of a run task or of a command changes its queues. *)

QueueTypes(p, w, f, r, c) ==
    /\ w \in Seq(FramesOf(p)) /\ f \in Seq(FramesOf(p))
    /\ r \in CommandsOf(p) \cup {Idle}
    /\ c \in Seq(CommandsOf(p))

LEMMA HandTypes ==
    ASSUME NEW p \in Peers, NEW r \in CommandsOf(p) \cup {Idle}
    PROVE  /\ InHand(r) \in Seq(FramesOf(p))
           /\ InHand(Idle) = <<>>
           /\ r # Idle => InHand(r) = <<r.frame>> /\ r.frame \in FramesOf(p)
BY DEF InHand, CommandsOf

LEMMA QueuesTyped ==
    ASSUME NEW p \in Peers, NEW w, NEW f, NEW r, NEW c, QueueTypes(p, w, f, r, c)
    PROVE  Queues(w, f, r, c) \in Seq(FramesOf(p))
BY HandTypes, CommandFrames, ConcatProperties DEF QueueTypes, Queues

LEMMA NotIdle == \A p \in Peers : \A r \in CommandsOf(p) : r # Idle
BY DEF CommandsOf, Idle

\* A command is queued.
LEMMA CommandGrows ==
    ASSUME NEW p \in Peers, NEW w, NEW f, NEW r, NEW c, QueueTypes(p, w, f, r, c),
           NEW x \in CommandsOf(p)
    PROVE  Queues(w, f, r, Append(c, x)) = Append(Queues(w, f, r, c), x.frame)
<1> DEFINE a == w \o f \o InHand(r)
<1>1. a \in Seq(FramesOf(p)) /\ FramesIn(c) \in Seq(FramesOf(p)) /\ x.frame \in FramesOf(p)
  BY HandTypes, CommandFrames, ConcatProperties DEF QueueTypes, CommandsOf
<1>2. FramesIn(Append(c, x)) = FramesIn(c) \o <<x.frame>>
  BY <1>1, FramesInAppend, AppendIsConcat DEF QueueTypes
<1>3. Queues(w, f, r, Append(c, x)) = a \o (FramesIn(c) \o <<x.frame>>)
  BY <1>2 DEF Queues
<1>4. Queues(w, f, r, c) = a \o FramesIn(c) /\ Queues(w, f, r, c) \in Seq(FramesOf(p))
  BY QueuesTyped DEF Queues
<1> HIDE DEF a
<1>5. <<x.frame>> \in Seq(FramesOf(p))
  BY <1>1
<1>6. a \o (FramesIn(c) \o <<x.frame>>) = (a \o FramesIn(c)) \o <<x.frame>>
  BY <1>1, <1>5, ConcatAssociative
<1>7. Append(Queues(w, f, r, c), x.frame) = Queues(w, f, r, c) \o <<x.frame>>
  BY <1>1, <1>4, AppendIsConcat
<1>8. QED
  BY <1>3, <1>4, <1>6, <1>7

\* The run task takes it.
LEMMA TakingSame ==
    ASSUME NEW p \in Peers, NEW w, NEW f, NEW c, QueueTypes(p, w, f, Idle, c), c # <<>>
    PROVE  Queues(w, f, Head(c), Tail(c)) = Queues(w, f, Idle, c)
<1> DEFINE a == w \o f
           h == Head(c)
           t == FramesIn(Tail(c))
<1>1. /\ h \in CommandsOf(p) /\ h # Idle /\ Tail(c) \in Seq(CommandsOf(p))
      /\ FramesIn(c) = <<h.frame>> \o t
  BY FramesInTail, NotIdle DEF QueueTypes
<1>2. /\ a \in Seq(FramesOf(p)) /\ t \in Seq(FramesOf(p)) /\ FramesIn(c) \in Seq(FramesOf(p))
      /\ InHand(h) = <<h.frame>> /\ h.frame \in FramesOf(p)
  BY <1>1, HandTypes, CommandFrames, ConcatProperties DEF QueueTypes
<1>3. Queues(w, f, Head(c), Tail(c)) = (a \o <<h.frame>>) \o t
  BY <1>2 DEF Queues
<1>4. Queues(w, f, Idle, c) = (a \o <<>>) \o (<<h.frame>> \o t)
  BY <1>1, HandTypes DEF Queues
<1> HIDE DEF a, h, t
<1>5. <<h.frame>> \in Seq(FramesOf(p)) /\ a \o <<>> = a
  BY <1>2, ConcatEmptySeq
<1>6. (a \o <<h.frame>>) \o t = a \o (<<h.frame>> \o t)
  BY <1>2, <1>5, ConcatAssociative, SMTT(30)
<1>7. QED
  BY <1>3, <1>4, <1>5, <1>6

\* Its frame gets room in frame_tx.
LEMMA SendingSame ==
    ASSUME NEW p \in Peers, NEW w, NEW f, NEW r, NEW c, QueueTypes(p, w, f, r, c), r # Idle
    PROVE  Queues(w, Append(f, r.frame), Idle, c) = Queues(w, f, r, c)
<1> DEFINE x == r.frame
<1>1. x \in FramesOf(p) /\ InHand(r) = <<x>> /\ InHand(Idle) = <<>>
  BY HandTypes DEF QueueTypes
<1>2. Queues(w, f, r, c) = ((w \o f) \o <<x>>) \o FramesIn(c)
  BY <1>1 DEF Queues
<1>3. Queues(w, Append(f, r.frame), Idle, c) = ((w \o Append(f, x)) \o <<>>) \o FramesIn(c)
  BY <1>1 DEF Queues
<1>4. Append(f, x) = f \o <<x>> /\ <<x>> \in Seq(FramesOf(p))
  BY <1>1, AppendIsConcat DEF QueueTypes
<1> HIDE DEF x
<1>5. w \o Append(f, x) = (w \o f) \o <<x>>
  BY <1>1, <1>4, ConcatAssociative DEF QueueTypes
<1>6. (w \o f) \o <<x>> \in Seq(FramesOf(p))
  BY <1>4, ConcatProperties DEF QueueTypes
<1>7. QED
  BY <1>2, <1>3, <1>5, <1>6, ConcatEmptySeq

\* The writer puts it on the wire.
LEMMA WritingSame ==
    ASSUME NEW p \in Peers, NEW w, NEW f, NEW r, NEW c, QueueTypes(p, w, f, r, c), f # <<>>
    PROVE  Queues(Append(w, Head(f)), Tail(f), r, c) = Queues(w, f, r, c)
<1>1. Head(f) \in FramesOf(p) /\ Tail(f) \in Seq(FramesOf(p)) /\ f = <<Head(f)>> \o Tail(f)
  BY DEF QueueTypes
<1>2. <<Head(f)>> \in Seq(FramesOf(p)) /\ Append(w, Head(f)) = w \o <<Head(f)>>
  BY <1>1, AppendIsConcat DEF QueueTypes
<1>3. Append(w, Head(f)) \o Tail(f) = w \o f
  BY <1>1, <1>2, ConcatAssociative DEF QueueTypes
<1>4. QED
  BY <1>3 DEF Queues

\* The peer takes the first frame off the wire.
LEMMA TakenConcat ==
    ASSUME NEW S, NEW a \in Seq(S), NEW b \in Seq(S), a # <<>>
    PROVE  Tail(a) \o b = Tail(a \o b) /\ a \o b # <<>> /\ (a \o b)[1] = Head(a)
<1>1. Tail(a) \in Seq(S) /\ Len(Tail(a)) = Len(a) - 1 /\ Len(a) \in Nat \ {0}
      /\ \A i \in 1..Len(Tail(a)) : Tail(a)[i] = a[i + 1]
  BY HeadTailProperties, EmptySeq
<1>2. /\ a \o b \in Seq(S) /\ Len(a \o b) = Len(a) + Len(b)
      /\ \A i \in 1..Len(a) + Len(b) : (a \o b)[i] = IF i <= Len(a) THEN a[i] ELSE b[i - Len(a)]
  BY ConcatProperties
<1>3. a \o b # <<>> /\ (a \o b)[1] = Head(a)
  BY <1>1, <1>2
<1>4. /\ Tail(a) \o b \in Seq(S) /\ Len(Tail(a) \o b) = Len(a) - 1 + Len(b)
      /\ \A i \in 1..(Len(a) - 1 + Len(b)) :
            (Tail(a) \o b)[i] = IF i <= Len(a) - 1 THEN Tail(a)[i] ELSE b[i - (Len(a) - 1)]
  BY <1>1, ConcatProperties
<1>5. /\ Tail(a \o b) \in Seq(S) /\ Len(Tail(a \o b)) = Len(a) + Len(b) - 1
      /\ \A i \in 1..(Len(a) + Len(b) - 1) : Tail(a \o b)[i] = (a \o b)[i + 1]
  BY <1>1, <1>2, <1>3, HeadTailProperties
<1>6. Len(b) \in Nat
  OBVIOUS
<1>7. ASSUME NEW i \in 1..(Len(a) - 1 + Len(b)) PROVE (Tail(a) \o b)[i] = Tail(a \o b)[i]
  <2>1. CASE i <= Len(a) - 1
    BY <2>1, <1>1, <1>2, <1>4, <1>5, <1>6
  <2>2. CASE i > Len(a) - 1
    <3>1. i - (Len(a) - 1) = (i + 1) - Len(a) /\ ~(i <= Len(a) - 1) /\ ~(i + 1 <= Len(a))
      BY <2>2, <1>1, <1>6
    <3>2. (Tail(a) \o b)[i] = b[(i + 1) - Len(a)]
      BY <3>1, <1>4
    <3>3. i + 1 \in 1..Len(a) + Len(b) /\ i \in 1..(Len(a) + Len(b) - 1)
      BY <1>1, <1>6
    <3>4. Tail(a \o b)[i] = b[(i + 1) - Len(a)]
      BY <3>1, <3>3, <1>2, <1>5
    <3>5. QED
      BY <3>2, <3>4
  <2>3. QED
    BY <2>1, <2>2, <1>1, <1>6
<1>8. Tail(a) \o b = Tail(a \o b)
  BY <1>1, <1>4, <1>5, <1>6, <1>7, SeqEqual
<1>9. QED
  BY <1>3, <1>8

LEMMA HandlingTakes ==
    ASSUME NEW p \in Peers, NEW w, NEW f, NEW r, NEW c, QueueTypes(p, w, f, r, c), w # <<>>
    PROVE  /\ Queues(w, f, r, c) # <<>> /\ Queues(w, f, r, c)[1] = Head(w)
           /\ Queues(Tail(w), f, r, c) = Tail(Queues(w, f, r, c))
<1> DEFINE S == FramesOf(p)
           u == InHand(r)
           v == FramesIn(c)
<1>1. w \in Seq(S) /\ f \in Seq(S) /\ u \in Seq(S) /\ v \in Seq(S)
  BY HandTypes, CommandFrames DEF QueueTypes
<1> HIDE DEF S, u, v
<1>2. w \o f \in Seq(S) /\ (w \o f) \o u \in Seq(S)
  BY <1>1, ConcatProperties
<1>3. Tail(w) \o f = Tail(w \o f) /\ w \o f # <<>> /\ (w \o f)[1] = Head(w)
  BY <1>1, TakenConcat
<1>4. /\ Tail(w \o f) \o u = Tail((w \o f) \o u) /\ (w \o f) \o u # <<>>
      /\ ((w \o f) \o u)[1] = Head(w \o f)
  BY <1>1, <1>2, <1>3, TakenConcat
<1>5. /\ Tail((w \o f) \o u) \o v = Tail(((w \o f) \o u) \o v) /\ ((w \o f) \o u) \o v # <<>>
      /\ (((w \o f) \o u) \o v)[1] = Head((w \o f) \o u)
  BY <1>1, <1>2, <1>4, TakenConcat
<1>6. Head(w \o f) = (w \o f)[1] /\ Head((w \o f) \o u) = ((w \o f) \o u)[1]
  BY <1>2, <1>3, <1>4
<1>7. Queues(w, f, r, c) = ((w \o f) \o u) \o v
  BY DEF Queues, u, v
<1>8. Queues(Tail(w), f, r, c) = ((Tail(w) \o f) \o u) \o v
  BY DEF Queues, u, v
<1>9. QED
  BY <1>3, <1>4, <1>5, <1>6, <1>7, <1>8

\* A run task takes a frame in hand while commands wait.
LEMMA AppendGrows ==
    ASSUME NEW S, NEW a \in Seq(S), NEW x \in S
    PROVE  Grown(a, Append(a, x), x, Len(a)) /\ Append(a, x) \in Seq(S)
BY AppendProperties DEF Grown

LEMMA GrownConcat ==
    ASSUME NEW S, NEW a \in Seq(S), NEW b \in Seq(S), NEW c \in Seq(S), NEW x, NEW k,
           Grown(a, b, x, k)
    PROVE  Grown(a \o c, b \o c, x, k)
<1>1. /\ a \o c \in Seq(S) /\ Len(a \o c) = Len(a) + Len(c)
      /\ \A i \in 1..Len(a) + Len(c) : (a \o c)[i] = IF i <= Len(a) THEN a[i] ELSE c[i - Len(a)]
  BY ConcatProperties
<1>2. /\ b \o c \in Seq(S) /\ Len(b \o c) = Len(b) + Len(c)
      /\ \A i \in 1..Len(b) + Len(c) : (b \o c)[i] = IF i <= Len(b) THEN b[i] ELSE c[i - Len(b)]
  BY ConcatProperties
<1>3. Len(a) \in Nat /\ Len(b) = Len(a) + 1 /\ Len(c) \in Nat /\ k \in 0..Len(a)
  BY DEF Grown
<1>4. ASSUME NEW i \in 1..k PROVE (b \o c)[i] = (a \o c)[i]
  BY <1>1, <1>2, <1>3 DEF Grown
<1>5. (b \o c)[k + 1] = x
  BY <1>2, <1>3 DEF Grown
<1>6. ASSUME NEW i \in (k + 1)..Len(a \o c) PROVE (b \o c)[i + 1] = (a \o c)[i]
  <2>1. CASE i <= Len(a)
    BY <2>1, <1>1, <1>2, <1>3 DEF Grown
  <2>2. CASE i > Len(a)
    <3>1. (i + 1) - Len(b) = i - Len(a) /\ ~(i <= Len(a)) /\ ~(i + 1 <= Len(b))
      BY <2>2, <1>1, <1>3
    <3>2. i \in 1..Len(a) + Len(c) /\ i + 1 \in 1..Len(b) + Len(c)
      BY <1>1, <1>3
    <3>3. QED
      BY <3>1, <3>2, <1>1, <1>2
  <2>3. QED
    BY <2>1, <2>2, <1>1, <1>3
<1>7. QED
  BY <1>1, <1>2, <1>3, <1>4, <1>5, <1>6, SMTT(30) DEF Grown

LEMMA AnsweringGrows ==
    ASSUME NEW p \in Peers, NEW w, NEW f, NEW r, NEW c, QueueTypes(p, w, f, r, c), r # Idle
    PROVE  Grown(Queues(w, f, Idle, c), Queues(w, f, r, c), r.frame, Len(w \o f))
<1> DEFINE S == FramesOf(p)
           a == w \o f
           v == FramesIn(c)
<1>1. a \in Seq(S) /\ v \in Seq(S) /\ r.frame \in S /\ InHand(r) = <<r.frame>> /\ InHand(Idle) = <<>>
  BY HandTypes, CommandFrames, ConcatProperties DEF QueueTypes
<1>2. Queues(w, f, Idle, c) = (a \o <<>>) \o v
  BY <1>1 DEF Queues
<1>3. Queues(w, f, r, c) = (a \o <<r.frame>>) \o v
  BY <1>1 DEF Queues
<1> HIDE DEF S, a, v
<1>4. a \o <<>> = a /\ a \o <<r.frame>> = Append(a, r.frame)
  BY <1>1, ConcatEmptySeq, AppendIsConcat
<1>5. Grown(a, Append(a, r.frame), r.frame, Len(a)) /\ Append(a, r.frame) \in Seq(S)
  BY <1>1, AppendGrows
<1>6. Grown(a \o v, Append(a, r.frame) \o v, r.frame, Len(a))
  BY <1>1, <1>5, GrownConcat
<1>7. QED
  BY <1>2, <1>3, <1>4, <1>6 DEF a

\* The run task ends: what the writer task has is left.
LEMMA EndingLeaves ==
    ASSUME NEW p \in Peers, NEW w, NEW f, NEW r, NEW c, QueueTypes(p, w, f, r, c),
           NEW o \in Seq(FramesOf(p))
    PROVE  /\ Part(Queues(w, f, r, c) \o o, Queues(w, f, Idle, <<>>) \o <<>>, 0)
           /\ Queues(w, f, Idle, <<>>) \o <<>> \in Seq(FramesOf(p))
<1> DEFINE S == FramesOf(p)
           t == w \o f
           all == Queues(w, f, r, c) \o o
<1>1. w \in Seq(S) /\ f \in Seq(S) /\ InHand(r) \in Seq(S) /\ FramesIn(c) \in Seq(S)
  BY HandTypes, CommandFrames DEF QueueTypes
<1>2. t \in Seq(S) /\ Len(t) \in Nat
  BY <1>1, ConcatProperties
<1>3. FramesIn(<<>>) = <<>> /\ InHand(Idle) = <<>>
  BY HandTypes DEF FramesIn
<1>4. Queues(w, f, Idle, <<>>) \o <<>> = t
  BY <1>2, <1>3, ConcatEmptySeq DEF Queues
<1>5. /\ Len(t) <= Len(all) /\ \A i \in 1..Len(t) : all[i] = t[i]
      /\ Len(all) \in Nat
  <2> HIDE DEF S
  <2>1. /\ w \o f \in Seq(S) /\ Len(w \o f) = Len(w) + Len(f)
        /\ \A i \in 1..Len(w) + Len(f) : (w \o f)[i] = IF i <= Len(w) THEN w[i] ELSE f[i - Len(w)]
    BY <1>1, ConcatProperties
  <2> DEFINE a == t
             b == a \o InHand(r)
             d == b \o FramesIn(c)
  <2>2. /\ b \in Seq(S) /\ Len(b) = Len(a) + Len(InHand(r))
        /\ \A i \in 1..Len(a) + Len(InHand(r)) :
              b[i] = IF i <= Len(a) THEN a[i] ELSE InHand(r)[i - Len(a)]
    BY <1>1, <2>1, ConcatProperties
  <2>3. /\ d \in Seq(S) /\ Len(d) = Len(b) + Len(FramesIn(c))
        /\ \A i \in 1..Len(b) + Len(FramesIn(c)) :
              d[i] = IF i <= Len(b) THEN b[i] ELSE FramesIn(c)[i - Len(b)]
    BY <1>1, <2>2, ConcatProperties
  <2>4. o \in Seq(S) /\ all = d \o o
    BY DEF Queues, S
  <2>5. /\ Len(d \o o) = Len(d) + Len(o)
        /\ \A i \in 1..Len(d) + Len(o) : (d \o o)[i] = IF i <= Len(d) THEN d[i] ELSE o[i - Len(d)]
    BY <2>3, <2>4, ConcatProperties, SMTT(30)
  <2>6. {Len(a), Len(InHand(r)), Len(FramesIn(c)), Len(o)} \subseteq Nat
    BY <1>1, <1>2, <2>4
  <2>7. a = t
    OBVIOUS
  <2> HIDE DEF a, b, d, all, t
  <2>8. QED
    BY <2>2, <2>3, <2>4, <2>5, <2>6, <2>7, SMTT(30)
<1>6. Part(all, t, 0)
  <2> HIDE DEF all, t
  <2>1. QED
    BY <1>2, <1>5 DEF Part
<1>7. QED
  BY <1>2, <1>4, <1>6

----------------------------------------------------------------------------
(* Channels that are alike for the frames of Z. *)

Alike(Q, R, Z) ==
    \A X, Y \in SUBSET Z :
        /\ Has(Q, X) <=> Has(R, X)
        /\ Once(Q, X) => Once(R, X)
        /\ Led(Q, Y, X) => Led(R, Y, X)

LEMMA SameAlike == \A Q, Z : Alike(Q, Q, Z)
BY DEF Alike

LEMMA GrownAlike ==
    ASSUME NEW Q, NEW R, NEW f, NEW k, NEW Z, Len(Q) \in Nat, Len(R) \in Nat,
           Grown(Q, R, f, k), f \notin Z
    PROVE  Alike(Q, R, Z)
<1> SUFFICES ASSUME NEW X \in SUBSET Z, NEW Y \in SUBSET Z
             PROVE  /\ Has(Q, X) <=> Has(R, X)
                    /\ Once(Q, X) => Once(R, X)
                    /\ Led(Q, Y, X) => Led(R, Y, X)
  BY DEF Alike
<1>1. f \notin X /\ f \notin Y
  OBVIOUS
<1>2. Has(Q, X) <=> Has(R, X)
  BY <1>1, GrownHas
<1>3. Once(Q, X) => Once(R, X)
  BY <1>1, GrownOnce
<1>4. Led(Q, Y, X) => Led(R, Y, X)
  BY <1>1, GrownLed
<1>5. QED
  BY <1>2, <1>3, <1>4

LEMMA TakenAlike ==
    ASSUME NEW Q, NEW R, NEW Z, Len(Q) \in Nat, Len(R) \in Nat, Taken(Q, R), Q[1] \notin Z
    PROVE  Alike(Q, R, Z)
<1> SUFFICES ASSUME NEW X \in SUBSET Z, NEW Y \in SUBSET Z
             PROVE  /\ Has(Q, X) <=> Has(R, X)
                    /\ Once(Q, X) => Once(R, X)
                    /\ Led(Q, Y, X) => Led(R, Y, X)
  BY DEF Alike
<1>1. Q[1] \notin X
  OBVIOUS
<1>2. Part(Q, R, 1)
  BY DEF Taken
<1>3. Has(R, X) => Has(Q, X)
  BY <1>2, PartKeeps
<1>4. Once(Q, X) => Once(R, X)
  BY <1>2, PartKeeps
<1>5. Has(Q, X) => Has(R, X)
  BY <1>1, TakenKeeps
<1>6. Led(Q, Y, X) => Led(R, Y, X)
  BY <1>1, TakenKeeps
<1>7. QED
  BY <1>3, <1>4, <1>5, <1>6

LEMMA TailTaken ==
    ASSUME NEW S, NEW a \in Seq(S), a # <<>>
    PROVE  Taken(a, Tail(a)) /\ Tail(a) \in Seq(S)
<1>1. /\ Tail(a) \in Seq(S) /\ Len(Tail(a)) = Len(a) - 1 /\ Len(a) \in Nat \ {0}
      /\ \A i \in 1..Len(Tail(a)) : Tail(a)[i] = a[i + 1]
  BY HeadTailProperties, EmptySeq
<1>2. QED
  BY <1>1 DEF Taken, Part

----------------------------------------------------------------------------
(* How the actions change the channels. *)

QueueInv ==
    /\ up \in [Peers -> BOOLEAN]
    /\ DOMAIN cmdQ = Peers /\ DOMAIN run = Peers /\ DOMAIN frameQ = Peers /\ DOMAIN wire = Peers
    /\ \A p \in Peers : QueueTypes(p, wire[p], frameQ[p], run[p], cmdQ[p])
    /\ DOMAIN outQ = Peers
    /\ \A p \in Peers : DOMAIN outQ[p] = Streams /\ \A s \in Streams : outQ[p][s] \in Seq(Of("data", s))

LEMMA OtherPeer == \A p \in Peers : Other(p) \in Peers /\ Other(p) # p /\ Other(Other(p)) = p
BY DEF Peers, Other

LEMMA DataPasses ==
    ASSUME NEW p \in Peers, NEW s \in Streams
    PROVE  /\ Of("data", s) \subseteq FramesOf(p)
           /\ \A q \in Seq(Of("data", s)) : q \in Seq(FramesOf(p))
<1>1. Of("data", s) \subseteq FramesOf(p)
  BY DEF Of, FramesOf
<1>2. QED
  BY <1>1, SeqMonotonic

LEMMA ChannelTyped ==
    ASSUME QueueInv, NEW p \in Peers, NEW s \in Streams
    PROVE  /\ Passing(p) \in Seq(FramesOf(p)) /\ Behind(p, s) \in Seq(FramesOf(p))
           /\ Channel(p, s) \in Seq(FramesOf(p)) /\ Len(Channel(p, s)) \in Nat
           /\ Len(Passing(p)) \in Nat
<1>1. Passing(p) \in Seq(FramesOf(p))
  BY QueuesTyped DEF QueueInv, Passing
<1>2. Behind(p, s) \in Seq(FramesOf(p))
  BY DataPasses DEF QueueInv, Behind
<1>3. QED
  BY <1>1, <1>2, ConcatProperties DEF Channel

\* A frame put in the command queue comes after all that has passed.
Commanded(p, x) ==
    /\ cmdQ' = [cmdQ EXCEPT ![p] = Append(@, x)]
    /\ UNCHANGED <<up, run, frameQ, wire, outQ>>

LEMMA CommandQueues ==
    ASSUME QueueInv, NEW p \in Peers, NEW x \in CommandsOf(p), Commanded(p, x)
    PROVE  /\ QueueInv'
           /\ \A s \in Streams :
                /\ Grown(Channel(p, s), Channel(p, s)', x.frame, Len(Passing(p)))
                /\ Channel(Other(p), s)' = Channel(Other(p), s)
<1>1. QueueTypes(p, wire[p], frameQ[p], run[p], cmdQ[p])
  BY DEF QueueInv
<1>2. /\ cmdQ'[p] = Append(cmdQ[p], x) /\ DOMAIN cmdQ' = Peers
      /\ \A q \in Peers : q # p => cmdQ'[q] = cmdQ[q]
  BY DEF QueueInv, Commanded
<1>3. Append(cmdQ[p], x) \in Seq(CommandsOf(p))
  BY <1>1, AppendProperties DEF QueueTypes
<1>4. QueueInv'
  BY <1>2, <1>3 DEF QueueInv, QueueTypes, Commanded
<1>5. Passing(p)' = Append(Passing(p), x.frame)
  BY <1>1, <1>2, CommandGrows DEF Passing, Commanded
<1>6. x.frame \in FramesOf(p)
  BY DEF CommandsOf
<1>7. ASSUME NEW s \in Streams
      PROVE  /\ Grown(Channel(p, s), Channel(p, s)', x.frame, Len(Passing(p)))
             /\ Channel(Other(p), s)' = Channel(Other(p), s)
  <2>1. Behind(p, s)' = Behind(p, s) /\ Behind(Other(p), s)' = Behind(Other(p), s)
    BY DEF Behind, Commanded
  <2>2. Passing(Other(p))' = Passing(Other(p))
    BY <1>2, OtherPeer DEF Passing, Commanded
  <2>3. Passing(p) \in Seq(FramesOf(p)) /\ Behind(p, s) \in Seq(FramesOf(p))
    BY ChannelTyped
  <2>4. /\ Grown(Passing(p), Append(Passing(p), x.frame), x.frame, Len(Passing(p)))
        /\ Append(Passing(p), x.frame) \in Seq(FramesOf(p))
    BY <1>6, <2>3, AppendGrows
  <2>5. Grown(Passing(p) \o Behind(p, s), Append(Passing(p), x.frame) \o Behind(p, s), x.frame,
              Len(Passing(p)))
    BY <2>3, <2>4, GrownConcat
  <2>6. QED
    BY <1>5, <2>1, <2>2, <2>5 DEF Channel
<1>8. QED
  BY <1>4, <1>7

\* Steps from one queue to the next: a channel has the same frames in the same order.
LEMMA TakeCmdQueues ==
    ASSUME QueueInv, NEW p \in Peers, TakeCmd(p)
    PROVE  QueueInv' /\ \A q \in Peers, s \in Streams : Channel(q, s)' = Channel(q, s)
<1>1. QueueTypes(p, wire[p], frameQ[p], Idle, cmdQ[p]) /\ cmdQ[p] # <<>> /\ run[p] = Idle
  BY DEF QueueInv, TakeCmd
<1>2. Head(cmdQ[p]) \in CommandsOf(p) /\ Tail(cmdQ[p]) \in Seq(CommandsOf(p))
  BY <1>1, FramesInTail DEF QueueTypes
<1>3. /\ run'[p] = Head(cmdQ[p]) /\ cmdQ'[p] = Tail(cmdQ[p])
      /\ DOMAIN run' = Peers /\ DOMAIN cmdQ' = Peers
      /\ \A q \in Peers : q # p => run'[q] = run[q] /\ cmdQ'[q] = cmdQ[q]
      /\ UNCHANGED <<up, frameQ, wire, outQ>>
  BY DEF QueueInv, TakeCmd, pumpVars
<1>4. QueueInv'
  BY <1>2, <1>3 DEF QueueInv, QueueTypes
<1>5. Passing(p)' = Passing(p)
  BY <1>1, <1>3, TakingSame DEF Passing
<1>6. \A q \in Peers : Passing(q)' = Passing(q)
  BY <1>3, <1>5 DEF Passing
<1>7. QED
  BY <1>3, <1>4, <1>6 DEF Channel, Behind

LEMMA SendFrameQueues ==
    ASSUME QueueInv, NEW p \in Peers, SendFrame(p)
    PROVE  /\ QueueInv' /\ \A q \in Peers, s \in Streams : Channel(q, s)' = Channel(q, s)
           /\ run[p] \in CommandsOf(p)
<1>1. QueueTypes(p, wire[p], frameQ[p], run[p], cmdQ[p]) /\ run[p] # Idle
  BY DEF QueueInv, SendFrame
<1>2. run[p] \in CommandsOf(p) /\ run[p].frame \in FramesOf(p)
  BY <1>1 DEF QueueTypes, CommandsOf
<1>3. /\ run'[p] = Idle /\ frameQ'[p] = Append(frameQ[p], run[p].frame)
      /\ DOMAIN run' = Peers /\ DOMAIN frameQ' = Peers
      /\ \A q \in Peers : q # p => run'[q] = run[q] /\ frameQ'[q] = frameQ[q]
      /\ UNCHANGED <<up, cmdQ, wire, outQ>>
  BY DEF QueueInv, SendFrame
<1>4. Append(frameQ[p], run[p].frame) \in Seq(FramesOf(p))
  BY <1>1, <1>2, AppendProperties DEF QueueTypes
<1>5. QueueInv'
  BY <1>3, <1>4 DEF QueueInv, QueueTypes
<1>6. Passing(p)' = Passing(p)
  BY <1>1, <1>3, SendingSame DEF Passing
<1>7. \A q \in Peers : Passing(q)' = Passing(q)
  BY <1>3, <1>6 DEF Passing
<1>8. QED
  BY <1>2, <1>3, <1>5, <1>7 DEF Channel, Behind

LEMMA WriteQueues ==
    ASSUME QueueInv, NEW p \in Peers, Write(p)
    PROVE  QueueInv' /\ \A q \in Peers, s \in Streams : Channel(q, s)' = Channel(q, s)
<1>1. QueueTypes(p, wire[p], frameQ[p], run[p], cmdQ[p]) /\ frameQ[p] # <<>>
  BY DEF QueueInv, Write
<1>2. Head(frameQ[p]) \in FramesOf(p) /\ Tail(frameQ[p]) \in Seq(FramesOf(p))
  BY <1>1 DEF QueueTypes
<1>3. /\ wire'[p] = Append(wire[p], Head(frameQ[p])) /\ frameQ'[p] = Tail(frameQ[p])
      /\ DOMAIN wire' = Peers /\ DOMAIN frameQ' = Peers
      /\ \A q \in Peers : q # p => wire'[q] = wire[q] /\ frameQ'[q] = frameQ[q]
      /\ UNCHANGED <<up, cmdQ, run, outQ>>
  BY DEF QueueInv, Write, pumpVars
<1>4. wire'[p] \in Seq(FramesOf(p))
  BY <1>1, <1>2, <1>3, AppendProperties DEF QueueTypes
<1>5. QueueInv'
  BY <1>2, <1>3, <1>4 DEF QueueInv, QueueTypes
<1>6. Passing(p)' = Passing(p)
  BY <1>1, <1>3, WritingSame DEF Passing
<1>7. \A q \in Peers : Passing(q)' = Passing(q)
  BY <1>3, <1>6 DEF Passing
<1>8. QED
  BY <1>3, <1>5, <1>7 DEF Channel, Behind

\* handle_frame takes the first frame of the peer's channel, and may take an answer
\* in hand.
TakenOff(p, r) ==
    /\ run[p] = Idle /\ wire[Other(p)] # <<>>
    /\ wire' = [wire EXCEPT ![Other(p)] = Tail(@)]
    /\ DOMAIN run' = Peers /\ \A q \in Peers : run'[q] = IF q = p THEN r ELSE run[q]
    /\ UNCHANGED <<up, cmdQ, frameQ, outQ>>

LEMMA TakenQueues ==
    ASSUME QueueInv, NEW p \in Peers, NEW r \in CommandsOf(p) \cup {Idle}, TakenOff(p, r)
    PROVE  /\ QueueInv'
           /\ Head(wire[Other(p)]) \in FramesOf(Other(p))
           /\ \A s \in Streams :
                /\ Taken(Channel(Other(p), s), Channel(Other(p), s)')
                /\ Channel(Other(p), s)[1] = Head(wire[Other(p)])
                /\ r = Idle => Channel(p, s)' = Channel(p, s)
                /\ r # Idle =>
                     Grown(Channel(p, s), Channel(p, s)', r.frame, Len(wire[p] \o frameQ[p]))
<1> DEFINE q == Other(p)
<1>1. q \in Peers /\ q # p
  BY OtherPeer
<1> HIDE DEF q
<1>2. QueueTypes(q, wire[q], frameQ[q], run[q], cmdQ[q]) /\ wire[q] # <<>>
  BY <1>1 DEF QueueInv, TakenOff, q
<1>3. QueueTypes(p, wire[p], frameQ[p], Idle, cmdQ[p]) /\ run[p] = Idle
  BY DEF QueueInv, TakenOff
<1>4. /\ wire'[q] = Tail(wire[q]) /\ wire'[p] = wire[p]
      /\ run'[p] = r /\ run'[q] = run[q]
      /\ DOMAIN wire' = Peers /\ DOMAIN run' = Peers
      /\ \A o \in Peers : o = p \/ o = q
      /\ UNCHANGED <<up, cmdQ, frameQ, outQ>>
  BY <1>1 DEF QueueInv, TakenOff, q, Peers
<1>5. Head(wire[q]) \in FramesOf(q) /\ Tail(wire[q]) \in Seq(FramesOf(q))
  BY <1>2 DEF QueueTypes
<1>6. QueueTypes(p, wire[p], frameQ[p], r, cmdQ[p])
  BY <1>3 DEF QueueTypes
<1>7. QueueInv'
  <2>1. QueueTypes(p, wire[p], frameQ[p], run[p], cmdQ[p])'
    BY <1>4, <1>6 DEF QueueTypes
  <2>2. QueueTypes(q, wire[q], frameQ[q], run[q], cmdQ[q])'
    BY <1>2, <1>4, <1>5 DEF QueueTypes
  <2>3. QED
    BY <1>4, <2>1, <2>2 DEF QueueInv
<1>8. /\ Passing(q) # <<>> /\ Passing(q)[1] = Head(wire[q])
      /\ Passing(q)' = Tail(Passing(q))
  BY <1>1, <1>2, <1>4, HandlingTakes DEF Passing
<1>9. ASSUME NEW s \in Streams
      PROVE  /\ Taken(Channel(q, s), Channel(q, s)')
             /\ Channel(q, s)[1] = Head(wire[q])
             /\ r = Idle => Channel(p, s)' = Channel(p, s)
             /\ r # Idle =>
                  Grown(Channel(p, s), Channel(p, s)', r.frame, Len(wire[p] \o frameQ[p]))
  <2>1. Behind(p, s)' = Behind(p, s) /\ Behind(q, s)' = Behind(q, s)
    BY <1>4 DEF Behind
  <2>2. /\ Passing(q) \in Seq(FramesOf(q)) /\ Behind(q, s) \in Seq(FramesOf(q))
        /\ Channel(q, s) \in Seq(FramesOf(q))
        /\ Passing(p) \in Seq(FramesOf(p)) /\ Behind(p, s) \in Seq(FramesOf(p))
    BY <1>1, ChannelTyped
  <2>3. /\ Tail(Passing(q)) \o Behind(q, s) = Tail(Channel(q, s))
        /\ Channel(q, s) # <<>> /\ Channel(q, s)[1] = Head(Passing(q))
    BY <1>8, <2>2, TakenConcat DEF Channel
  <2>4. Channel(q, s)' = Tail(Channel(q, s))
    BY <1>8, <2>1, <2>3 DEF Channel
  <2>5. Taken(Channel(q, s), Channel(q, s)')
    BY <2>2, <2>3, <2>4, TailTaken
  <2>6. Channel(q, s)[1] = Head(wire[q])
    BY <1>8, <2>2, <2>3
  <2>7. ASSUME r = Idle PROVE Channel(p, s)' = Channel(p, s)
    BY <1>3, <1>4, <2>1, <2>7 DEF Channel, Passing
  <2>8. ASSUME r # Idle
        PROVE  Grown(Channel(p, s), Channel(p, s)', r.frame, Len(wire[p] \o frameQ[p]))
    <3>1. Passing(p) = Queues(wire[p], frameQ[p], Idle, cmdQ[p])
      BY <1>3 DEF Passing
    <3>2. Passing(p)' = Queues(wire[p], frameQ[p], r, cmdQ[p])
      BY <1>4 DEF Passing
    <3>3. Grown(Passing(p), Passing(p)', r.frame, Len(wire[p] \o frameQ[p]))
      BY <1>6, <2>8, <3>1, <3>2, AnsweringGrows
    <3>4. Passing(p)' \in Seq(FramesOf(p))
      BY <1>6, <3>2, QueuesTyped
    <3>5. Grown(Passing(p) \o Behind(p, s), Passing(p)' \o Behind(p, s), r.frame,
                Len(wire[p] \o frameQ[p]))
      BY <2>2, <3>3, <3>4, GrownConcat
    <3>6. QED
      BY <2>1, <3>5 DEF Channel
  <2>9. QED
    BY <2>5, <2>6, <2>7, <2>8
<1>10. QED
  BY <1>5, <1>7, <1>9 DEF q

\* The pump adds a frame at the end of its own channel.
LEMMA PumpDataQueues ==
    ASSUME QueueInv, NEW p \in Peers, NEW s \in Streams, PumpData(p, s), wrote[p][s] \in Nat
    PROVE  /\ QueueInv'
           /\ up[p] => Grown(Channel(p, s), Channel(p, s)', Frame("data", s, wrote[p][s] + 1),
                             Len(Channel(p, s)))
           /\ ~up[p] => Channel(p, s)' = Channel(p, s)
           /\ \A q \in Peers, t \in Streams :
                q # p \/ t # s => Channel(q, t)' = Channel(q, t)
<1> DEFINE x == Frame("data", s, wrote[p][s] + 1)
<1>1. x \in Of("data", s)
  BY DEF Of, AnyFrame, Frame, FrameTypes
<1>2. /\ UNCHANGED <<up, cmdQ, run, frameQ, wire>>
      /\ outQ' = [outQ EXCEPT ![p][s] = Append(@, x)]
  BY DEF PumpData, queueVars
<1> HIDE DEF x
<1>3. /\ DOMAIN outQ' = Peers /\ \A q \in Peers : DOMAIN outQ'[q] = Streams
      /\ outQ'[p][s] = Append(outQ[p][s], x)
      /\ \A q \in Peers, t \in Streams : q # p \/ t # s => outQ'[q][t] = outQ[q][t]
  BY <1>2 DEF QueueInv
<1>4. outQ[p][s] \in Seq(Of("data", s)) /\ Append(outQ[p][s], x) \in Seq(Of("data", s))
  BY <1>1, AppendProperties DEF QueueInv
<1>5. QueueInv'
  <2>1. \A q \in Peers, t \in Streams : outQ'[q][t] \in Seq(Of("data", t))
    BY <1>3, <1>4 DEF QueueInv
  <2>2. QED
    BY <1>2, <1>3, <2>1 DEF QueueInv, QueueTypes
<1>6. \A q \in Peers : Passing(q)' = Passing(q)
  BY <1>2 DEF Passing
<1>7. ASSUME up[p] PROVE Grown(Channel(p, s), Channel(p, s)', x, Len(Channel(p, s)))
  <2>1. Behind(p, s) = outQ[p][s] /\ Behind(p, s)' = Append(outQ[p][s], x)
    BY <1>2, <1>3, <1>7 DEF Behind
  <2>2. x \in FramesOf(p) /\ outQ[p][s] \in Seq(FramesOf(p)) /\ <<x>> \in Seq(FramesOf(p))
    BY <1>1, <1>4, DataPasses
  <2>3. Passing(p) \in Seq(FramesOf(p)) /\ Channel(p, s) \in Seq(FramesOf(p))
    BY ChannelTyped
  <2>4. Append(outQ[p][s], x) = outQ[p][s] \o <<x>>
    BY <2>2, AppendIsConcat
  <2>5. Passing(p) \o (outQ[p][s] \o <<x>>) = (Passing(p) \o outQ[p][s]) \o <<x>>
    <3> DEFINE a == Passing(p)
               b == outQ[p][s]
               d == <<x>>
               S == FramesOf(p)
    <3>1. a \in Seq(S) /\ b \in Seq(S) /\ d \in Seq(S)
      BY <2>2, <2>3
    <3> HIDE DEF a, b, d, S
    <3>2. (a \o b) \o d = a \o (b \o d)
      BY <3>1, ConcatAssociative, SMTT(30)
    <3>3. QED
      BY <3>2 DEF a, b, d
  <2>6. Channel(p, s)' = Channel(p, s) \o <<x>>
    BY <1>6, <2>1, <2>4, <2>5 DEF Channel
  <2>7. Channel(p, s) \o <<x>> = Append(Channel(p, s), x)
    BY <2>2, <2>3, AppendIsConcat
  <2>8. QED
    BY <2>2, <2>3, <2>6, <2>7, AppendGrows
<1>8. \A q \in Peers, t \in Streams :
        (q # p \/ t # s) \/ ~up[p] => Behind(q, t)' = Behind(q, t) \/ (q = p /\ t = s /\ up[p])
  BY <1>2, <1>3 DEF Behind
<1>9. \A q \in Peers, t \in Streams : q # p \/ t # s => Channel(q, t)' = Channel(q, t)
  BY <1>6, <1>8 DEF Channel
<1>10. ~up[p] => Channel(p, s)' = Channel(p, s)
  BY <1>6, <1>8 DEF Channel
<1>11. QED
  BY <1>5, <1>7, <1>9, <1>10 DEF x

\* The forwarder moves it on: its own channel stays, the others get a frame of it.
LEMMA ForwardDataQueues ==
    ASSUME QueueInv, NEW p \in Peers, NEW s \in Streams, ForwardData(p, s)
    PROVE  /\ QueueInv'
           /\ Channel(p, s)' = Channel(p, s)
           /\ \A t \in Streams : Channel(Other(p), t)' = Channel(Other(p), t)
           /\ \E x \in Of("data", s) : \A t \in Streams :
                t # s => Grown(Channel(p, t), Channel(p, t)', x, Len(Passing(p)))
<1> DEFINE x == Head(outQ[p][s])
           c == Sending(x, "none")
           o == outQ[p][s]
<1>1. o \in Seq(Of("data", s)) /\ o # <<>>
  BY DEF QueueInv, ForwardData
<1>2. x \in Of("data", s) /\ Tail(o) \in Seq(Of("data", s)) /\ o = <<x>> \o Tail(o)
  BY <1>1
<1>3. x \in FramesOf(p) /\ c \in CommandsOf(p) /\ c.frame = x
  BY <1>2, DataPasses DEF CommandsOf, Sending, Of
<1>4. /\ cmdQ' = [cmdQ EXCEPT ![p] = Append(@, c)]
      /\ outQ' = [outQ EXCEPT ![p][s] = Tail(o)]
      /\ up[p] /\ UNCHANGED <<up, run, frameQ, wire>>
  BY DEF ForwardData, Command
<1> HIDE DEF x, c, o
<1>5. /\ DOMAIN outQ' = Peers /\ \A q \in Peers : DOMAIN outQ'[q] = Streams
      /\ outQ'[p][s] = Tail(o)
      /\ \A q \in Peers, t \in Streams : q # p \/ t # s => outQ'[q][t] = outQ[q][t]
      /\ DOMAIN cmdQ' = Peers /\ cmdQ'[p] = Append(cmdQ[p], c)
      /\ \A q \in Peers : q # p => cmdQ'[q] = cmdQ[q]
  BY <1>4 DEF QueueInv
<1>6. QueueTypes(p, wire[p], frameQ[p], run[p], cmdQ[p])
  BY DEF QueueInv
<1>7. Append(cmdQ[p], c) \in Seq(CommandsOf(p))
  BY <1>3, <1>6, AppendProperties DEF QueueTypes
<1>8. QueueInv'
  BY <1>2, <1>4, <1>5, <1>7 DEF QueueInv, QueueTypes
<1>9. Passing(p)' = Append(Passing(p), x)
  BY <1>3, <1>4, <1>5, <1>6, CommandGrows DEF Passing
<1>10. Passing(Other(p))' = Passing(Other(p))
  BY <1>4, <1>5, OtherPeer DEF Passing
<1>11. Passing(p) \in Seq(FramesOf(p)) /\ Append(Passing(p), x) \in Seq(FramesOf(p))
  BY <1>3, <1>6, QueuesTyped, AppendProperties DEF Passing
<1>12. Channel(p, s)' = Channel(p, s)
  <2>1. Behind(p, s) = o /\ Behind(p, s)' = Tail(o)
    BY <1>4, <1>5 DEF Behind, o
  <2>2. Tail(o) \in Seq(FramesOf(p)) /\ <<x>> \in Seq(FramesOf(p))
    BY <1>2, <1>3, DataPasses
  <2>3. (Passing(p) \o <<x>>) \o Tail(o) = Passing(p) \o (<<x>> \o Tail(o))
    BY <1>11, <2>2, ConcatAssociative
  <2>4. Append(Passing(p), x) = Passing(p) \o <<x>>
    BY <1>3, <1>11, AppendIsConcat
  <2>5. QED
    BY <1>2, <1>9, <2>1, <2>3, <2>4 DEF Channel
<1>13. ASSUME NEW t \in Streams, t # s
       PROVE  Grown(Channel(p, t), Channel(p, t)', x, Len(Passing(p)))
  <2>1. Behind(p, t)' = Behind(p, t) /\ Behind(p, t) \in Seq(FramesOf(p))
    BY <1>4, <1>5, <1>13, ChannelTyped DEF Behind
  <2>2. Grown(Passing(p), Append(Passing(p), x), x, Len(Passing(p)))
    BY <1>3, <1>11, AppendGrows
  <2>3. Grown(Passing(p) \o Behind(p, t), Append(Passing(p), x) \o Behind(p, t), x,
              Len(Passing(p)))
    BY <1>11, <2>1, <2>2, GrownConcat
  <2>4. QED
    BY <1>9, <2>1, <2>3 DEF Channel
<1>14. \A t \in Streams : Channel(Other(p), t)' = Channel(Other(p), t)
  BY <1>4, <1>5, <1>10, OtherPeer DEF Channel, Behind
<1>15. QED
  BY <1>2, <1>8, <1>12, <1>13, <1>14 DEF x

LEMMA PartOfConcat ==
    ASSUME NEW S, NEW a \in Seq(S), NEW r \in Seq(S)
    PROVE  Part(a \o r, r, Len(a)) /\ Len(a) \in Nat
<1>1. /\ Len(a \o r) = Len(a) + Len(r)
      /\ \A i \in 1..Len(a) + Len(r) : (a \o r)[i] = IF i <= Len(a) THEN a[i] ELSE r[i - Len(a)]
  BY ConcatProperties
<1>2. Len(a) \in Nat /\ Len(r) \in Nat
  OBVIOUS
<1>3. ASSUME NEW i \in 1..Len(r) PROVE r[i] = (a \o r)[i + Len(a)]
  <2>1. i + Len(a) \in 1..Len(a) + Len(r) /\ ~(i + Len(a) <= Len(a)) /\ (i + Len(a)) - Len(a) = i
    BY <1>2
  <2>2. QED
    BY <1>1, <2>1
<1> DEFINE t == a \o r
<1>4. Len(r) + Len(a) <= Len(t) /\ \A i \in 1..Len(r) : r[i] = t[i + Len(a)]
  BY <1>1, <1>2, <1>3
<1> HIDE DEF t
<1>5. Part(t, r, Len(a))
  BY <1>2, <1>4 DEF Part
<1>6. QED
  BY <1>2, <1>5 DEF t

\* Concatenation associates (under a name, which the provers do not rewrite).
Associates(s, t, u) == (s \o t) \o u = s \o (t \o u)

LEMMA Associative ==
    ASSUME NEW S
    PROVE  \A s, t, u \in Seq(S) : Associates(s, t, u)
BY ConcatAssociative, SMTT(30) DEF Associates

LEMMA FrontGone ==
    ASSUME NEW S, NEW a \in Seq(S), NEW b \in Seq(S), NEW c \in Seq(S), NEW d \in Seq(S),
           NEW e \in Seq(S)
    PROVE  /\ Part((((a \o b) \o c) \o d) \o e, (((<<>> \o b) \o c) \o d) \o e, Len(a))
           /\ Len(a) \in Nat
<1>0. \A s, t, u \in Seq(S) : Associates(s, t, u)
  BY Associative
<1>1. PICK u \in Seq(S) : u = b \o c
  BY ConcatProperties
<1>2. PICK v \in Seq(S) : v = u \o d
  BY ConcatProperties
<1>3. PICK r \in Seq(S) : r = v \o e
  BY ConcatProperties
<1>4. Associates(a, b, c) /\ Associates(a, u, d) /\ Associates(a, v, e)
  BY <1>0
<1>5. (a \o b) \o c = a \o u /\ (a \o u) \o d = a \o v /\ (a \o v) \o e = a \o r
  BY <1>1, <1>2, <1>3, <1>4 DEF Associates
<1>6. <<>> \o b = b
  BY ConcatEmptySeq
<1>7. Part(a \o r, r, Len(a)) /\ Len(a) \in Nat
  BY PartOfConcat
<1>8. (((a \o b) \o c) \o d) \o e = a \o r
  BY <1>5
<1>9. (((<<>> \o b) \o c) \o d) \o e = r
  BY <1>1, <1>2, <1>3, <1>6
<1>10. QED
  BY <1>7, <1>8, <1>9

\* Of a peer whose run task ends the frames its writer has are left; what its peer had
\* on the wire is gone.
LEMMA EndRunQueues ==
    ASSUME QueueInv, NEW p \in Peers, EndRun(p)
    PROVE  /\ QueueInv'
           /\ \A s \in Streams :
                /\ Part(Channel(p, s), Channel(p, s)', 0)
                /\ \E k \in Nat : Part(Channel(Other(p), s), Channel(Other(p), s)', k)
<1> DEFINE q == Other(p)
<1>1. q \in Peers /\ q # p
  BY OtherPeer
<1> HIDE DEF q
<1>2. /\ QueueTypes(q, wire[q], frameQ[q], run[q], cmdQ[q])
      /\ QueueTypes(p, wire[p], frameQ[p], run[p], cmdQ[p])
  BY <1>1 DEF QueueInv
<1>3. wire' = [wire EXCEPT ![q] = <<>>]
  BY DEF EndRun, q
<1>4. wire[p] \in Seq(FramesOf(p)) /\ frameQ[p] \in Seq(FramesOf(p))
  BY <1>2 DEF QueueTypes
<1>5. /\ wire'[p] = wire[p] /\ wire'[q] = <<>>
      /\ run'[p] = Idle /\ frameQ'[p] = frameQ[p] /\ cmdQ'[p] = <<>> /\ up'[p] = FALSE
      /\ run'[q] = run[q] /\ frameQ'[q] = frameQ[q] /\ cmdQ'[q] = cmdQ[q] /\ up'[q] = up[q]
      /\ DOMAIN wire' = Peers /\ DOMAIN run' = Peers /\ DOMAIN frameQ' = Peers
      /\ DOMAIN cmdQ' = Peers /\ up' \in [Peers -> BOOLEAN]
      /\ outQ' = outQ
      /\ \A o \in Peers : o = p \/ o = q
  BY <1>1, <1>3 DEF EndRun, QueueInv, pumpVars, Peers
<1>6. QueueInv'
  <2>1. QueueTypes(p, wire[p], frameQ[p], run[p], cmdQ[p])'
    BY <1>4, <1>5 DEF QueueTypes
  <2>2. QueueTypes(q, wire[q], frameQ[q], run[q], cmdQ[q])'
    BY <1>2, <1>5 DEF QueueTypes
  <2>3. QED
    BY <1>5, <2>1, <2>2 DEF QueueInv
<1>7. ASSUME NEW s \in Streams
      PROVE  /\ Part(Channel(p, s), Channel(p, s)', 0)
             /\ \E m \in Nat : Part(Channel(q, s), Channel(q, s)', m)
  <2>1. Behind(p, s)' = <<>> /\ Behind(q, s)' = Behind(q, s)
    BY <1>5 DEF Behind
  <2>2. Behind(p, s) \in Seq(FramesOf(p))
    BY ChannelTyped
  <2>3. Passing(p)' = Queues(wire[p], frameQ[p], Idle, <<>>)
    BY <1>5 DEF Passing
  <2>4. Part(Passing(p) \o Behind(p, s), Passing(p)' \o <<>>, 0)
    BY <1>2, <2>2, <2>3, EndingLeaves DEF Passing
  <2>5. PICK m \in Nat : Part(Channel(q, s), Channel(q, s)', m)
    <3> DEFINE S == FramesOf(q)
               a == wire[q]
               b == frameQ[q]
               c == InHand(run[q])
               d == FramesIn(cmdQ[q])
               e == Behind(q, s)
    <3>1. a \in Seq(S) /\ b \in Seq(S) /\ c \in Seq(S) /\ d \in Seq(S) /\ e \in Seq(S)
      BY <1>1, <1>2, HandTypes, CommandFrames, ChannelTyped DEF QueueTypes
    <3>2. Channel(q, s) = (((a \o b) \o c) \o d) \o e
      BY DEF Channel, Passing, Queues
    <3>3. Channel(q, s)' = (((<<>> \o b) \o c) \o d) \o e
      BY <1>5, <2>1 DEF Channel, Passing, Queues
    <3> HIDE DEF S, a, b, c, d, e
    <3>4. Part((((a \o b) \o c) \o d) \o e, (((<<>> \o b) \o c) \o d) \o e, Len(a))
      BY <3>1, FrontGone
    <3>5. Len(a) \in Nat
      BY <3>1, FrontGone
    <3>6. QED
      BY <3>2, <3>3, <3>4, <3>5
  <2>6. QED
    BY <2>1, <2>4, <2>5 DEF Channel
<1>8. QED
  BY <1>6, <1>7 DEF q

\* A pump that stops after the end of its run task empties a queue that is stuck.
LEMMA PumpStopsQueues ==
    ASSUME QueueInv, NEW p \in Peers, NEW s \in Streams, PumpStops(p, s)
    PROVE  QueueInv' /\ \A q \in Peers, t \in Streams : Channel(q, t)' = Channel(q, t)
<1>1. /\ UNCHANGED <<up, cmdQ, run, frameQ, wire>> /\ ~up[p]
      /\ outQ' = [outQ EXCEPT ![p][s] = <<>>]
  BY DEF PumpStops, queueVars
<1>2. /\ DOMAIN outQ' = Peers /\ \A q \in Peers : DOMAIN outQ'[q] = Streams
      /\ outQ'[p][s] = <<>>
      /\ \A q \in Peers, t \in Streams : q # p \/ t # s => outQ'[q][t] = outQ[q][t]
  BY <1>1 DEF QueueInv
<1>3. \A q \in Peers, t \in Streams : outQ'[q][t] \in Seq(Of("data", t))
  BY <1>2, EmptySeq DEF QueueInv
<1>4. QueueInv'
  BY <1>1, <1>2, <1>3 DEF QueueInv, QueueTypes
<1>5. \A q \in Peers, t \in Streams : Behind(q, t)' = Behind(q, t)
  BY <1>1, <1>2 DEF Behind
<1>6. \A q \in Peers : Passing(q)' = Passing(q)
  BY <1>1 DEF Passing
<1>7. QED
  BY <1>4, <1>5, <1>6 DEF Channel

LEMMA QueuesStay ==
    ASSUME QueueInv, UNCHANGED <<up, cmdQ, run, frameQ, wire, outQ>>
    PROVE  QueueInv' /\ \A q \in Peers, t \in Streams : Channel(q, t)' = Channel(q, t)
BY DEF QueueInv, QueueTypes, Channel, Passing, Behind
----------------------------------------------------------------------------
(* What holds of one stream, of the channels it uses and of its ends. *)

\* Frames of stream s that p's writer task has or has had.
Posted(p, X) == Has(wire[p], X) \/ Has(frameQ[p], X)

\* One direction of data: Q is the channel from the sender to the receiver, from and
\* to whether they are up, w the data frames written, g those received, n those there
\* are to write, t the sender's pump, c whether the receiver has handled the close.
\* Towards a receiver that is up each of the frames after g is under way, in order and
\* before the close.
DataOk(Q, s, from, to, w, g, n, t, c) ==
    /\ g \in Nat /\ w \in Nat /\ n \in Nat /\ g <= w /\ w <= n
    /\ t = "none" => w = 0
    /\ t = "eof" => w = n
    /\ c => g = n
    /\ to =>
         /\ \A k \in Nat : Has(Q, Nth("data", s, k)) => g < k /\ k <= w
         /\ from => \A k \in Nat : g < k /\ k <= w => Has(Q, Nth("data", s, k))
         /\ \A k \in Nat : Once(Q, Nth("data", s, k))
         /\ \A k, m \in Nat : g < m /\ m < k => Led(Q, Nth("data", s, k), Nth("data", s, m))
         /\ \A m \in Nat : g < m /\ m <= n => Led(Q, Of("close", s), Nth("data", s, m))

DataInv(p, s) ==
    DataOk(Channel(p, s), s, up[p], up[Other(p)], wrote[p][s], got[Other(p)][s], chunks[p],
           pump[p][s], closed[Other(p)][s])

\* Where the stream is registered: Q is the channel from the server; for the client and
\* the server, uc and us whether they are up, pc and ps whether the pump has been
\* started, rc and rs whether the stream is registered, cc and cs whether its close was
\* handled; posted whether the server's writer has the ack that accepts it.
RegOk(Q, s, uc, us, pc, ps, rc, rs, cc, cs, posted) ==
    /\ us /\ (posted \/ pc) => rs \/ cs
    /\ uc /\ us /\ ps => rc \/ cc \/ Has(Q, Nth("ack", s, STATUS_OK))
    /\ uc /\ ~rc /\ ~cc =>
         \A k \in Nat : Led(Q, Nth("data", s, k), Nth("ack", s, STATUS_OK))

RegInv(s) ==
    RegOk(Channel("server", s), s, up["client"], up["server"],
          pump["client"][s] # "none", pump["server"][s] # "none",
          s \in registered["client"], s \in registered["server"],
          closed["client"][s], closed["server"][s],
          Posted("server", Nth("ack", s, STATUS_OK)))

\* The open and its ack: Q and R are the channels from the client and from the server,
\* u whether the client is up, o and a the two ends, w whether the open waits in
\* pending, posted whether the client's writer has the open.
OpenOk(Q, R, s, u, o, a, w, posted) ==
    /\ o = "idle" => ~Has(Q, Of("open", s)) /\ a = "none"
    /\ Has(Q, Of("open", s)) => a = "none"
    /\ Once(Q, Of("open", s))
    /\ a \in {"none", "event", "taken"} => ~Has(R, Of("ack", s))
    /\ Once(R, Of("ack", s))
    /\ u /\ (posted \/ a \in {"event", "taken"} \/ Has(R, Of("ack", s))) => w

OpenInv(s) ==
    OpenOk(Channel("client", s), Channel("server", s), s, up["client"], opener[s], acceptor[s],
           s \in pending, Posted("client", Of("open", s)))

\* The session of the stream: m is MUX mode, in whether the server has it, r the request,
\* i whether authenticate was not called yet, b under.
SessOk(Q, s, uc, us, o, a, m, in, r, i, b) ==
    /\ in \/ Has(Q, Nth("authRequest", s, STATUS_OK)) => r = "good"
    /\ i => r = "none"
    /\ m /\ a \in {"event", "taken", "accepted", "refused"} => r = "good"
    /\ a = "barred" => m /\ ~b
    /\ b => r = "good" /\ o # "idle"
    /\ m /\ r = "good" /\ uc /\ us /\ ~in => Has(Q, Nth("authRequest", s, STATUS_OK))
    /\ m /\ b /\ us /\ ~in =>
         Led(Q, Of("open", s), Nth("authRequest", s, STATUS_OK))

SessInv(s) ==
    SessOk(Channel("client", s), s, up["client"], up["server"], opener[s], acceptor[s], mux,
           s \in sessions, sent[s], auth[s] = "idle", under[s])

StreamInv(s) == /\ DataInv("client", s) /\ DataInv("server", s)
                /\ RegInv(s) /\ OpenInv(s) /\ SessInv(s)

----------------------------------------------------------------------------
(* What the steps do to these. *)

Mine(types, s) == {f \in AnyFrame : f.type \in types /\ f.id = s}

LEMMA Kinds ==
    /\ \A t, s, f : f \in Of(t, s) <=> f \in AnyFrame /\ f.type = t /\ f.id = s
    /\ \A t, s, k, f : f \in Nth(t, s, k) <=> f \in AnyFrame /\ f.type = t /\ f.id = s /\ f.n = k
    /\ \A Z, t, s : t \in Z => Of(t, s) \in SUBSET Mine(Z, s)
    /\ \A Z, t, s, k : t \in Z => Nth(t, s, k) \in SUBSET Mine(Z, s)
    /\ \A t \in FrameTypes, s \in Streams, k \in Nat :
         /\ Frame(t, s, k) \in AnyFrame
         /\ Frame(t, s, k).type = t /\ Frame(t, s, k).id = s /\ Frame(t, s, k).n = k
BY DEF Of, Nth, Mine, AnyFrame, Frame

\* How a channel grows, at its end (e) or before it.
LEMMA Growing ==
    ASSUME NEW Q, NEW R, NEW f, NEW k, Len(Q) \in Nat, Len(R) \in Nat, Grown(Q, R, f, k)
    PROVE  /\ \A X : Has(R, X) <=> Has(Q, X) \/ f \in X
           /\ \A X : Once(Q, X) /\ (f \notin X \/ ~Has(Q, X)) => Once(R, X)
           /\ \A X, Y : Led(Q, Y, X) /\ f \notin Y => Led(R, Y, X)
           /\ k = Len(Q) => \A X, Y : Led(Q, Y, X) /\ Has(Q, X) => Led(R, Y, X)
<1>1. ASSUME NEW X PROVE Has(R, X) <=> Has(Q, X) \/ f \in X
  BY GrownHas
<1>2. ASSUME NEW X, Once(Q, X), f \notin X \/ ~Has(Q, X) PROVE Once(R, X)
  BY <1>2, GrownOnce
<1>3. ASSUME NEW X, NEW Y, Led(Q, Y, X), f \notin Y PROVE Led(R, Y, X)
  BY <1>3, GrownLed
<1>4. ASSUME k = Len(Q), NEW X, NEW Y, Led(Q, Y, X), Has(Q, X) PROVE Led(R, Y, X)
  <2>1. \E j \in 1..k : Q[j] \in X
    BY <1>4 DEF Has
  <2>2. QED
    BY <1>4, <2>1, GrownLed
<1>5. QED
  BY <1>1, <1>2, <1>3, <1>4

\* How it loses its first frame.
LEMMA Taking ==
    ASSUME NEW Q, NEW R, Len(Q) \in Nat, Len(R) \in Nat, Taken(Q, R)
    PROVE  /\ \A X : Has(Q, X) => Q[1] \in X \/ Has(R, X)
           /\ \A X : Has(R, X) => Has(Q, X)
           /\ \A X : Q[1] \in X => Has(Q, X)
           /\ \A X : Once(Q, X) => Once(R, X)
           /\ \A X : Once(Q, X) /\ Q[1] \in X => ~Has(R, X)
           /\ \A X, Y : Led(Q, Y, X) => Q[1] \notin Y
           /\ \A X, Y : Led(Q, Y, X) /\ Q[1] \notin X => Led(R, Y, X)
<1>1. Part(Q, R, 1) /\ 1 \in 1..Len(Q)
  BY DEF Taken, Part
<1>2. (\A X : Has(R, X) => Has(Q, X)) /\ (\A X : Once(Q, X) => Once(R, X))
  BY <1>1, PartKeeps
<1>3. \A X : Q[1] \in X => Has(Q, X)
  BY <1>1 DEF Has
<1>4. QED
  BY <1>2, <1>3, TakenKeeps

\* Data and the close of stream s.
LEMMA DataAlike ==
    ASSUME NEW Q, NEW R, NEW s, NEW from, NEW to, NEW w, NEW g, NEW n, NEW t, NEW c,
           DataOk(Q, s, from, to, w, g, n, t, c), Alike(Q, R, Mine({"data", "close"}, s))
    PROVE  DataOk(R, s, from, to, w, g, n, t, c)
<1> DEFINE Z == Mine({"data", "close"}, s)
<1>1. \A k : Nth("data", s, k) \in SUBSET Z
  BY Kinds
<1>2. Of("close", s) \in SUBSET Z
  BY Kinds
<1> HIDE DEF Z
<1>3. \A k \in Nat : Has(R, Nth("data", s, k)) <=> Has(Q, Nth("data", s, k))
  BY <1>1 DEF Alike, Z
<1>4. \A k \in Nat : Once(Q, Nth("data", s, k)) => Once(R, Nth("data", s, k))
  BY <1>1 DEF Alike, Z
<1>5. \A k, m \in Nat : Led(Q, Nth("data", s, k), Nth("data", s, m))
                           => Led(R, Nth("data", s, k), Nth("data", s, m))
  BY <1>1 DEF Alike, Z
<1>6. \A m \in Nat : Led(Q, Of("close", s), Nth("data", s, m))
                        => Led(R, Of("close", s), Nth("data", s, m))
  BY <1>1, <1>2 DEF Alike, Z
<1>7. QED
  BY <1>3, <1>4, <1>5, <1>6 DEF DataOk

\* The pump writes the next frame, to a queue that is stuck if the sender is down.
LEMMA DataWritten ==
    ASSUME NEW Q, NEW R, NEW s \in Streams, NEW from, NEW to, NEW w, NEW g, NEW n, NEW c,
           DataOk(Q, s, from, to, w, g, n, "running", c), w < n,
           Len(Q) \in Nat, Len(R) \in Nat,
           from => Grown(Q, R, Frame("data", s, w + 1), Len(Q)),
           ~from => R = Q
    PROVE  DataOk(R, s, from, to, w + 1, g, n, "counting", c)
<1>1. CASE ~from
  BY <1>1 DEF DataOk
<1>2. CASE from
  <2> DEFINE f == Frame("data", s, w + 1)
  <2>1. /\ f \notin Of("close", s) /\ f \in Nth("data", s, w + 1)
        /\ \A k \in Nat : f \in Nth("data", s, k) => k = w + 1
    BY Kinds DEF DataOk, FrameTypes
  <2> HIDE DEF f
  <2>2. /\ \A X : Has(R, X) <=> Has(Q, X) \/ f \in X
        /\ \A X : Once(Q, X) /\ (f \notin X \/ ~Has(Q, X)) => Once(R, X)
        /\ \A X, Y : Led(Q, Y, X) /\ f \notin Y => Led(R, Y, X)
        /\ \A X, Y : Led(Q, Y, X) /\ Has(Q, X) => Led(R, Y, X)
    BY <1>2, Growing DEF f
  <2>3. g \in Nat /\ w \in Nat /\ n \in Nat /\ g <= w /\ w + 1 <= n /\ ~c
    BY DEF DataOk
  <2>4. ASSUME to PROVE \A k \in Nat : Has(R, Nth("data", s, k)) => g < k /\ k <= w + 1
    BY <2>1, <2>2, <2>3, <2>4 DEF DataOk
  <2>5. ASSUME to PROVE \A k \in Nat : g < k /\ k <= w + 1 => Has(R, Nth("data", s, k))
    BY <1>2, <2>1, <2>2, <2>3, <2>5 DEF DataOk
  <2>6. ASSUME to PROVE \A k \in Nat : Once(R, Nth("data", s, k))
    BY <2>1, <2>2, <2>3, <2>6 DEF DataOk
  <2>7. ASSUME to, NEW k \in Nat, NEW m \in Nat, g < m, m < k
        PROVE  Led(R, Nth("data", s, k), Nth("data", s, m))
    BY <1>2, <2>1, <2>2, <2>3, <2>7 DEF DataOk
  <2>8. ASSUME to PROVE \A m \in Nat : g < m /\ m <= n => Led(R, Of("close", s), Nth("data", s, m))
    BY <2>1, <2>2, <2>3, <2>8 DEF DataOk
  <2>9. QED
    BY <2>3, <2>4, <2>5, <2>6, <2>7, <2>8 DEF DataOk
<1>3. QED
  BY <1>1, <1>2

\* Its pump goes on.
LEMMA DataPump ==
    ASSUME NEW Q, NEW s, NEW from, NEW to, NEW w, NEW g, NEW n, NEW t, NEW c, NEW r,
           DataOk(Q, s, from, to, w, g, n, t, c), r # "none", r = "eof" => w = n
    PROVE  DataOk(Q, s, from, to, w, g, n, r, c)
BY DEF DataOk

\* The close follows all of the data.
LEMMA DataCloses ==
    ASSUME NEW Q, NEW R, NEW s \in Streams, NEW from, NEW to, NEW w, NEW g, NEW n, NEW c,
           DataOk(Q, s, from, to, w, g, n, "eof", c), from,
           Len(Q) \in Nat, Len(R) \in Nat, Grown(Q, R, Frame("close", s, 0), Len(Q))
    PROVE  DataOk(R, s, from, to, w, g, n, "done", c)
<1> DEFINE f == Frame("close", s, 0)
<1>1. \A k \in Nat : f \notin Nth("data", s, k)
  BY Kinds DEF FrameTypes
<1> HIDE DEF f
<1>2. /\ \A X : Has(R, X) <=> Has(Q, X) \/ f \in X
      /\ \A X : Once(Q, X) /\ (f \notin X \/ ~Has(Q, X)) => Once(R, X)
      /\ \A X, Y : Led(Q, Y, X) /\ f \notin Y => Led(R, Y, X)
      /\ \A X, Y : Led(Q, Y, X) /\ Has(Q, X) => Led(R, Y, X)
  BY Growing DEF f
<1>3. g \in Nat /\ w = n /\ n \in Nat /\ g <= w
  BY DEF DataOk
<1>4. ASSUME to PROVE \A m \in Nat : g < m /\ m <= n => Led(R, Of("close", s), Nth("data", s, m))
  BY <1>2, <1>3, <1>4 DEF DataOk
<1>5. QED
  BY <1>1, <1>2, <1>3, <1>4 DEF DataOk

\* The receiver takes the first frame: the next one of the data, or the close.
LEMMA DataTaken ==
    ASSUME NEW Q, NEW R, NEW s, NEW from, NEW w, NEW g, NEW n, NEW t, NEW c,
           DataOk(Q, s, from, TRUE, w, g, n, t, c), Len(Q) \in Nat, Len(R) \in Nat, Taken(Q, R),
           Q[1] \in Of("data", s)
    PROVE  /\ Q[1] \in Nth("data", s, g + 1) /\ g + 1 <= w /\ c # TRUE
           /\ DataOk(R, s, from, TRUE, w, g + 1, n, t, c)
<1> DEFINE k == Q[1].n
<1>0. k \in Nat /\ Q[1] \in Nth("data", s, k)
  BY Kinds DEF AnyFrame
<1> HIDE DEF k
<1>1. /\ \A X : Has(Q, X) => Q[1] \in X \/ Has(R, X)
      /\ \A X : Has(R, X) => Has(Q, X)
      /\ \A X : Q[1] \in X => Has(Q, X)
      /\ \A X : Once(Q, X) => Once(R, X)
      /\ \A X : Once(Q, X) /\ Q[1] \in X => ~Has(R, X)
      /\ \A X, Y : Led(Q, Y, X) => Q[1] \notin Y
      /\ \A X, Y : Led(Q, Y, X) /\ Q[1] \notin X => Led(R, Y, X)
  BY Taking
<1>2. \A m \in Nat : Q[1] \in Nth("data", s, m) => m = k
  BY <1>0, Kinds
<1>3. g \in Nat /\ w \in Nat /\ n \in Nat /\ g <= w /\ w <= n
  BY DEF DataOk
<1>4. g < k /\ k <= w /\ c # TRUE
  <2>1. g < k /\ k <= w /\ ~c
    BY <1>0, <1>1, <1>3 DEF DataOk
  <2>2. c # TRUE
    BY <2>1
  <2>3. QED
    BY <2>1, <2>2
<1>5. \A m \in Nat : g < m /\ m < k => ~Led(Q, Nth("data", s, k), Nth("data", s, m))
  BY <1>0, <1>1
<1>6. k = g + 1
  <2>1. g + 1 \in Nat /\ g < g + 1 /\ (k # g + 1 => g + 1 < k)
    BY <1>0, <1>3, <1>4
  <2>2. QED
    BY <1>0, <1>5, <2>1 DEF DataOk
<1>7. \A m \in Nat : Has(R, Nth("data", s, m)) => k < m /\ m <= w
  <2> SUFFICES ASSUME NEW m \in Nat, Has(R, Nth("data", s, m)) PROVE k < m /\ m <= w
    OBVIOUS
  <2>1. g < m /\ m <= w
    BY <1>1 DEF DataOk
  <2>2. m # k
    BY <1>0, <1>1 DEF DataOk
  <2>3. QED
    BY <1>3, <1>6, <2>1, <2>2
<1>8. ASSUME from PROVE \A m \in Nat : k < m /\ m <= w => Has(R, Nth("data", s, m))
  BY <1>1, <1>2, <1>3, <1>6, <1>8 DEF DataOk
<1>9. \A m \in Nat : Once(R, Nth("data", s, m))
  BY <1>1 DEF DataOk
<1>10. ASSUME NEW m \in Nat, k < m PROVE Q[1] \notin Nth("data", s, m) /\ g < m
  BY <1>2, <1>3, <1>6, <1>10
<1>11. \A i, m \in Nat : k < m /\ m < i => Led(R, Nth("data", s, i), Nth("data", s, m))
  BY <1>1, <1>10 DEF DataOk
<1>12. \A m \in Nat : k < m /\ m <= n => Led(R, Of("close", s), Nth("data", s, m))
  BY <1>1, <1>10 DEF DataOk
<1>13. QED
  <2>1. DataOk(R, s, from, TRUE, w, k, n, t, c)
    BY <1>0, <1>3, <1>4, <1>6, <1>7, <1>8, <1>9, <1>11, <1>12 DEF DataOk
  <2>2. QED
    BY <1>0, <1>4, <1>6, <2>1

LEMMA CloseTaken ==
    ASSUME NEW Q, NEW R, NEW s, NEW from, NEW w, NEW g, NEW n, NEW t, NEW c,
           DataOk(Q, s, from, TRUE, w, g, n, t, c), Len(Q) \in Nat, Len(R) \in Nat, Taken(Q, R),
           Q[1] \in Of("close", s)
    PROVE  DataOk(R, s, from, TRUE, w, g, n, t, TRUE)
<1>1. /\ \A X : Has(Q, X) => Q[1] \in X \/ Has(R, X)
      /\ \A X : Has(R, X) => Has(Q, X)
      /\ \A X : Once(Q, X) => Once(R, X)
      /\ \A X, Y : Led(Q, Y, X) => Q[1] \notin Y
      /\ \A X, Y : Led(Q, Y, X) /\ Q[1] \notin X => Led(R, Y, X)
  BY Taking
<1>2. \A m : Q[1] \notin Nth("data", s, m)
  BY Kinds
<1>3. g = n
  <2>1. g \in Nat /\ n \in Nat /\ g <= n
    BY DEF DataOk
  <2>2. ASSUME g # n PROVE Led(Q, Of("close", s), Nth("data", s, n))
    BY <2>1, <2>2 DEF DataOk
  <2>3. QED
    BY <1>1, <2>2
<1>4. QED
  BY <1>1, <1>2, <1>3 DEF DataOk

\* The sender ends: what is left of the channel is its beginning.
LEMMA DataCut ==
    ASSUME NEW Q, NEW R, NEW s, NEW from, NEW to, NEW w, NEW g, NEW n, NEW t, NEW c,
           DataOk(Q, s, from, to, w, g, n, t, c), Len(Q) \in Nat, Len(R) \in Nat, Part(Q, R, 0)
    PROVE  DataOk(R, s, FALSE, to, w, g, n, t, c)
<1>1. /\ \A X : Has(R, X) => Has(Q, X)
      /\ \A X : Once(Q, X) => Once(R, X)
      /\ \A X, Y : Led(Q, Y, X) => Led(R, Y, X)
  BY PartKeeps
<1>2. QED
  BY <1>1 DEF DataOk

\* The receiver ends.
LEMMA DataGone ==
    ASSUME NEW Q, NEW R, NEW s, NEW from, NEW to, NEW w, NEW g, NEW n, NEW t, NEW c,
           DataOk(Q, s, from, to, w, g, n, t, c)
    PROVE  DataOk(R, s, from, FALSE, w, g, n, t, c)
BY DEF DataOk

\* The registrations.
LEMMA RegAlike ==
    ASSUME NEW Q, NEW R, NEW s, NEW uc, NEW us, NEW pc, NEW ps, NEW rc, NEW rs, NEW cc, NEW cs,
           NEW x, NEW y, RegOk(Q, s, uc, us, pc, ps, rc, rs, cc, cs, x), y => x,
           Alike(Q, R, Mine({"data", "ack"}, s))
    PROVE  RegOk(R, s, uc, us, pc, ps, rc, rs, cc, cs, y)
<1> DEFINE Z == Mine({"data", "ack"}, s)
<1>1. \A k : Nth("data", s, k) \in SUBSET Z /\ Nth("ack", s, k) \in SUBSET Z
  BY Kinds
<1> HIDE DEF Z
<1>2. Has(R, Nth("ack", s, STATUS_OK)) <=> Has(Q, Nth("ack", s, STATUS_OK))
  BY <1>1 DEF Alike, Z
<1>3. \A k : Led(Q, Nth("data", s, k), Nth("ack", s, STATUS_OK))
               => Led(R, Nth("data", s, k), Nth("ack", s, STATUS_OK))
  BY <1>1 DEF Alike, Z
<1>4. QED
  BY <1>2, <1>3 DEF RegOk

\* The channel grows with an ack.
LEMMA RegAnswered ==
    ASSUME NEW Q, NEW R, NEW s \in Streams, NEW uc, NEW us, NEW pc, NEW ps, NEW rc, NEW rs,
           NEW cc, NEW cs, NEW x, RegOk(Q, s, uc, us, pc, ps, rc, rs, cc, cs, x),
           NEW n \in Nat, NEW k, Grown(Q, R, Frame("ack", s, n), k),
           Len(Q) \in Nat, Len(R) \in Nat
    PROVE  RegOk(R, s, uc, us, pc, ps, rc, rs, cc, cs, x)
<1> DEFINE f == Frame("ack", s, n)
<1>1. \A m : f \notin Nth("data", s, m)
  BY Kinds DEF FrameTypes
<1> HIDE DEF f
<1>2. /\ \A X : Has(R, X) <=> Has(Q, X) \/ f \in X
      /\ \A X, Y : Led(Q, Y, X) /\ f \notin Y => Led(R, Y, X)
  BY Growing DEF f
<1>3. QED
  BY <1>1, <1>2 DEF RegOk

\* It grows with data of a pump that runs.
LEMMA RegWritten ==
    ASSUME NEW Q, NEW R, NEW s, NEW uc, NEW us, NEW pc, NEW rc, NEW rs,
           NEW cc, NEW cs, NEW x, RegOk(Q, s, uc, us, pc, TRUE, rc, rs, cc, cs, x),
           NEW f, us => Grown(Q, R, f, Len(Q)), ~us => R = Q,
           Len(Q) \in Nat, Len(R) \in Nat
    PROVE  RegOk(R, s, uc, us, pc, TRUE, rc, rs, cc, cs, x)
<1>1. CASE ~us
  BY <1>1
<1>2. CASE us
  <2>1. /\ \A X : Has(R, X) <=> Has(Q, X) \/ f \in X
        /\ \A X, Y : Led(Q, Y, X) /\ Has(Q, X) => Led(R, Y, X)
    BY <1>2, Growing
  <2>2. QED
    BY <1>2, <2>1 DEF RegOk
<1>3. QED
  BY <1>1, <1>2

\* The server registers the stream, with the ack in the channel.
LEMMA RegStarts ==
    ASSUME NEW Q, NEW s, NEW uc, NEW us, NEW pc, NEW ps, NEW rc, NEW rs, NEW cc, NEW cs, NEW x,
           RegOk(Q, s, uc, us, pc, ps, rc, rs, cc, cs, x), Has(Q, Nth("ack", s, STATUS_OK)),
           NEW y
    PROVE  RegOk(Q, s, uc, us, pc, TRUE, rc, TRUE, cc, cs, y)
BY DEF RegOk

\* The client takes a frame that is not the ack.
LEMMA RegTaken ==
    ASSUME NEW Q, NEW R, NEW s, NEW uc, NEW us, NEW pc, NEW ps, NEW rc, NEW rs, NEW cc, NEW cs,
           NEW x, NEW y, RegOk(Q, s, uc, us, pc, ps, rc, rs, cc, cs, x), y => x,
           Len(Q) \in Nat, Len(R) \in Nat, Taken(Q, R), Q[1] \notin Nth("ack", s, STATUS_OK)
    PROVE  RegOk(R, s, uc, us, pc, ps, rc, rs, cc, cs, y)
<1>1. /\ \A X : Has(Q, X) => Q[1] \in X \/ Has(R, X)
      /\ \A X, Y : Led(Q, Y, X) /\ Q[1] \notin X => Led(R, Y, X)
  BY Taking
<1>2. QED
  BY <1>1 DEF RegOk

\* The opens and their acks.
LEMMA OpenAlike ==
    ASSUME NEW Q, NEW R, NEW Q2, NEW R2, NEW s, NEW u, NEW o, NEW a, NEW w, NEW x, NEW y,
           OpenOk(Q, R, s, u, o, a, w, x), y => x,
           Alike(Q, Q2, Mine({"open"}, s)), Alike(R, R2, Mine({"ack"}, s))
    PROVE  OpenOk(Q2, R2, s, u, o, a, w, y)
<1>1. Of("open", s) \in SUBSET Mine({"open"}, s) /\ Of("ack", s) \in SUBSET Mine({"ack"}, s)
  BY Kinds
<1>2. /\ Has(Q, Of("open", s)) <=> Has(Q2, Of("open", s))
      /\ Has(R, Of("ack", s)) <=> Has(R2, Of("ack", s))
      /\ Once(Q, Of("open", s)) => Once(Q2, Of("open", s))
      /\ Once(R, Of("ack", s)) => Once(R2, Of("ack", s))
  BY <1>1 DEF Alike
<1>3. QED
  BY <1>2 DEF OpenOk

LEMMA OpenEnds ==
    ASSUME NEW Q, NEW R, NEW s, NEW u, NEW o, NEW a, NEW w, NEW x, NEW o2, NEW w2,
           OpenOk(Q, R, s, u, o, a, w, x), o2 # "idle", w => w2
    PROVE  OpenOk(Q, R, s, u, o2, a, w2, x)
BY DEF OpenOk

LEMMA OpenPends ==
    ASSUME NEW Q, NEW R, NEW s, NEW u, NEW o, NEW a, NEW w, NEW x, NEW y,
           OpenOk(Q, R, s, u, o, a, w, x)
    PROVE  OpenOk(Q, R, s, u, o, a, TRUE, y)
BY DEF OpenOk

LEMMA OpenSends ==
    ASSUME NEW Q, NEW R, NEW Q2, NEW s \in Streams, NEW u, NEW o, NEW a, NEW w, NEW x, NEW k,
           OpenOk(Q, R, s, u, "idle", a, w, x), o # "idle",
           Grown(Q, Q2, Frame("open", s, 0), k), Len(Q) \in Nat, Len(Q2) \in Nat
    PROVE  OpenOk(Q2, R, s, u, o, a, w, x)
<1> DEFINE f == Frame("open", s, 0)
<1>1. /\ \A X : Has(Q2, X) <=> Has(Q, X) \/ f \in X
      /\ \A X : Once(Q, X) /\ (f \notin X \/ ~Has(Q, X)) => Once(Q2, X)
  BY Growing
<1> HIDE DEF f
<1>2. QED
  BY <1>1 DEF OpenOk

\* The server's handler answers.
LEMMA OpenReplies ==
    ASSUME NEW Q, NEW R, NEW R2, NEW s \in Streams, NEW u, NEW o, NEW a, NEW w, NEW x, NEW k,
           OpenOk(Q, R, s, u, o, "taken", w, x), a \in {"accepted", "refused"},
           NEW n \in Nat, Grown(R, R2, Frame("ack", s, n), k), Len(R) \in Nat, Len(R2) \in Nat
    PROVE  OpenOk(Q, R2, s, u, o, a, w, x)
<1> DEFINE f == Frame("ack", s, n)
<1>1. /\ \A X : Has(R2, X) <=> Has(R, X) \/ f \in X
      /\ \A X : Once(R, X) /\ (f \notin X \/ ~Has(R, X)) => Once(R2, X)
  BY Growing
<1> HIDE DEF f
<1>2. QED
  BY <1>1 DEF OpenOk

\* The server takes the open, for its handler or to answer it itself.
LEMMA OpenTaken ==
    ASSUME NEW Q, NEW R, NEW Q2, NEW s, NEW u, NEW o, NEW a, NEW w, NEW y,
           OpenOk(Q, R, s, u, o, a, w, TRUE),
           Taken(Q, Q2), Len(Q) \in Nat, Len(Q2) \in Nat, Q[1] \in Of("open", s)
    PROVE  OpenOk(Q2, R, s, u, o, "event", w, y) /\ a = "none" /\ o # "idle"
<1>1. /\ \A X : Has(Q2, X) => Has(Q, X)
      /\ \A X : Q[1] \in X => Has(Q, X)
      /\ \A X : Once(Q, X) => Once(Q2, X)
      /\ \A X : Once(Q, X) /\ Q[1] \in X => ~Has(Q2, X)
  BY Taking
<1>2. QED
  BY <1>1 DEF OpenOk

\* The sessions.
LEMMA SessAlike ==
    ASSUME NEW Q, NEW R, NEW s, NEW uc, NEW us, NEW o, NEW a, NEW m, NEW in, NEW r, NEW i, NEW b,
           SessOk(Q, s, uc, us, o, a, m, in, r, i, b), NEW j, j => i,
           Alike(Q, R, Mine({"open", "authRequest"}, s))
    PROVE  SessOk(R, s, uc, us, o, a, m, in, r, j, b)
<1> DEFINE Z == Mine({"open", "authRequest"}, s)
           X == Nth("authRequest", s, STATUS_OK)
           Y == Of("open", s)
<1>1. X \in SUBSET Z /\ Y \in SUBSET Z
  BY Kinds
<1> HIDE DEF X, Y, Z
<1>2. (Has(Q, X) <=> Has(R, X)) /\ (Led(Q, Y, X) => Led(R, Y, X))
  BY <1>1 DEF Alike, Z
<1>3. QED
  BY <1>2 DEF SessOk, X, Y

\* The open call fails, or the handler answers.
LEMMA SessGoes ==
    ASSUME NEW Q, NEW s, NEW uc, NEW us, NEW o, NEW a, NEW m, NEW in, NEW r, NEW i, NEW b,
           SessOk(Q, s, uc, us, o, a, m, in, r, i, b), NEW o2, o2 = "idle" => o = "idle",
           NEW a2, a2 = a \/ (a \in {"event", "taken"} /\ a2 \in {"taken", "accepted", "refused"})
    PROVE  SessOk(Q, s, uc, us, o2, a2, m, in, r, i, b)
BY DEF SessOk

LEMMA SessRequested ==
    ASSUME NEW Q, NEW R, NEW s \in Streams, NEW uc, NEW us, NEW o, NEW a, NEW m, NEW in, NEW r,
           NEW b, SessOk(Q, s, uc, us, o, a, m, in, r, TRUE, b),
           NEW credential \in {"good", "bad"}, NEW k,
           Grown(Q, R, Frame("authRequest", s, IF credential = "good" THEN STATUS_OK ELSE STATUS_ERR), k),
           Len(Q) \in Nat, Len(R) \in Nat
    PROVE  SessOk(R, s, uc, us, o, a, m, in, credential, FALSE, b)
<1> DEFINE f == Frame("authRequest", s, IF credential = "good" THEN STATUS_OK ELSE STATUS_ERR)
           X == Nth("authRequest", s, STATUS_OK)
<1>1. f \notin Of("open", s) /\ (f \in X <=> credential = "good")
  BY Kinds DEF FrameTypes, STATUS_OK, STATUS_ERR
<1> HIDE DEF f
<1>2. /\ \A Y : Has(R, Y) <=> Has(Q, Y) \/ f \in Y
      /\ \A Y, Z : Led(Q, Y, Z) /\ f \notin Y => Led(R, Y, Z)
  BY Growing DEF f
<1>3. QED
  BY <1>1, <1>2 DEF SessOk

\* The open follows a good request.
LEMMA SessOpened ==
    ASSUME NEW Q, NEW R, NEW s \in Streams, NEW uc, NEW us, NEW o, NEW a, NEW m, NEW in, NEW r,
           NEW i, NEW b, SessOk(Q, s, uc, us, "idle", a, m, in, r, i, b), uc, o # "idle", a = "none",
           ~Has(Q, Of("open", s)), NEW k, Grown(Q, R, Frame("open", s, 0), k), Len(Q) \in Nat, Len(R) \in Nat,
           Has(Q, Nth("authRequest", s, STATUS_OK))
              => \E j \in 1..k : Q[j] \in Nth("authRequest", s, STATUS_OK)
    PROVE  SessOk(R, s, uc, us, o, a, m, in, r, i, r = "good")
<1> DEFINE f == Frame("open", s, 0)
           X == Nth("authRequest", s, STATUS_OK)
           Y == Of("open", s)
<1>1. f \notin X
  BY Kinds DEF FrameTypes
<1>2. Has(R, X) <=> Has(Q, X)
  BY <1>1, GrownHas
<1>3. ~b
  BY DEF SessOk
<1>4. ASSUME m, r = "good", us, ~in PROVE Led(R, Y, X)
  <2>1. Has(Q, X)
    BY <1>4 DEF SessOk
  <2>2. \E j \in 1..k : Q[j] \in X
    BY <2>1
  <2>3. Led(Q, Y, X)
    BY DEF Has, Led
  <2>4. QED
    BY <2>2, <2>3, GrownLed
<1>5. QED
  BY <1>2, <1>3, <1>4 DEF SessOk

\* The server takes the open: it is passed on, or barred.
LEMMA SessPassed ==
    ASSUME NEW Q, NEW R, NEW s, NEW uc, NEW us, NEW o, NEW m, NEW in, NEW r, NEW i, NEW b,
           SessOk(Q, s, uc, us, o, "none", m, in, r, i, b), m => in,
           Len(Q) \in Nat, Len(R) \in Nat, Taken(Q, R), Q[1] \in Of("open", s)
    PROVE  SessOk(R, s, uc, us, o, "event", m, in, r, i, b)
<1>1. /\ \A X : Has(Q, X) => Q[1] \in X \/ Has(R, X)
      /\ \A X : Has(R, X) => Has(Q, X)
  BY Taking
<1>2. Q[1] \notin Nth("authRequest", s, STATUS_OK)
  BY Kinds
<1>3. QED
  BY <1>1, <1>2 DEF SessOk

----------------------------------------------------------------------------
(* What p's writer task has. *)

LEMMA HasParts ==
    ASSUME NEW S, NEW a \in Seq(S), NEW x \in S, NEW X
    PROVE  /\ Has(Append(a, x), X) <=> Has(a, X) \/ x \in X
           /\ a # <<>> => (Has(a, X) <=> Head(a) \in X \/ Has(Tail(a), X))
           /\ \A k \in 0..Len(a) : Has(SubSeq(a, 1, k), X) => Has(a, X)
           /\ ~Has(<<>>, X)
<1>1. Has(Append(a, x), X) <=> Has(a, X) \/ x \in X
  <2>1. Grown(a, Append(a, x), x, Len(a)) /\ Append(a, x) \in Seq(S)
    BY AppendGrows
  <2>2. Len(a) \in Nat /\ Len(Append(a, x)) \in Nat
    BY <2>1
  <2>3. QED
    BY <2>1, <2>2, GrownHas
<1>2. ASSUME a # <<>> PROVE Has(a, X) <=> Head(a) \in X \/ Has(Tail(a), X)
  <2>1. /\ Tail(a) \in Seq(S) /\ Len(Tail(a)) = Len(a) - 1 /\ Len(a) \in Nat \ {0} /\ Head(a) = a[1]
        /\ \A i \in 1..Len(Tail(a)) : Tail(a)[i] = a[i + 1]
    BY <1>2, HeadTailProperties, EmptySeq
  <2>2. Taken(a, Tail(a)) /\ Len(Tail(a)) \in Nat /\ Len(a) \in Nat
    BY <1>2, <2>1, TailTaken
  <2>3. QED
    BY <2>1, <2>2, Taking
<1>3. ASSUME NEW k \in 0..Len(a), Has(SubSeq(a, 1, k), X) PROVE Has(a, X)
  <2>1. Len(SubSeq(a, 1, k)) = k /\ \A i \in 1..k : SubSeq(a, 1, k)[i] = a[i]
    OBVIOUS
  <2>2. QED
    BY <1>3, <2>1 DEF Has
<1>4. ~Has(<<>>, X)
  BY DEF Has
<1>5. QED
  BY <1>1, <1>2, <1>3, <1>4

LEMMA HasConcat ==
    ASSUME NEW S, NEW a \in Seq(S), NEW b \in Seq(S), NEW X
    PROVE  /\ a \o b \in Seq(S)
           /\ Has(a \o b, X) <=> Has(a, X) \/ Has(b, X)
           /\ ~Has(b, X) /\ Has(a \o b, X) => \E j \in 1..Len(a) : (a \o b)[j] \in X
<1>1. /\ a \o b \in Seq(S) /\ Len(a \o b) = Len(a) + Len(b)
      /\ \A i \in 1..Len(a) + Len(b) : (a \o b)[i] = IF i <= Len(a) THEN a[i] ELSE b[i - Len(a)]
      /\ Len(a) \in Nat /\ Len(b) \in Nat
  BY ConcatProperties
<1>2. ASSUME NEW i \in 1..Len(a), a[i] \in X PROVE Has(a \o b, X)
  BY <1>1, <1>2 DEF Has
<1>3. ASSUME NEW i \in 1..Len(b), b[i] \in X PROVE Has(a \o b, X)
  <2>1. i + Len(a) \in 1..Len(a) + Len(b) /\ ~(i + Len(a) <= Len(a)) /\ (i + Len(a)) - Len(a) = i
    BY <1>1
  <2>2. QED
    BY <1>1, <1>3, <2>1 DEF Has
<1>4. ASSUME NEW i \in 1..Len(a \o b), (a \o b)[i] \in X, ~Has(b, X)
      PROVE  i \in 1..Len(a) /\ a[i] \in X
  <2>1. CASE i <= Len(a)
    BY <1>1, <1>4, <2>1
  <2>2. CASE i > Len(a)
    <3>1. i - Len(a) \in 1..Len(b) /\ (a \o b)[i] = b[i - Len(a)]
      BY <1>1, <2>2
    <3>2. QED
      BY <1>4, <3>1 DEF Has
  <2>3. QED
    BY <1>1, <2>1, <2>2
<1>5. QED
  BY <1>1, <1>2, <1>3, <1>4 DEF Has

LEMMA PostedPasses ==
    ASSUME QueueInv, NEW p \in Peers, NEW s \in Streams, NEW X, Posted(p, X)
    PROVE  Has(Channel(p, s), X)
<1> DEFINE S == FramesOf(p)
           a == wire[p]
           b == frameQ[p]
           c == InHand(run[p])
           d == FramesIn(cmdQ[p])
           e == Behind(p, s)
<1>1. a \in Seq(S) /\ b \in Seq(S) /\ c \in Seq(S) /\ d \in Seq(S) /\ e \in Seq(S)
  BY HandTypes, CommandFrames, ChannelTyped DEF QueueInv, QueueTypes
<1>2. Channel(p, s) = (((a \o b) \o c) \o d) \o e
  BY DEF Channel, Passing, Queues
<1>3. Has(a, X) \/ Has(b, X)
  BY DEF Posted
<1> HIDE DEF S, a, b, c, d, e
<1> DEFINE u == a \o b
           v == u \o c
           w == v \o d
<1>4. u \in Seq(S) /\ Has(u, X)
  BY <1>1, <1>3, HasConcat
<1> HIDE DEF u
<1>5. v \in Seq(S) /\ Has(v, X)
  BY <1>1, <1>4, HasConcat
<1> HIDE DEF v
<1>6. w \in Seq(S) /\ Has(w, X)
  BY <1>1, <1>5, HasConcat
<1> HIDE DEF w
<1>7. Has(w \o e, X)
  BY <1>1, <1>6, HasConcat
<1>8. QED
  BY <1>2, <1>7 DEF u, v, w

LEMMA PostedStays ==
    UNCHANGED <<wire, frameQ>> => \A p, X : Posted(p, X)' <=> Posted(p, X)
BY DEF Posted

LEMMA PostedSends ==
    ASSUME QueueInv, NEW p \in Peers, SendFrame(p), NEW X
    PROVE  /\ Posted(p, X)' => Posted(p, X) \/ run[p].frame \in X
           /\ Posted(Other(p), X)' => Posted(Other(p), X)
<1>1. QueueTypes(p, wire[p], frameQ[p], run[p], cmdQ[p]) /\ run[p] # Idle
  BY DEF QueueInv, SendFrame
<1>2. frameQ[p] \in Seq(FramesOf(p)) /\ run[p].frame \in FramesOf(p)
  BY <1>1 DEF QueueTypes, CommandsOf
<1>3. /\ frameQ'[p] = Append(frameQ[p], run[p].frame) /\ wire' = wire
      /\ frameQ'[Other(p)] = frameQ[Other(p)]
  BY OtherPeer DEF QueueInv, SendFrame
<1>4. Has(Append(frameQ[p], run[p].frame), X) <=> Has(frameQ[p], X) \/ run[p].frame \in X
  BY <1>2, HasParts
<1>5. QED
  BY <1>3, <1>4 DEF Posted

LEMMA PostedWrites ==
    ASSUME QueueInv, NEW p \in Peers, Write(p), NEW X
    PROVE  \A q \in Peers : Posted(q, X)' => Posted(q, X)
<1>1. QueueTypes(p, wire[p], frameQ[p], run[p], cmdQ[p]) /\ frameQ[p] # <<>>
  BY DEF QueueInv, Write
<1>2. wire[p] \in Seq(FramesOf(p)) /\ frameQ[p] \in Seq(FramesOf(p)) /\ Head(frameQ[p]) \in FramesOf(p)
  BY <1>1 DEF QueueTypes
<1>3. /\ wire'[p] = Append(wire[p], Head(frameQ[p])) /\ frameQ'[p] = Tail(frameQ[p])
      /\ \A q \in Peers : q # p => wire'[q] = wire[q] /\ frameQ'[q] = frameQ[q]
  BY DEF QueueInv, Write
<1>4. Has(frameQ[p], X) <=> Head(frameQ[p]) \in X \/ Has(Tail(frameQ[p]), X)
  BY <1>1, <1>2, HasParts
<1>5. Has(Append(wire[p], Head(frameQ[p])), X) <=> Has(wire[p], X) \/ Head(frameQ[p]) \in X
  BY <1>2, HasParts
<1>6. QED
  BY <1>3, <1>4, <1>5 DEF Posted

LEMMA PostedTaken ==
    ASSUME QueueInv, NEW p \in Peers, wire[p] # <<>>, NEW X,
           wire' = [wire EXCEPT ![p] = Tail(@)], frameQ' = frameQ
    PROVE  /\ \A q \in Peers : Posted(q, X)' => Posted(q, X)
           /\ Head(wire[p]) \in X => Posted(p, X)
<1>1. wire[p] \in Seq(FramesOf(p)) /\ Head(wire[p]) \in FramesOf(p)
  BY DEF QueueInv, QueueTypes
<1>2. wire'[p] = Tail(wire[p]) /\ \A q \in Peers : q # p => wire'[q] = wire[q]
  BY DEF QueueInv
<1>3. Has(wire[p], X) <=> Head(wire[p]) \in X \/ Has(Tail(wire[p]), X)
  BY <1>1, HasParts
<1>4. QED
  BY <1>2, <1>3 DEF Posted

LEMMA PostedEnds ==
    ASSUME QueueInv, NEW p \in Peers, EndRun(p), NEW X
    PROVE  \A q \in Peers : Posted(q, X)' => Posted(q, X)
<1>1. /\ wire'[p] = wire[p] /\ wire'[Other(p)] = <<>> /\ frameQ' = frameQ
  BY OtherPeer DEF QueueInv, EndRun
<1>2. ~Has(<<>>, X)
  BY DEF Has
<1>3. \A q \in Peers : q = p \/ q = Other(p)
  BY DEF Peers, Other
<1>4. QED
  BY <1>1, <1>2, <1>3 DEF Posted

LEMMA PassingFirst ==
    ASSUME QueueInv, NEW p \in Peers, NEW s \in Streams, NEW X, X \cap Of("data", s) = {},
           Has(Channel(p, s), X)
    PROVE  \E j \in 1..Len(Passing(p)) : Channel(p, s)[j] \in X
<1>1. Behind(p, s) \in Seq(Of("data", s))
  BY EmptySeq DEF QueueInv, Behind
<1>2. ~Has(Behind(p, s), X)
  BY <1>1 DEF Has
<1>3. Passing(p) \in Seq(FramesOf(p)) /\ Behind(p, s) \in Seq(FramesOf(p))
  BY ChannelTyped
<1>4. QED
  BY <1>2, <1>3, HasConcat DEF Channel

LEMMA NothingBehind ==
    ASSUME QueueInv, NEW p \in Peers, NEW s \in Streams, outQ[p][s] = <<>>
    PROVE  Len(Passing(p)) = Len(Channel(p, s))
BY ChannelTyped, ConcatEmptySeq DEF Channel, Behind

----------------------------------------------------------------------------
(* The inductive invariant. *)

EndsTyped ==
    /\ chunks \in [Peers -> Nat]
    /\ wrote \in [Peers -> [Streams -> Nat]]
    /\ got \in [Peers -> [Streams -> Nat]]
    /\ owed \in [Peers -> [Streams -> Nat]]
    /\ closed \in [Peers -> [Streams -> BOOLEAN]]
    /\ pump \in [Peers -> [Streams -> {"none", "running", "counting", "eof", "done"}]]
    /\ registered \in [Peers -> SUBSET Streams]
    /\ pending \subseteq Streams
    /\ opener \in [Streams -> {"idle", "waiting", "ok", "err"}]
    /\ acceptor \in [Streams -> {"none", "event", "taken", "accepted", "refused", "barred"}]
    /\ mux \in BOOLEAN
    /\ sessions \subseteq Streams
    /\ sent \in [Streams -> {"none", "good", "bad"}]
    /\ auth \in [Streams -> {"idle", "waiting", "ok", "denied", "err"}]
    /\ under \in [Streams -> BOOLEAN]

IInv == EndsTyped /\ QueueInv /\ \A s \in Streams : StreamInv(s)

\* The ends of stream s stay as they are: those of its data in one direction, of its
\* registrations, of its open, of its session.
DataEndsStay(p, s) ==
    /\ UNCHANGED <<chunks, up>>
    /\ wrote'[p][s] = wrote[p][s] /\ got'[Other(p)][s] = got[Other(p)][s]
    /\ pump'[p][s] = pump[p][s] /\ closed'[Other(p)][s] = closed[Other(p)][s]
RegEndsStay(s) ==
    /\ UNCHANGED up
    /\ \A p \in Peers :
         /\ pump'[p][s] = pump[p][s] /\ closed'[p][s] = closed[p][s]
         /\ s \in registered'[p] <=> s \in registered[p]
OpenEndsStay(s) ==
    /\ UNCHANGED up
    /\ opener'[s] = opener[s] /\ acceptor'[s] = acceptor[s]
    /\ s \in pending' <=> s \in pending
SessEndsStay(s) ==
    /\ UNCHANGED <<up, mux>>
    /\ opener'[s] = opener[s] /\ acceptor'[s] = acceptor[s]
    /\ s \in sessions' <=> s \in sessions
    /\ sent'[s] = sent[s] /\ under'[s] = under[s]
    /\ auth'[s] = "idle" <=> auth[s] = "idle"
EndsStay(s) ==
    /\ \A p \in Peers : DataEndsStay(p, s)
    /\ RegEndsStay(s) /\ OpenEndsStay(s) /\ SessEndsStay(s)

\* Its channels carry the same of its frames, and no more of them is posted: those that
\* an invariant is about.
Telling == {"open", "ack", "data", "close", "authRequest"}

ChannelsStay(s) ==
    \A p \in Peers :
        /\ Alike(Channel(p, s), Channel(p, s)', Mine(Telling, s))
        /\ \A X \in SUBSET Mine(Telling, s) : Posted(p, X)' => Posted(p, X)

LEMMA AlikeLess ==
    ASSUME NEW Q, NEW R, NEW s, NEW T, Alike(Q, R, Mine(Telling, s)), T \subseteq Telling
    PROVE  Alike(Q, R, Mine(T, s))
<1>1. Mine(T, s) \subseteq Mine(Telling, s)
  BY DEF Mine
<1>2. SUBSET Mine(T, s) \subseteq SUBSET Mine(Telling, s)
  BY <1>1
<1>3. QED
  BY <1>2 DEF Alike

LEMMA ThePeers ==
    /\ "client" \in Peers /\ "server" \in Peers
    /\ Other("client") = "server" /\ Other("server") = "client"
    /\ \A p, q \in Peers : q = p \/ q = Other(p)
BY DEF Peers, Other

LEMMA DataStays ==
    ASSUME NEW p \in Peers, NEW s \in Streams, DataInv(p, s), DataEndsStay(p, s),
           Alike(Channel(p, s), Channel(p, s)', Mine({"data", "close"}, s))
    PROVE  DataInv(p, s)'
<1>1. DataOk(Channel(p, s)', s, up[p], up[Other(p)], wrote[p][s], got[Other(p)][s], chunks[p],
             pump[p][s], closed[Other(p)][s])
  BY DataAlike DEF DataInv
<1>2. QED
  BY <1>1 DEF DataInv, DataEndsStay

LEMMA RegStays ==
    ASSUME NEW s \in Streams, RegInv(s), RegEndsStay(s),
           Alike(Channel("server", s), Channel("server", s)', Mine({"data", "ack"}, s)),
           Posted("server", Nth("ack", s, STATUS_OK))' => Posted("server", Nth("ack", s, STATUS_OK))
    PROVE  RegInv(s)'
<1>1. RegOk(Channel("server", s)', s, up["client"], up["server"],
            pump["client"][s] # "none", pump["server"][s] # "none",
            s \in registered["client"], s \in registered["server"],
            closed["client"][s], closed["server"][s],
            Posted("server", Nth("ack", s, STATUS_OK))')
  BY RegAlike DEF RegInv
<1>2. QED
  BY <1>1, ThePeers DEF RegInv, RegEndsStay

LEMMA OpenStays ==
    ASSUME NEW s \in Streams, OpenInv(s), OpenEndsStay(s),
           Alike(Channel("client", s), Channel("client", s)', Mine({"open"}, s)),
           Alike(Channel("server", s), Channel("server", s)', Mine({"ack"}, s)),
           Posted("client", Of("open", s))' => Posted("client", Of("open", s))
    PROVE  OpenInv(s)'
<1>1. OpenOk(Channel("client", s)', Channel("server", s)', s, up["client"], opener[s],
             acceptor[s], s \in pending, Posted("client", Of("open", s))')
  BY OpenAlike DEF OpenInv
<1>2. QED
  BY <1>1 DEF OpenInv, OpenEndsStay

LEMMA SessStays ==
    ASSUME NEW s \in Streams, SessInv(s), SessEndsStay(s),
           Alike(Channel("client", s), Channel("client", s)', Mine({"open", "authRequest"}, s))
    PROVE  SessInv(s)'
<1>1. SessOk(Channel("client", s)', s, up["client"], up["server"], opener[s], acceptor[s], mux,
             s \in sessions, sent[s], auth[s] = "idle", under[s])
  BY SessAlike DEF SessInv
<1>2. QED
  BY <1>1 DEF SessInv, SessEndsStay

LEMMA StreamStays ==
    ASSUME NEW s \in Streams, StreamInv(s), EndsStay(s), ChannelsStay(s)
    PROVE  StreamInv(s)'
<1>1. \A p \in Peers :
        /\ Alike(Channel(p, s), Channel(p, s)', Mine({"data", "close"}, s))
        /\ Alike(Channel(p, s), Channel(p, s)', Mine({"data", "ack"}, s))
        /\ Alike(Channel(p, s), Channel(p, s)', Mine({"ack"}, s))
        /\ Alike(Channel(p, s), Channel(p, s)', Mine({"open"}, s))
        /\ Alike(Channel(p, s), Channel(p, s)', Mine({"open", "authRequest"}, s))
  <2>1. /\ {"data", "close"} \subseteq Telling /\ {"data", "ack"} \subseteq Telling
        /\ {"ack"} \subseteq Telling /\ {"open"} \subseteq Telling
        /\ {"open", "authRequest"} \subseteq Telling
    BY DEF Telling
  <2>2. QED
    BY <2>1, AlikeLess DEF ChannelsStay
<1>2. /\ Posted("server", Nth("ack", s, STATUS_OK))' => Posted("server", Nth("ack", s, STATUS_OK))
      /\ Posted("client", Of("open", s))' => Posted("client", Of("open", s))
  BY ThePeers, Kinds DEF ChannelsStay, Telling
<1>3. DataInv("client", s)' /\ DataInv("server", s)'
  BY <1>1, ThePeers, DataStays DEF StreamInv, EndsStay
<1>4. RegInv(s)'
  BY <1>1, <1>2, ThePeers, RegStays DEF StreamInv, EndsStay
<1>5. OpenInv(s)'
  BY <1>1, <1>2, ThePeers, OpenStays DEF StreamInv, EndsStay
<1>6. SessInv(s)'
  BY <1>1, ThePeers, SessStays DEF StreamInv, EndsStay
<1>7. QED
  BY <1>3, <1>4, <1>5, <1>6 DEF StreamInv

\* Channels that are the same, that get a frame or that lose one.
LEMMA SameStay ==
    ASSUME NEW s, \A p \in Peers : Channel(p, s)' = Channel(p, s),
           \A X : \A p \in Peers : Posted(p, X)' => Posted(p, X)
    PROVE  ChannelsStay(s)
BY SameAlike DEF ChannelsStay

LEMMA EndsSame ==
    ASSUME UNCHANGED <<chunks, up, pending, registered, opener, acceptor, pump, wrote, got, closed,
                       mux, sessions, sent, auth, under>>
    PROVE  /\ \A s \in Streams : EndsStay(s)
           /\ EndsTyped /\ owed' \in [Peers -> [Streams -> Nat]] => EndsTyped'
<1>1. \A s \in Streams : EndsStay(s)
  BY DEF EndsStay, DataEndsStay, RegEndsStay, OpenEndsStay, SessEndsStay
<1>2. ASSUME EndsTyped, owed' \in [Peers -> [Streams -> Nat]] PROVE EndsTyped'
  BY <1>2 DEF EndsTyped
<1>3. QED
  BY <1>1, <1>2

LEMMA TakeCmdKeeps ==
    ASSUME IInv, NEW p \in Peers, TakeCmd(p), UNCHANGED muxVars
    PROVE  IInv'
<1>1. /\ UNCHANGED <<chunks, up, pending, registered, opener, acceptor, pump, wrote, got, closed,
                     mux, sessions, sent, auth, under>>
      /\ UNCHANGED <<wire, frameQ, owed>>
  BY DEF TakeCmd, openVars, pumpVars, readVars, muxVars
<1>2. QueueInv' /\ \A q \in Peers, s \in Streams : Channel(q, s)' = Channel(q, s)
  BY TakeCmdQueues DEF IInv
<1>3. \A s \in Streams : ChannelsStay(s)
  BY <1>1, <1>2, PostedStays, SameStay
<1>4. EndsTyped' /\ \A s \in Streams : EndsStay(s)
  BY <1>1, EndsSame DEF IInv, EndsTyped
<1>5. QED
  BY <1>2, <1>3, <1>4, StreamStays DEF IInv

LEMMA WriteKeeps ==
    ASSUME IInv, NEW p \in Peers, Write(p), UNCHANGED muxVars
    PROVE  IInv'
<1>1. /\ UNCHANGED <<chunks, up, pending, registered, opener, acceptor, pump, wrote, got, closed,
                     mux, sessions, sent, auth, under>>
      /\ UNCHANGED <<owed>>
  BY DEF Write, openVars, pumpVars, readVars, muxVars
<1>2. QueueInv' /\ \A q \in Peers, s \in Streams : Channel(q, s)' = Channel(q, s)
  BY WriteQueues DEF IInv
<1>3. \A X : \A q \in Peers : Posted(q, X)' => Posted(q, X)
  BY PostedWrites DEF IInv
<1>4. \A s \in Streams : ChannelsStay(s)
  BY <1>2, <1>3, SameStay
<1>5. EndsTyped' /\ \A s \in Streams : EndsStay(s)
  BY <1>1, EndsSame DEF IInv, EndsTyped
<1>6. QED
  BY <1>2, <1>4, <1>5, StreamStays DEF IInv

LEMMA ForwardDataKeeps ==
    ASSUME IInv, NEW p \in Peers, NEW t \in Streams, ForwardData(p, t), UNCHANGED muxVars
    PROVE  IInv'
<1>1. /\ UNCHANGED <<chunks, up, pending, registered, opener, acceptor, pump, wrote, got, closed,
                     mux, sessions, sent, auth, under>>
      /\ UNCHANGED <<wire, frameQ, owed>>
  BY DEF ForwardData, Command, openVars, readVars, muxVars
<1>2. QueueInv'
  BY ForwardDataQueues DEF IInv
<1>3. PICK x \in Of("data", t) : \A s \in Streams :
        s # t => Grown(Channel(p, s), Channel(p, s)', x, Len(Passing(p)))
  BY ForwardDataQueues DEF IInv
<1>4. /\ Channel(p, t)' = Channel(p, t)
      /\ \A s \in Streams : Channel(Other(p), s)' = Channel(Other(p), s)
  BY ForwardDataQueues DEF IInv
<1>5. ASSUME NEW s \in Streams PROVE ChannelsStay(s)
  <2>1. \A X : \A q \in Peers : Posted(q, X)' => Posted(q, X)
    BY <1>1, PostedStays
  <2>2. CASE s = t
    <3>1. \A q \in Peers : q = p \/ q = Other(p)
      BY ThePeers
    <3>2. QED
      BY <1>4, <2>1, <2>2, <3>1, SameStay
  <2>3. CASE s # t
    <3>1. x \notin Mine(Telling, s)
      BY <2>3 DEF Of, Mine
    <3>2. Len(Channel(p, s)) \in Nat /\ Len(Channel(p, s)') \in Nat
      <4>1. Len(Channel(p, s)) \in Nat
        BY ChannelTyped DEF IInv
      <4>2. QED
        BY <1>3, <2>3, <4>1 DEF Grown
    <3>3. Alike(Channel(p, s), Channel(p, s)', Mine(Telling, s))
      BY <1>3, <2>3, <3>1, <3>2, GrownAlike
    <3>4. Alike(Channel(Other(p), s), Channel(Other(p), s)', Mine(Telling, s))
      BY <1>4, SameAlike
    <3>5. \A q \in Peers : q = p \/ q = Other(p)
      BY ThePeers
    <3>6. QED
      BY <2>1, <3>3, <3>4, <3>5 DEF ChannelsStay
  <2>4. QED
    BY <2>2, <2>3
<1>6. EndsTyped' /\ \A s \in Streams : EndsStay(s)
  BY <1>1, EndsSame DEF IInv, EndsTyped
<1>7. QED
  BY <1>2, <1>5, <1>6, StreamStays DEF IInv

LEMMA CommandStays ==
    ASSUME QueueInv, NEW p \in Peers, NEW x \in CommandsOf(p), Commanded(p, x),
           NEW s \in Streams, x.frame \notin Mine(Telling, s)
    PROVE  ChannelsStay(s)
<1>1. /\ Grown(Channel(p, s), Channel(p, s)', x.frame, Len(Passing(p)))
      /\ Channel(Other(p), s)' = Channel(Other(p), s)
  BY CommandQueues
<1>2. Len(Channel(p, s)) \in Nat
  BY ChannelTyped
<1>3. Len(Channel(p, s)') \in Nat
  BY <1>1, <1>2 DEF Grown
<1>4. Alike(Channel(p, s), Channel(p, s)', Mine(Telling, s))
  BY <1>1, <1>2, <1>3, GrownAlike
<1>5. Alike(Channel(Other(p), s), Channel(Other(p), s)', Mine(Telling, s))
  BY <1>1, SameAlike
<1>6. \A X : \A q \in Peers : Posted(q, X)' => Posted(q, X)
  BY PostedStays DEF Commanded
<1>7. \A q \in Peers : q = p \/ q = Other(p)
  BY ThePeers
<1>8. QED
  BY <1>4, <1>5, <1>6, <1>7 DEF ChannelsStay

LEMMA Commands ==
    ASSUME NEW p \in Peers, NEW s \in Streams, NEW n \in Nat
    PROVE  /\ Sending(Frame("credit", s, n), "none") \in CommandsOf(p)
           /\ Sending(Frame("close", s, n), "none") \in CommandsOf(p)
           /\ Sending(Frame("datagram", s, n), "none") \in CommandsOf(p)
           /\ Sending(Frame("open", s, n), "pend") \in CommandsOf("client")
           /\ Sending(Frame("authRequest", s, n), "none") \in CommandsOf("client")
           /\ Sending(Frame("ack", s, STATUS_OK), "register") \in CommandsOf("server")
           /\ Sending(Frame("ack", s, STATUS_ERR), "none") \in CommandsOf("server")
           /\ Sending(Frame("authResponse", s, n), "none") \in CommandsOf("server")
           /\ \A f, next : Sending(f, next).frame = f /\ Sending(f, next).then = next
BY DEF CommandsOf, FramesOf, AnyFrame, FrameTypes, Frame, Sending, STATUS_OK, STATUS_ERR

LEMMA AppReadKeeps ==
    ASSUME IInv, NEW p \in Peers, NEW t \in Streams, AppRead(p, t), UNCHANGED muxVars
    PROVE  IInv'
<1> DEFINE x == Sending(Frame("credit", t, owed[p][t] + 1), "none")
<1>1. /\ UNCHANGED <<chunks, up, pending, registered, opener, acceptor, pump, wrote, got, closed,
                     mux, sessions, sent, auth, under>>
      /\ UNCHANGED <<wire, frameQ, run, outQ>>
  BY DEF AppRead, openVars, pumpVars, muxVars
<1>2. owed[p][t] \in Nat /\ owed[p][t] + 1 \in Nat
  BY DEF IInv, EndsTyped
<1>3. owed' = [owed EXCEPT ![p][t] = 0] \/ owed' = [owed EXCEPT ![p][t] = @ + 1]
  BY DEF AppRead
<1>4. owed' \in [Peers -> [Streams -> Nat]]
  <2> DEFINE k == owed[p][t] + 1
  <2>1. owed \in [Peers -> [Streams -> Nat]] /\ k \in Nat
    BY <1>2 DEF IInv, EndsTyped
  <2>2. owed' = [owed EXCEPT ![p][t] = 0] \/ owed' = [owed EXCEPT ![p][t] = k]
    BY <1>3
  <2> HIDE DEF k
  <2>3. QED
    BY <2>1, <2>2
<1>5. Commanded(p, x) \/ cmdQ' = cmdQ
  BY <1>1 DEF AppRead, Command, Commanded
<1>6. x \in CommandsOf(p) /\ x.frame = Frame("credit", t, owed[p][t] + 1)
  BY <1>2, Commands
<1>7. ASSUME NEW s \in Streams PROVE x.frame \notin Mine(Telling, s)
  BY <1>6 DEF Mine, Telling, Frame
<1> HIDE DEF x
<1>8. QueueInv' /\ \A s \in Streams : ChannelsStay(s)
  <2>1. CASE Commanded(p, x)
    BY <1>6, <1>7, <2>1, CommandQueues, CommandStays DEF IInv
  <2>2. CASE cmdQ' = cmdQ
    <3>1. QueueInv' /\ \A q \in Peers, s \in Streams : Channel(q, s)' = Channel(q, s)
      BY <1>1, <2>2, QueuesStay DEF IInv
    <3>2. QED
      BY <1>1, <3>1, PostedStays, SameStay
  <2>3. QED
    BY <1>5, <2>1, <2>2
<1>9. EndsTyped' /\ \A s \in Streams : EndsStay(s)
  BY <1>1, <1>4, EndsSame DEF IInv
<1>10. QED
  BY <1>8, <1>9, StreamStays DEF IInv

\* A datagram is no frame of any stream.
LEMMA SendDatagramKeeps ==
    ASSUME IInv, NEW p \in Peers, NEW t \in Streams, SendDatagram(p, t), UNCHANGED muxVars
    PROVE  IInv'
<1> DEFINE x == Sending(Frame("datagram", t, 0), "none")
<1>1. /\ UNCHANGED <<chunks, up, pending, registered, opener, acceptor, pump, wrote, got, closed,
                     mux, sessions, sent, auth, under, owed>>
      /\ Commanded(p, x)
  BY DEF SendDatagram, Command, Commanded, openVars, pumpVars, readVars, muxVars
<1>2. x \in CommandsOf(p) /\ x.frame = Frame("datagram", t, 0)
  BY Commands
<1>3. ASSUME NEW s \in Streams PROVE x.frame \notin Mine(Telling, s)
  BY <1>2 DEF Mine, Telling, Frame
<1> HIDE DEF x
<1>4. QueueInv' /\ \A s \in Streams : ChannelsStay(s)
  BY <1>1, <1>2, <1>3, CommandQueues, CommandStays DEF IInv
<1>5. EndsTyped' /\ \A s \in Streams : EndsStay(s)
  BY <1>1, EndsSame DEF IInv, EndsTyped
<1>6. QED
  BY <1>4, <1>5, StreamStays DEF IInv

LEMMA TakeDatagramKeeps ==
    ASSUME IInv, NEW p \in Peers, TakeDatagram(p), UNCHANGED muxVars
    PROVE  IInv'
<1>1. /\ UNCHANGED <<chunks, up, pending, registered, opener, acceptor, pump, wrote, got, closed,
                     mux, sessions, sent, auth, under, owed>>
      /\ UNCHANGED <<wire, frameQ, run, outQ, cmdQ>>
  BY DEF TakeDatagram, queueVars, openVars, pumpVars, readVars, muxVars
<1>2. QueueInv' /\ \A q \in Peers, s \in Streams : Channel(q, s)' = Channel(q, s)
  BY <1>1, QueuesStay DEF IInv
<1>3. \A s \in Streams : ChannelsStay(s)
  BY <1>1, <1>2, PostedStays, SameStay
<1>4. EndsTyped' /\ \A s \in Streams : EndsStay(s)
  BY <1>1, EndsSame DEF IInv, EndsTyped
<1>5. QED
  BY <1>2, <1>3, <1>4, StreamStays DEF IInv

LEMMA AuthenticateFailsKeeps ==
    ASSUME IInv, NEW t \in Streams, AuthenticateFails(t)
    PROVE  IInv'
<1>1. /\ UNCHANGED <<chunks, up, pending, registered, opener, acceptor, pump, wrote, got, closed,
                     mux, sessions, sent, under, owed>>
      /\ UNCHANGED <<wire, frameQ, run, outQ, cmdQ>>
      /\ auth[t] = "idle" /\ auth' = [auth EXCEPT ![t] = "err"]
  BY DEF AuthenticateFails, vars
<1>2. QueueInv' /\ \A q \in Peers, s \in Streams : Channel(q, s)' = Channel(q, s)
  BY <1>1, QueuesStay DEF IInv
<1>3. \A s \in Streams : ChannelsStay(s)
  BY <1>1, <1>2, PostedStays, SameStay
<1>4. EndsTyped'
  BY <1>1 DEF IInv, EndsTyped
<1>5. ASSUME NEW s \in Streams PROVE StreamInv(s)'
  <2>1. CASE s # t
    <3>1. EndsStay(s)
      BY <1>1, <2>1 DEF EndsStay, DataEndsStay, RegEndsStay, OpenEndsStay, SessEndsStay,
                        IInv, EndsTyped
    <3>2. QED
      BY <1>3, <3>1, StreamStays DEF IInv
  <2>2. CASE s = t
    <3>1. DataInv("client", s) /\ DataInv("server", s) /\ RegInv(s) /\ OpenInv(s) /\ SessInv(s)
      BY DEF IInv, StreamInv
    <3>2. /\ \A q \in Peers : DataEndsStay(q, s)
          /\ RegEndsStay(s) /\ OpenEndsStay(s)
      BY <1>1 DEF DataEndsStay, RegEndsStay, OpenEndsStay
    <3>3. DataInv("client", s)' /\ DataInv("server", s)'
      BY <1>2, <3>1, <3>2, SameAlike, ThePeers, DataStays
    <3>4. RegInv(s)' /\ OpenInv(s)'
      BY <1>1, <1>2, <3>1, <3>2, SameAlike, ThePeers, PostedStays, RegStays, OpenStays
    <3>5. auth[s] = "idle" /\ auth'[s] = "err"
      BY <1>1, <2>2 DEF IInv, EndsTyped
    <3>6. SessInv(s)'
      BY <1>1, <1>2, <3>1, <3>5, ThePeers DEF SessInv, SessOk
    <3>7. QED
      BY <3>3, <3>4, <3>6 DEF StreamInv
  <2>3. QED
    BY <2>1, <2>2
<1>6. QED
  BY <1>2, <1>4, <1>5 DEF IInv

LEMMA CommandAlike ==
    ASSUME QueueInv, NEW p \in Peers, NEW x \in CommandsOf(p), Commanded(p, x),
           NEW s \in Streams, NEW Z, x.frame \notin Z
    PROVE  \A q \in Peers : Alike(Channel(q, s), Channel(q, s)', Z)
<1>1. /\ Grown(Channel(p, s), Channel(p, s)', x.frame, Len(Passing(p)))
      /\ Channel(Other(p), s)' = Channel(Other(p), s)
  BY CommandQueues
<1>2. Len(Channel(p, s)) \in Nat
  BY ChannelTyped
<1>3. Len(Channel(p, s)') \in Nat
  BY <1>1, <1>2 DEF Grown
<1>4. Alike(Channel(p, s), Channel(p, s)', Z)
  BY <1>1, <1>2, <1>3, GrownAlike
<1>5. Alike(Channel(Other(p), s), Channel(Other(p), s)', Z)
  BY <1>1, SameAlike
<1>6. QED
  BY <1>4, <1>5, ThePeers

LEMMA CommandGrown ==
    ASSUME QueueInv, NEW p \in Peers, NEW x \in CommandsOf(p), Commanded(p, x), NEW s \in Streams
    PROVE  /\ Grown(Channel(p, s), Channel(p, s)', x.frame, Len(Passing(p)))
           /\ Channel(Other(p), s)' = Channel(Other(p), s)
           /\ Len(Channel(p, s)) \in Nat /\ Len(Channel(p, s)') \in Nat
<1>1. /\ Grown(Channel(p, s), Channel(p, s)', x.frame, Len(Passing(p)))
      /\ Channel(Other(p), s)' = Channel(Other(p), s)
  BY CommandQueues
<1>2. Len(Channel(p, s)) \in Nat
  BY ChannelTyped
<1>3. QED
  BY <1>1, <1>2 DEF Grown

LEMMA AuthenticateKeeps ==
    ASSUME IInv, NEW t \in Streams, NEW credential \in {"good", "bad"}, Authenticate(t, credential)
    PROVE  IInv'
<1> DEFINE status == IF credential = "good" THEN STATUS_OK ELSE STATUS_ERR
           f == Frame("authRequest", t, status)
           x == Sending(f, "none")
<1>1. /\ UNCHANGED <<chunks, up, pending, registered, opener, acceptor, pump, wrote, got, closed,
                     mux, sessions, under, owed>>
      /\ UNCHANGED <<wire, frameQ, run, outQ>>
      /\ auth[t] = "idle" /\ auth' = [auth EXCEPT ![t] = "waiting"]
      /\ sent' = [sent EXCEPT ![t] = credential]
      /\ cmdQ' = [cmdQ EXCEPT !["client"] = Append(@, x)]
  BY DEF Authenticate, Command, openVars, pumpVars, readVars
<1>2. status \in Nat
  BY DEF STATUS_OK, STATUS_ERR
<1>3. x \in CommandsOf("client") /\ x.frame = f
  BY <1>2, ThePeers, Commands
<1>4. f \in AnyFrame /\ f.type = "authRequest" /\ f.id = t /\ f.n = status
  BY <1>2, Kinds DEF FrameTypes
<1>5. f = Frame("authRequest", t, IF credential = "good" THEN STATUS_OK ELSE STATUS_ERR)
  OBVIOUS
<1> HIDE DEF x, f, status
<1>6. QueueInv /\ Commanded("client", x) /\ \A X : \A q \in Peers : Posted(q, X)' <=> Posted(q, X)
  BY <1>1, PostedStays DEF IInv, Commanded
<1>7. QueueInv'
  BY <1>3, <1>6, ThePeers, CommandQueues
<1>8. EndsTyped'
  BY <1>1 DEF IInv, EndsTyped
<1>9. ASSUME NEW s \in Streams, s # t PROVE StreamInv(s)'
  <2>1. x.frame \notin Mine(Telling, s)
    BY <1>3, <1>4, <1>9 DEF Mine
  <2>2. ChannelsStay(s)
    BY <1>3, <1>6, <2>1, ThePeers, CommandStays
  <2>3. EndsStay(s)
    BY <1>1, <1>9 DEF EndsStay, DataEndsStay, RegEndsStay, OpenEndsStay, SessEndsStay,
                      IInv, EndsTyped
  <2>4. QED
    BY <2>2, <2>3, StreamStays DEF IInv
<1>10. StreamInv(t)'
  <2>1. DataInv("client", t) /\ DataInv("server", t) /\ RegInv(t) /\ OpenInv(t) /\ SessInv(t)
    BY DEF IInv, StreamInv
  <2>2. /\ \A q \in Peers : DataEndsStay(q, t)
        /\ RegEndsStay(t) /\ OpenEndsStay(t)
    BY <1>1 DEF DataEndsStay, RegEndsStay, OpenEndsStay
  <2>3. /\ x.frame \notin Mine({"data", "close"}, t) /\ x.frame \notin Mine({"data", "ack"}, t)
        /\ x.frame \notin Mine({"open"}, t) /\ x.frame \notin Mine({"ack"}, t)
    BY <1>3, <1>4 DEF Mine
  <2>4. /\ \A q \in Peers : Alike(Channel(q, t), Channel(q, t)', Mine({"data", "close"}, t))
        /\ \A q \in Peers : Alike(Channel(q, t), Channel(q, t)', Mine({"data", "ack"}, t))
        /\ \A q \in Peers : Alike(Channel(q, t), Channel(q, t)', Mine({"open"}, t))
        /\ \A q \in Peers : Alike(Channel(q, t), Channel(q, t)', Mine({"ack"}, t))
    BY <1>3, <1>6, <2>3, ThePeers, CommandAlike
  <2>5. DataInv("client", t)' /\ DataInv("server", t)'
    BY <2>1, <2>2, <2>4, ThePeers, DataStays
  <2>6. RegInv(t)' /\ OpenInv(t)'
    BY <1>6, <2>1, <2>2, <2>4, ThePeers, RegStays, OpenStays
  <2>7. SessInv(t)'
    <3> DEFINE Q == Channel("client", t)
               R == Channel("client", t)'
    <3>1. Grown(Q, R, f, Len(Passing("client"))) /\ Len(Q) \in Nat /\ Len(R) \in Nat
      BY <1>3, <1>6, ThePeers, CommandGrown
    <3>2. SessOk(Q, t, up["client"], up["server"], opener[t], acceptor[t], mux, t \in sessions,
                 sent[t], TRUE, under[t])
      BY <1>1, <2>1 DEF SessInv
    <3> HIDE DEF Q, R
    <3>3. SessOk(R, t, up["client"], up["server"], opener[t], acceptor[t], mux, t \in sessions,
                 credential, FALSE, under[t])
      BY <1>5, <3>1, <3>2, SessRequested
    <3>4. sent'[t] = credential /\ auth'[t] # "idle"
      BY <1>1 DEF IInv, EndsTyped
    <3>5. QED
      BY <1>1, <3>3, <3>4 DEF SessInv, R
  <2>8. QED
    BY <2>5, <2>6, <2>7 DEF StreamInv
<1>11. QED
  BY <1>7, <1>8, <1>9, <1>10 DEF IInv

LEMMA OpenSessionKeeps ==
    ASSUME IInv, NEW t \in Streams, OpenSession(t)
    PROVE  IInv'
<1> DEFINE f == Frame("open", t, 0)
           x == Sending(f, "pend")
<1>1. /\ UNCHANGED <<chunks, up, pending, registered, acceptor, pump, wrote, got, closed,
                     mux, sessions, sent, auth, owed>>
      /\ UNCHANGED <<wire, frameQ, run, outQ>>
      /\ up["client"]
      /\ opener[t] = "idle" /\ opener' = [opener EXCEPT ![t] = "waiting"]
      /\ under' = [under EXCEPT ![t] = sent[t] = "good"]
      /\ cmdQ' = [cmdQ EXCEPT !["client"] = Append(@, x)]
  BY DEF OpenSession, OpenStream, Command, pumpVars, readVars
<1>2. x \in CommandsOf("client") /\ x.frame = f
  BY ThePeers, Commands
<1>3. f \in AnyFrame /\ f.type = "open" /\ f.id = t
  BY Kinds DEF FrameTypes
<1>4. f = Frame("open", t, 0)
  OBVIOUS
<1> HIDE DEF x, f
<1>5. QueueInv /\ Commanded("client", x) /\ \A X : \A q \in Peers : Posted(q, X)' = Posted(q, X)
  BY <1>1 DEF IInv, Commanded, Posted
<1>6. QueueInv'
  BY <1>2, <1>5, ThePeers, CommandQueues
<1>7. EndsTyped'
  BY <1>1 DEF IInv, EndsTyped
<1>8. ASSUME NEW s \in Streams, s # t PROVE StreamInv(s)'
  <2>1. x.frame \notin Mine(Telling, s)
    BY <1>2, <1>3, <1>8 DEF Mine
  <2>2. ChannelsStay(s)
    BY <1>2, <1>5, <2>1, ThePeers, CommandStays
  <2>3. EndsStay(s)
    BY <1>1, <1>8 DEF EndsStay, DataEndsStay, RegEndsStay, OpenEndsStay, SessEndsStay,
                      IInv, EndsTyped
  <2>4. QED
    BY <2>2, <2>3, StreamStays DEF IInv
<1>9. StreamInv(t)'
  <2>1. DataInv("client", t) /\ DataInv("server", t) /\ RegInv(t) /\ OpenInv(t) /\ SessInv(t)
    BY DEF IInv, StreamInv
  <2>2. (\A q \in Peers : DataEndsStay(q, t)) /\ RegEndsStay(t)
    BY <1>1 DEF DataEndsStay, RegEndsStay
  <2>3. x.frame \notin Mine({"data", "close"}, t) /\ x.frame \notin Mine({"data", "ack"}, t)
    BY <1>2, <1>3 DEF Mine
  <2>4. /\ \A q \in Peers : Alike(Channel(q, t), Channel(q, t)', Mine({"data", "close"}, t))
        /\ \A q \in Peers : Alike(Channel(q, t), Channel(q, t)', Mine({"data", "ack"}, t))
    BY <1>2, <1>5, <2>3, ThePeers, CommandAlike
  <2>5. DataInv("client", t)' /\ DataInv("server", t)'
    BY <2>1, <2>2, <2>4, ThePeers, DataStays
  <2>6. RegInv(t)'
    BY <1>5, <2>1, <2>2, <2>4, ThePeers, RegStays
  <2> DEFINE Q == Channel("client", t)
             R == Channel("client", t)'
             k == Len(Passing("client"))
             X == Nth("authRequest", t, STATUS_OK)
  <2>7. /\ Grown(Q, R, f, k) /\ Len(Q) \in Nat /\ Len(R) \in Nat
        /\ Channel("server", t)' = Channel("server", t)
    BY <1>2, <1>5, ThePeers, CommandGrown
  <2>8. opener'[t] = "waiting" /\ under'[t] = (sent[t] = "good")
    BY <1>1 DEF IInv, EndsTyped
  <2>9. OpenOk(Q, Channel("server", t), t, up["client"], "idle", acceptor[t], t \in pending,
               Posted("client", Of("open", t)))
    BY <1>1, <2>1 DEF OpenInv
  <2>10. acceptor[t] = "none" /\ ~Has(Q, Of("open", t))
    BY <2>9 DEF OpenOk
  <2>11. SessOk(Q, t, up["client"], up["server"], "idle", acceptor[t], mux, t \in sessions,
                sent[t], auth[t] = "idle", under[t])
    BY <1>1, <2>1 DEF SessInv
  <2>12. Has(Q, X) => \E j \in 1..k : Q[j] \in X
    <3>1. X \cap Of("data", t) = {}
      BY DEF Nth, Of
    <3> HIDE DEF X, k
    <3>2. QED
      BY <1>5, <3>1, ThePeers, PassingFirst DEF k
  <2> HIDE DEF Q, R, k
  <2>13. OpenOk(R, Channel("server", t), t, up["client"], "waiting", acceptor[t], t \in pending,
                Posted("client", Of("open", t)))
    BY <1>4, <2>7, <2>9, OpenSends
  <2>14. OpenInv(t)'
    BY <1>1, <1>5, <2>7, <2>8, <2>13, ThePeers DEF OpenInv, R
  <2>15. SessOk(R, t, up["client"], up["server"], "waiting", acceptor[t], mux, t \in sessions,
                sent[t], auth[t] = "idle", sent[t] = "good")
    BY <1>1, <1>4, <2>7, <2>10, <2>11, <2>12, SessOpened
  <2>16. SessInv(t)'
    BY <1>1, <2>8, <2>15 DEF SessInv, R
  <2>17. QED
    BY <2>5, <2>6, <2>14, <2>16 DEF StreamInv
<1>10. QED
  BY <1>6, <1>7, <1>8, <1>9 DEF IInv

LEMMA OpenFailsKeeps ==
    ASSUME IInv, NEW t \in Streams, OpenFails(t), UNCHANGED muxVars
    PROVE  IInv'
<1>1. /\ UNCHANGED <<chunks, up, pending, registered, acceptor, pump, wrote, got, closed,
                     mux, sessions, sent, auth, under, owed>>
      /\ UNCHANGED <<wire, frameQ, run, outQ, cmdQ>>
      /\ opener[t] = "idle" /\ opener' = [opener EXCEPT ![t] = "err"]
  BY DEF OpenFails, queueVars, pumpVars, readVars, muxVars
<1>2. QueueInv' /\ \A q \in Peers, s \in Streams : Channel(q, s)' = Channel(q, s)
  BY <1>1, QueuesStay DEF IInv
<1>3. \A X : \A q \in Peers : Posted(q, X)' = Posted(q, X)
  BY <1>1 DEF Posted
<1>4. EndsTyped'
  BY <1>1 DEF IInv, EndsTyped
<1>5. ASSUME NEW s \in Streams, s # t PROVE StreamInv(s)'
  <2>1. ChannelsStay(s)
    BY <1>2, <1>3, SameStay
  <2>2. EndsStay(s)
    BY <1>1, <1>5 DEF EndsStay, DataEndsStay, RegEndsStay, OpenEndsStay, SessEndsStay,
                      IInv, EndsTyped
  <2>3. QED
    BY <2>1, <2>2, StreamStays DEF IInv
<1>6. StreamInv(t)'
  <2>1. DataInv("client", t) /\ DataInv("server", t) /\ RegInv(t) /\ OpenInv(t) /\ SessInv(t)
    BY DEF IInv, StreamInv
  <2>2. (\A q \in Peers : DataEndsStay(q, t)) /\ RegEndsStay(t)
    BY <1>1 DEF DataEndsStay, RegEndsStay
  <2>3. DataInv("client", t)' /\ DataInv("server", t)' /\ RegInv(t)'
    BY <1>2, <1>3, <2>1, <2>2, SameAlike, ThePeers, DataStays, RegStays
  <2>4. opener'[t] = "err"
    BY <1>1 DEF IInv, EndsTyped
  <2>5. OpenOk(Channel("client", t), Channel("server", t), t, up["client"], "err",
               acceptor[t], t \in pending, Posted("client", Of("open", t)))
    BY <2>1, OpenEnds DEF OpenInv
  <2>6. OpenInv(t)'
    BY <1>1, <1>2, <1>3, <2>4, <2>5, ThePeers DEF OpenInv
  <2>7. SessOk(Channel("client", t), t, up["client"], up["server"], "err", acceptor[t], mux,
               t \in sessions, sent[t], auth[t] = "idle", under[t])
    BY <2>1 DEF SessInv, SessOk
  <2>8. SessInv(t)'
    BY <1>1, <1>2, <2>4, <2>7, ThePeers DEF SessInv
  <2>9. QED
    BY <2>3, <2>6, <2>8 DEF StreamInv
<1>7. QED
  BY <1>2, <1>4, <1>5, <1>6 DEF IInv

LEMMA TakeEventKeeps ==
    ASSUME IInv, NEW t \in Streams, TakeEvent(t), UNCHANGED muxVars
    PROVE  IInv'
<1>1. /\ UNCHANGED <<chunks, up, pending, registered, opener, pump, wrote, got, closed,
                     mux, sessions, sent, auth, under, owed>>
      /\ UNCHANGED <<wire, frameQ, run, outQ, cmdQ>>
      /\ acceptor[t] = "event" /\ acceptor' = [acceptor EXCEPT ![t] = "taken"]
  BY DEF TakeEvent, queueVars, pumpVars, readVars, muxVars
<1>2. QueueInv' /\ \A q \in Peers, s \in Streams : Channel(q, s)' = Channel(q, s)
  BY <1>1, QueuesStay DEF IInv
<1>3. \A X : \A q \in Peers : Posted(q, X)' = Posted(q, X)
  BY <1>1 DEF Posted
<1>4. EndsTyped'
  BY <1>1 DEF IInv, EndsTyped
<1>5. ASSUME NEW s \in Streams, s # t PROVE StreamInv(s)'
  <2>1. ChannelsStay(s)
    BY <1>2, <1>3, SameStay
  <2>2. EndsStay(s)
    BY <1>1, <1>5 DEF EndsStay, DataEndsStay, RegEndsStay, OpenEndsStay, SessEndsStay,
                      IInv, EndsTyped
  <2>3. QED
    BY <2>1, <2>2, StreamStays DEF IInv
<1>6. StreamInv(t)'
  <2>1. DataInv("client", t) /\ DataInv("server", t) /\ RegInv(t) /\ OpenInv(t) /\ SessInv(t)
    BY DEF IInv, StreamInv
  <2>2. (\A q \in Peers : DataEndsStay(q, t)) /\ RegEndsStay(t)
    BY <1>1 DEF DataEndsStay, RegEndsStay
  <2>3. DataInv("client", t)' /\ DataInv("server", t)' /\ RegInv(t)'
    BY <1>2, <1>3, <2>1, <2>2, SameAlike, ThePeers, DataStays, RegStays
  <2>4. acceptor'[t] = "taken"
    BY <1>1 DEF IInv, EndsTyped
  <2>5. OpenOk(Channel("client", t), Channel("server", t), t, up["client"], opener[t], "taken",
               t \in pending, Posted("client", Of("open", t)))
    BY <1>1, <2>1 DEF OpenInv, OpenOk
  <2>6. OpenInv(t)'
    BY <1>1, <1>2, <1>3, <2>4, <2>5, ThePeers DEF OpenInv
  <2>7. SessOk(Channel("client", t), t, up["client"], up["server"], opener[t], "taken", mux,
               t \in sessions, sent[t], auth[t] = "idle", under[t])
    BY <1>1, <2>1, SessGoes DEF SessInv
  <2>8. SessInv(t)'
    BY <1>1, <1>2, <2>4, <2>7, ThePeers DEF SessInv
  <2>9. QED
    BY <2>3, <2>6, <2>8 DEF StreamInv
<1>7. QED
  BY <1>2, <1>4, <1>5, <1>6 DEF IInv

LEMMA ReplyOpenKeeps ==
    ASSUME IInv, NEW t \in Streams, ReplyOpen(t), UNCHANGED muxVars
    PROVE  IInv'
<1>1. PICK a \in {"accepted", "refused"} :
        /\ acceptor' = [acceptor EXCEPT ![t] = a]
        /\ a = "accepted" => Command("server", Frame("ack", t, STATUS_OK), "register")
        /\ a = "refused" => Command("server", Frame("ack", t, STATUS_ERR), "none")
  BY DEF ReplyOpen
<1> DEFINE n == IF a = "accepted" THEN STATUS_OK ELSE STATUS_ERR
           f == Frame("ack", t, n)
           x == Sending(f, IF a = "accepted" THEN "register" ELSE "none")
<1>2. /\ UNCHANGED <<chunks, up, pending, registered, opener, pump, wrote, got, closed,
                     mux, sessions, sent, auth, under, owed>>
      /\ UNCHANGED <<wire, frameQ, run, outQ>>
      /\ acceptor[t] = "taken"
  BY DEF ReplyOpen, pumpVars, readVars, muxVars
<1>3. cmdQ' = [cmdQ EXCEPT !["server"] = Append(@, x)]
  BY <1>1 DEF Command
<1>4. x \in CommandsOf("server") /\ x.frame = f
  BY ThePeers, Commands DEF STATUS_OK
<1>5. n \in Nat
  BY DEF STATUS_OK, STATUS_ERR
<1>6. f \in AnyFrame /\ f.type = "ack" /\ f.id = t
  BY <1>5, Kinds DEF FrameTypes
<1>7. f = Frame("ack", t, n)
  OBVIOUS
<1> HIDE DEF x, f, n
<1>8. QueueInv /\ Commanded("server", x) /\ \A X : \A q \in Peers : Posted(q, X)' = Posted(q, X)
  BY <1>2, <1>3 DEF IInv, Commanded, Posted
<1>9. QueueInv'
  BY <1>4, <1>8, ThePeers, CommandQueues
<1>10. EndsTyped'
  BY <1>1, <1>2 DEF IInv, EndsTyped
<1>11. ASSUME NEW s \in Streams, s # t PROVE StreamInv(s)'
  <2>1. x.frame \notin Mine(Telling, s)
    BY <1>4, <1>6, <1>11 DEF Mine
  <2>2. ChannelsStay(s)
    BY <1>4, <1>8, <2>1, ThePeers, CommandStays
  <2>3. EndsStay(s)
    BY <1>1, <1>2, <1>11 DEF EndsStay, DataEndsStay, RegEndsStay, OpenEndsStay, SessEndsStay,
                             IInv, EndsTyped
  <2>4. QED
    BY <2>2, <2>3, StreamStays DEF IInv
<1>12. StreamInv(t)'
  <2>1. DataInv("client", t) /\ DataInv("server", t) /\ RegInv(t) /\ OpenInv(t) /\ SessInv(t)
    BY DEF IInv, StreamInv
  <2>2. \A q \in Peers : DataEndsStay(q, t)
    BY <1>2 DEF DataEndsStay
  <2>3. x.frame \notin Mine({"data", "close"}, t)
    BY <1>4, <1>6 DEF Mine
  <2>4. \A q \in Peers : Alike(Channel(q, t), Channel(q, t)', Mine({"data", "close"}, t))
    BY <1>4, <1>8, <2>3, ThePeers, CommandAlike
  <2>5. DataInv("client", t)' /\ DataInv("server", t)'
    BY <2>1, <2>2, <2>4, ThePeers, DataStays
  <2> DEFINE Q == Channel("server", t)
             R == Channel("server", t)'
             k == Len(Passing("server"))
  <2>6. /\ Grown(Q, R, f, k) /\ Len(Q) \in Nat /\ Len(R) \in Nat
        /\ Channel("client", t)' = Channel("client", t)
    BY <1>4, <1>8, ThePeers, CommandGrown
  <2>7. acceptor'[t] = a
    BY <1>1 DEF IInv, EndsTyped
  <2> HIDE DEF Q, R, k
  <2>8. RegOk(R, t, up["client"], up["server"],
              pump["client"][t] # "none", pump["server"][t] # "none",
              t \in registered["client"], t \in registered["server"],
              closed["client"][t], closed["server"][t],
              Posted("server", Nth("ack", t, STATUS_OK)))
    BY <1>5, <1>7, <2>1, <2>6, RegAnswered DEF RegInv, Q
  <2>9. RegInv(t)'
    BY <1>2, <1>8, <2>8, ThePeers DEF RegInv, R
  <2>10. OpenOk(Channel("client", t), R, t, up["client"], opener[t], a, t \in pending,
                Posted("client", Of("open", t)))
    BY <1>1, <1>2, <1>5, <1>7, <2>1, <2>6, OpenReplies DEF OpenInv, Q
  <2>11. OpenInv(t)'
    BY <1>2, <1>8, <2>6, <2>7, <2>10, ThePeers DEF OpenInv, R
  <2>12. SessOk(Channel("client", t), t, up["client"], up["server"], opener[t], a, mux,
                t \in sessions, sent[t], auth[t] = "idle", under[t])
    BY <1>1, <1>2, <2>1, SessGoes DEF SessInv
  <2>13. SessInv(t)'
    BY <1>2, <2>6, <2>7, <2>12 DEF SessInv
  <2>14. QED
    BY <2>5, <2>9, <2>11, <2>13 DEF StreamInv
<1>13. QED
  BY <1>9, <1>10, <1>11, <1>12 DEF IInv

LEMMA PumpDataKeeps ==
    ASSUME IInv, NEW p \in Peers, NEW t \in Streams, PumpData(p, t), UNCHANGED muxVars
    PROVE  IInv'
<1> DEFINE f == Frame("data", t, wrote[p][t] + 1)
<1>1. /\ UNCHANGED <<chunks, up, pending, registered, opener, acceptor, got, closed,
                     mux, sessions, sent, auth, under, owed>>
      /\ UNCHANGED <<wire, frameQ, run, cmdQ>>
      /\ pump[p][t] = "running" /\ wrote[p][t] < chunks[p]
      /\ wrote' = [wrote EXCEPT ![p][t] = @ + 1]
      /\ pump' = [pump EXCEPT ![p][t] = "counting"]
  BY DEF PumpData, queueVars, openVars, readVars, muxVars
<1>2. wrote \in [Peers -> [Streams -> Nat]] /\ wrote[p][t] \in Nat /\ wrote[p][t] + 1 \in Nat
  BY DEF IInv, EndsTyped
<1>3. /\ wrote' \in [Peers -> [Streams -> Nat]] /\ wrote'[p][t] = wrote[p][t] + 1
      /\ \A q \in Peers, s \in Streams : q # p \/ s # t => wrote'[q][s] = wrote[q][s]
  BY <1>1, <1>2
<1>12. pump \in [Peers -> [Streams -> {"none", "running", "counting", "eof", "done"}]]
  BY DEF IInv, EndsTyped
<1>13. /\ pump' \in [Peers -> [Streams -> {"none", "running", "counting", "eof", "done"}]]
       /\ pump'[p][t] = "counting"
       /\ \A q \in Peers, s \in Streams : q # p \/ s # t => pump'[q][s] = pump[q][s]
  BY <1>1, <1>12
<1>4. f \in AnyFrame /\ f.type = "data" /\ f.id = t
  BY <1>2, Kinds DEF FrameTypes
<1>5. /\ QueueInv'
      /\ up[p] => Grown(Channel(p, t), Channel(p, t)', f, Len(Channel(p, t)))
      /\ ~up[p] => Channel(p, t)' = Channel(p, t)
      /\ \A q \in Peers, s \in Streams : q # p \/ s # t => Channel(q, s)' = Channel(q, s)
  BY <1>2, PumpDataQueues DEF IInv
<1>6. f = Frame("data", t, wrote[p][t] + 1)
  OBVIOUS
<1> HIDE DEF f
<1>7. \A X : \A q \in Peers : Posted(q, X)' = Posted(q, X)
  BY <1>1 DEF Posted
<1>8. EndsTyped'
  BY <1>1, <1>3, <1>13 DEF IInv, EndsTyped
<1>9. ASSUME NEW s \in Streams, s # t PROVE StreamInv(s)'
  <2>1. ChannelsStay(s)
    BY <1>5, <1>7, <1>9, SameStay
  <2>2. EndsStay(s)
    BY <1>1, <1>3, <1>9, <1>13, OtherPeer
       DEF EndsStay, DataEndsStay, RegEndsStay, OpenEndsStay, SessEndsStay
  <2>3. QED
    BY <2>1, <2>2, StreamStays DEF IInv
<1>10. StreamInv(t)'
  <2>1. (\A q \in Peers : DataInv(q, t)) /\ RegInv(t) /\ OpenInv(t) /\ SessInv(t)
    BY ThePeers DEF IInv, StreamInv
  <2> DEFINE Q == Channel(p, t)
             R == Channel(p, t)'
  <2>2. Len(Q) \in Nat /\ Len(R) \in Nat
    <3>1. Len(Q) \in Nat
      BY ChannelTyped DEF IInv
    <3>2. QED
      BY <1>5, <3>1 DEF Grown
  <2>3. ASSUME NEW Z, f \notin Z PROVE \A q \in Peers : Alike(Channel(q, t), Channel(q, t)', Z)
    <3>1. Alike(Q, R, Z)
      <4>1. CASE up[p]
        BY <1>5, <2>2, <2>3, <4>1, GrownAlike
      <4>2. CASE ~up[p]
        BY <1>5, <4>2, SameAlike
      <4>3. QED
        BY <4>1, <4>2
    <3>2. \A q \in Peers : q # p => Alike(Channel(q, t), Channel(q, t)', Z)
      BY <1>5, SameAlike
    <3>3. QED
      BY <3>1, <3>2
  <2>4. f \notin Mine({"open"}, t) /\ f \notin Mine({"ack"}, t) /\ f \notin Mine({"open", "authRequest"}, t)
    BY <1>4 DEF Mine
  <2>5. OpenEndsStay(t) /\ SessEndsStay(t)
    BY <1>1 DEF OpenEndsStay, SessEndsStay
  <2>6. OpenInv(t)' /\ SessInv(t)'
    BY <1>7, <2>1, <2>3, <2>4, <2>5, ThePeers, OpenStays, SessStays
  <2>7. ASSUME NEW q \in Peers, q # p PROVE DataInv(q, t)'
    <3>1. DataEndsStay(q, t) /\ Channel(q, t)' = Channel(q, t)
      BY <1>1, <1>3, <1>5, <1>13, <2>7 DEF DataEndsStay
    <3>2. QED
      BY <2>1, <3>1, SameAlike, DataStays
  <2> HIDE DEF Q, R
  <2>8. DataInv(p, t)'
    <3>1. DataOk(Q, t, up[p], up[Other(p)], wrote[p][t], got[Other(p)][t], chunks[p], "running",
                 closed[Other(p)][t])
      BY <1>1, <2>1 DEF DataInv, Q
    <3>2. DataOk(R, t, up[p], up[Other(p)], wrote[p][t] + 1, got[Other(p)][t], chunks[p],
                 "counting", closed[Other(p)][t])
      BY <1>1, <1>5, <1>6, <2>2, <3>1, DataWritten DEF Q, R
    <3>3. QED
      BY <1>1, <1>3, <1>13, <3>2 DEF DataInv, R
  <2>9. RegInv(t)'
    <3>0. \A q \in Peers : (pump'[q][t] # "none") = (pump[q][t] # "none")
      BY <1>1, <1>13
    <3>1. CASE p # "server"
      <4>1. Channel("server", t)' = Channel("server", t)
        BY <1>5, <3>1, ThePeers
      <4>2. QED
        BY <1>1, <1>7, <2>1, <3>0, <4>1, ThePeers DEF RegInv
    <3>2. CASE p = "server"
      <4>1. RegOk(Q, t, up["client"], up["server"], pump["client"][t] # "none", TRUE,
                  t \in registered["client"], t \in registered["server"],
                  closed["client"][t], closed["server"][t],
                  Posted("server", Nth("ack", t, STATUS_OK)))
        BY <1>1, <2>1, <3>2 DEF RegInv, Q
      <4>2. /\ up["server"] => Grown(Q, R, f, Len(Q))
            /\ ~up["server"] => R = Q
        BY <1>5, <3>2 DEF Q, R
      <4>3. RegOk(R, t, up["client"], up["server"], pump["client"][t] # "none", TRUE,
                  t \in registered["client"], t \in registered["server"],
                  closed["client"][t], closed["server"][t],
                  Posted("server", Nth("ack", t, STATUS_OK)))
        BY <2>2, <4>1, <4>2, RegWritten
      <4>4. QED
        BY <1>1, <1>7, <3>0, <3>2, <4>3, ThePeers DEF RegInv, R
    <3>3. QED
      BY <3>1, <3>2
  <2>10. QED
    BY <2>6, <2>7, <2>8, <2>9, ThePeers DEF StreamInv
<1>11. QED
  BY <1>5, <1>8, <1>9, <1>10 DEF IInv

\* The pump goes on or ends, without a frame.
LEMMA PumpGoes ==
    ASSUME IInv, QueueInv', NEW p \in Peers, NEW t \in Streams,
           NEW r \in {"running", "eof", "done"}, pump[p][t] \in {"running", "counting", "eof"}, pump' = [pump EXCEPT ![p][t] = r],
           r = "eof" => wrote[p][t] = chunks[p],
           \A q \in Peers, s \in Streams : Channel(q, s)' = Channel(q, s),
           UNCHANGED <<wire, frameQ>>,
           UNCHANGED <<chunks, up, pending, registered, opener, acceptor, wrote, got, closed,
                       mux, sessions, sent, auth, under, owed>>
    PROVE  IInv'
<1>1. pump \in [Peers -> [Streams -> {"none", "running", "counting", "eof", "done"}]]
  BY DEF IInv, EndsTyped
<1>2. /\ pump' \in [Peers -> [Streams -> {"none", "running", "counting", "eof", "done"}]]
      /\ pump'[p][t] = r
      /\ \A q \in Peers, s \in Streams : q # p \/ s # t => pump'[q][s] = pump[q][s]
  BY <1>1
<1>3. \A X : \A q \in Peers : Posted(q, X)' = Posted(q, X)
  BY DEF Posted
<1>4. EndsTyped'
  BY <1>2 DEF IInv, EndsTyped
<1>5. ASSUME NEW s \in Streams, s # t PROVE StreamInv(s)'
  <2>1. ChannelsStay(s)
    BY <1>3, SameStay
  <2>2. EndsStay(s)
    BY <1>2, <1>5 DEF EndsStay, DataEndsStay, RegEndsStay, OpenEndsStay, SessEndsStay
  <2>3. QED
    BY <2>1, <2>2, StreamStays DEF IInv
<1>6. StreamInv(t)'
  <2>1. (\A q \in Peers : DataInv(q, t)) /\ RegInv(t) /\ OpenInv(t) /\ SessInv(t)
    BY ThePeers DEF IInv, StreamInv
  <2>2. OpenEndsStay(t) /\ SessEndsStay(t)
    BY DEF OpenEndsStay, SessEndsStay
  <2>3. OpenInv(t)' /\ SessInv(t)'
    BY <1>3, <2>1, <2>2, SameAlike, ThePeers, OpenStays, SessStays
  <2>4. ASSUME NEW q \in Peers, q # p PROVE DataInv(q, t)'
    <3>1. DataEndsStay(q, t)
      BY <1>2, <2>4 DEF DataEndsStay
    <3>2. QED
      BY <2>1, <3>1, SameAlike, DataStays
  <2>5. DataInv(p, t)'
    <3>1. DataOk(Channel(p, t), t, up[p], up[Other(p)], wrote[p][t], got[Other(p)][t], chunks[p],
                 r, closed[Other(p)][t])
      BY <2>1, DataPump DEF DataInv
    <3>2. QED
      BY <1>2, <3>1 DEF DataInv
  <2>6. RegInv(t)'
    <3>1. \A q \in Peers : (pump'[q][t] # "none") = (pump[q][t] # "none")
      BY <1>2
    <3>2. QED
      BY <1>3, <2>1, <3>1, ThePeers DEF RegInv
  <2>7. QED
    BY <2>3, <2>4, <2>5, <2>6, ThePeers DEF StreamInv
<1>7. QED
  BY <1>4, <1>5, <1>6 DEF IInv

LEMMA PumpEofKeeps ==
    ASSUME IInv, NEW p \in Peers, NEW t \in Streams, PumpEof(p, t), UNCHANGED muxVars
    PROVE  IInv'
<1>1. /\ UNCHANGED <<up, cmdQ, run, frameQ, wire, outQ>>
      /\ UNCHANGED <<chunks, up, pending, registered, opener, acceptor, wrote, got, closed,
                     mux, sessions, sent, auth, under, owed>>
      /\ pump[p][t] \in {"running", "eof"} /\ pump' = [pump EXCEPT ![p][t] = "eof"]
      /\ wrote[p][t] = chunks[p]
  BY DEF PumpEof, queueVars, openVars, readVars, muxVars
<1>2. QueueInv' /\ \A q \in Peers, s \in Streams : Channel(q, s)' = Channel(q, s)
  BY <1>1, QueuesStay DEF IInv
<1>3. QED
  BY <1>1, <1>2, PumpGoes

LEMMA PumpCountKeeps ==
    ASSUME IInv, NEW p \in Peers, NEW t \in Streams, PumpCount(p, t), UNCHANGED muxVars
    PROVE  IInv'
<1>1. /\ UNCHANGED <<up, cmdQ, run, frameQ, wire, outQ>>
      /\ UNCHANGED <<chunks, up, pending, registered, opener, acceptor, wrote, got, closed,
                     mux, sessions, sent, auth, under, owed>>
      /\ pump[p][t] = "counting" /\ pump' = [pump EXCEPT ![p][t] = "running"]
  BY DEF PumpCount, queueVars, openVars, readVars, muxVars
<1>2. QueueInv' /\ \A q \in Peers, s \in Streams : Channel(q, s)' = Channel(q, s)
  BY <1>1, QueuesStay DEF IInv
<1>3. QED
  BY <1>1, <1>2, PumpGoes

LEMMA PumpStopsKeeps ==
    ASSUME IInv, NEW p \in Peers, NEW t \in Streams, PumpStops(p, t), UNCHANGED muxVars
    PROVE  IInv'
<1>1. /\ UNCHANGED <<frameQ, wire>>
      /\ UNCHANGED <<chunks, up, pending, registered, opener, acceptor, wrote, got, closed,
                     mux, sessions, sent, auth, under, owed>>
      /\ pump[p][t] \in {"running", "eof"} /\ pump' = [pump EXCEPT ![p][t] = "done"]
  BY DEF PumpStops, queueVars, openVars, readVars, muxVars
<1>2. QueueInv' /\ \A q \in Peers, s \in Streams : Channel(q, s)' = Channel(q, s)
  BY PumpStopsQueues DEF IInv
<1>3. QED
  BY <1>1, <1>2, PumpGoes

LEMMA PumpCloseKeeps ==
    ASSUME IInv, NEW p \in Peers, NEW t \in Streams, PumpClose(p, t), UNCHANGED muxVars
    PROVE  IInv'
<1> DEFINE f == Frame("close", t, 0)
           x == Sending(f, "none")
<1>1. /\ UNCHANGED <<chunks, up, pending, registered, opener, acceptor, wrote, got, closed,
                     mux, sessions, sent, auth, under, owed>>
      /\ UNCHANGED <<wire, frameQ, run, outQ>>
      /\ pump[p][t] = "eof" /\ pump' = [pump EXCEPT ![p][t] = "done"]
      /\ outQ[p][t] = <<>> /\ up[p]
      /\ cmdQ' = [cmdQ EXCEPT ![p] = Append(@, x)]
  BY DEF PumpClose, Command, openVars, readVars, muxVars
<1>2. x \in CommandsOf(p) /\ x.frame = f
  BY Commands
<1>3. f \in AnyFrame /\ f.type = "close" /\ f.id = t
  BY Kinds DEF FrameTypes
<1>4. f = Frame("close", t, 0)
  OBVIOUS
<1> HIDE DEF x, f
<1>5. QueueInv /\ Commanded(p, x) /\ \A X : \A q \in Peers : Posted(q, X)' = Posted(q, X)
  BY <1>1 DEF IInv, Commanded, Posted
<1>6. QueueInv'
  BY <1>2, <1>5, CommandQueues
<1>7. pump \in [Peers -> [Streams -> {"none", "running", "counting", "eof", "done"}]]
  BY DEF IInv, EndsTyped
<1>8. /\ pump' \in [Peers -> [Streams -> {"none", "running", "counting", "eof", "done"}]]
      /\ pump'[p][t] = "done"
      /\ \A q \in Peers, s \in Streams : q # p \/ s # t => pump'[q][s] = pump[q][s]
  BY <1>1, <1>7
<1>9. EndsTyped'
  BY <1>1, <1>8 DEF IInv, EndsTyped
<1>10. ASSUME NEW s \in Streams, s # t PROVE StreamInv(s)'
  <2>1. x.frame \notin Mine(Telling, s)
    BY <1>2, <1>3, <1>10 DEF Mine
  <2>2. ChannelsStay(s)
    BY <1>2, <1>5, <2>1, CommandStays
  <2>3. EndsStay(s)
    BY <1>1, <1>8, <1>10 DEF EndsStay, DataEndsStay, RegEndsStay, OpenEndsStay, SessEndsStay
  <2>4. QED
    BY <2>2, <2>3, StreamStays DEF IInv
<1>11. StreamInv(t)'
  <2>1. (\A q \in Peers : DataInv(q, t)) /\ RegInv(t) /\ OpenInv(t) /\ SessInv(t)
    BY ThePeers DEF IInv, StreamInv
  <2>2. OpenEndsStay(t) /\ SessEndsStay(t)
    BY <1>1 DEF OpenEndsStay, SessEndsStay
  <2>3. /\ x.frame \notin Mine({"open"}, t) /\ x.frame \notin Mine({"ack"}, t)
        /\ x.frame \notin Mine({"open", "authRequest"}, t) /\ x.frame \notin Mine({"data", "ack"}, t)
    BY <1>2, <1>3 DEF Mine
  <2>4. /\ \A q \in Peers : Alike(Channel(q, t), Channel(q, t)', Mine({"open"}, t))
        /\ \A q \in Peers : Alike(Channel(q, t), Channel(q, t)', Mine({"ack"}, t))
        /\ \A q \in Peers : Alike(Channel(q, t), Channel(q, t)', Mine({"open", "authRequest"}, t))
        /\ \A q \in Peers : Alike(Channel(q, t), Channel(q, t)', Mine({"data", "ack"}, t))
    BY <1>2, <1>5, <2>3, CommandAlike
  <2>5. OpenInv(t)' /\ SessInv(t)'
    BY <1>5, <2>1, <2>2, <2>4, ThePeers, OpenStays, SessStays
  <2>6. /\ Grown(Channel(p, t), Channel(p, t)', f, Len(Channel(p, t)))
        /\ Channel(Other(p), t)' = Channel(Other(p), t)
        /\ Len(Channel(p, t)) \in Nat /\ Len(Channel(p, t)') \in Nat
    BY <1>1, <1>2, <1>5, CommandGrown, NothingBehind
  <2>7. ASSUME NEW q \in Peers, q # p PROVE DataInv(q, t)'
    <3>1. DataEndsStay(q, t) /\ q = Other(p)
      BY <1>1, <1>8, <2>7, ThePeers DEF DataEndsStay
    <3>2. QED
      BY <2>1, <2>6, <3>1, SameAlike, DataStays
  <2>8. DataInv(p, t)'
    <3>1. DataOk(Channel(p, t), t, up[p], up[Other(p)], wrote[p][t], got[Other(p)][t], chunks[p],
                 "eof", closed[Other(p)][t])
      BY <1>1, <2>1 DEF DataInv
    <3>2. DataOk(Channel(p, t)', t, up[p], up[Other(p)], wrote[p][t], got[Other(p)][t], chunks[p],
                 "done", closed[Other(p)][t])
      BY <1>1, <1>4, <2>6, <3>1, DataCloses
    <3>3. QED
      BY <1>1, <1>8, <3>2 DEF DataInv
  <2>9. RegInv(t)'
    <3>1. \A q \in Peers : (pump'[q][t] # "none") = (pump[q][t] # "none")
      BY <1>1, <1>8
    <3>2. RegOk(Channel("server", t)', t, up["client"], up["server"],
                pump["client"][t] # "none", pump["server"][t] # "none",
                t \in registered["client"], t \in registered["server"],
                closed["client"][t], closed["server"][t],
                Posted("server", Nth("ack", t, STATUS_OK)))
      BY <2>1, <2>4, ThePeers, RegAlike DEF RegInv
    <3>3. QED
      BY <1>1, <1>5, <3>1, <3>2, ThePeers DEF RegInv
  <2>10. QED
    BY <2>5, <2>7, <2>8, <2>9, ThePeers DEF StreamInv
<1>12. QED
  BY <1>6, <1>9, <1>10, <1>11 DEF IInv

LEMMA HandPasses ==
    ASSUME QueueInv, NEW p \in Peers, NEW s \in Streams, NEW X, run[p] # Idle, run[p].frame \in X
    PROVE  Has(Channel(p, s), X)
<1> DEFINE S == FramesOf(p)
           a == wire[p] \o frameQ[p]
           c == InHand(run[p])
           d == FramesIn(cmdQ[p])
           e == Behind(p, s)
<1>1. a \in Seq(S) /\ c \in Seq(S) /\ d \in Seq(S) /\ e \in Seq(S)
  BY HandTypes, CommandFrames, ChannelTyped, ConcatProperties DEF QueueInv, QueueTypes
<1>2. Channel(p, s) = ((a \o c) \o d) \o e
  BY DEF Channel, Passing, Queues
<1>3. Has(c, X)
  <2>1. c = <<run[p].frame>>
    BY DEF InHand
  <2> HIDE DEF c
  <2>2. Len(c) = 1 /\ c[1] = run[p].frame
    BY <2>1
  <2>3. QED
    BY <2>2 DEF Has
<1> HIDE DEF S, a, c, d, e
<1> DEFINE v == a \o c
           w == v \o d
<1>4. v \in Seq(S) /\ Has(v, X)
  BY <1>1, <1>3, HasConcat
<1> HIDE DEF v
<1>5. w \in Seq(S) /\ Has(w, X)
  BY <1>1, <1>4, HasConcat
<1> HIDE DEF w
<1>6. Has(w \o e, X)
  BY <1>1, <1>5, HasConcat
<1>7. QED
  BY <1>2, <1>6 DEF v, w

LEMMA SendFrameKeeps ==
    ASSUME IInv, NEW p \in Peers, SendFrame(p), UNCHANGED muxVars
    PROVE  IInv'
<1> DEFINE c == run[p]
           f == c.frame
<1>0. PICK t \in Streams : t = f.id
  <2>1. c \in CommandsOf(p)
    BY SendFrameQueues DEF IInv
  <2>2. QED
    BY <2>1 DEF CommandsOf, FramesOf, AnyFrame
<1>1. /\ UNCHANGED <<chunks, up, opener, acceptor, wrote, got, closed, owed,
                     mux, sessions, sent, auth, under>>
      /\ pending' = IF c.then = "pend" THEN pending \cup {t} ELSE pending
      /\ c.then = "register" => /\ registered' = [registered EXCEPT ![p] = @ \cup {t}]
                                /\ pump' = [pump EXCEPT ![p][t] = "running"]
      /\ c.then # "register" => UNCHANGED <<registered, pump>>
      /\ c # Idle
  BY <1>0 DEF SendFrame, Register, readVars, muxVars
<1>2. /\ QueueInv' /\ \A q \in Peers, s \in Streams : Channel(q, s)' = Channel(q, s)
      /\ c \in CommandsOf(p)
  BY SendFrameQueues DEF IInv
<1>3. \A X : /\ Posted(p, X)' => Posted(p, X) \/ f \in X
             /\ Posted(Other(p), X)' => Posted(Other(p), X)
  BY PostedSends DEF IInv
<1>4. /\ f \in AnyFrame /\ f \in FramesOf(p) /\ f.id = t
      /\ c.then = "pend" <=> f.type = "open"
      /\ c.then = "register" <=> f.type = "ack" /\ f.n = STATUS_OK
  BY <1>0, <1>2 DEF CommandsOf, FramesOf, AnyFrame
<1>5. (f.type = "open" => p = "client") /\ (f.type = "ack" => p = "server")
  BY <1>4 DEF FramesOf, Peers
<1>6. \A s \in Streams : \A X : c # Idle /\ f \in X => Has(Channel(p, s), X)
  BY HandPasses DEF IInv
<1> HIDE DEF c, f
<1>7. /\ registered \in [Peers -> SUBSET Streams]
      /\ pump \in [Peers -> [Streams -> {"none", "running", "counting", "eof", "done"}]]
  BY DEF IInv, EndsTyped
<1>8. /\ registered' \in [Peers -> SUBSET Streams]
      /\ pump' \in [Peers -> [Streams -> {"none", "running", "counting", "eof", "done"}]]
      /\ \A q \in Peers, s \in Streams : (q = p /\ s = t /\ c.then = "register") \/
            /\ pump'[q][s] = pump[q][s]
            /\ s \in registered'[q] <=> s \in registered[q]
      /\ c.then = "register" => pump'[p][t] = "running" /\ t \in registered'[p]
  <2>1. CASE c.then = "register"
    <3>1. /\ registered' \in [Peers -> SUBSET Streams] /\ t \in registered'[p]
          /\ \A q \in Peers, s \in Streams : (q = p /\ s = t) \/
                (s \in registered'[q] <=> s \in registered[q])
      BY <1>1, <1>4, <1>7, <2>1
    <3>2. /\ pump' \in [Peers -> [Streams -> {"none", "running", "counting", "eof", "done"}]]
          /\ pump'[p][t] = "running"
          /\ \A q \in Peers, s \in Streams : (q = p /\ s = t) \/ pump'[q][s] = pump[q][s]
      BY <1>1, <1>4, <1>7, <2>1
    <3>3. QED
      BY <2>1, <3>1, <3>2
  <2>2. CASE c.then # "register"
    BY <1>1, <1>7, <2>2
  <2>3. QED
    BY <2>1, <2>2
<1>9. /\ pending' \subseteq Streams
      /\ \A s \in Streams : (s = t /\ c.then = "pend") \/ (s \in pending' <=> s \in pending)
      /\ c.then = "pend" => t \in pending'
  BY <1>1, <1>4 DEF IInv, EndsTyped
<1>10. EndsTyped'
  BY <1>1, <1>8, <1>9 DEF IInv, EndsTyped
<1>11. ASSUME NEW s \in Streams, s # t PROVE StreamInv(s)'
  <2>1. \A X \in SUBSET Mine(Telling, s) : f \notin X
    BY <1>4, <1>11 DEF Mine
  <2>2. ChannelsStay(s)
    BY <1>2, <1>3, <2>1, ThePeers, SameAlike DEF ChannelsStay
  <2>3. EndsStay(s)
    BY <1>1, <1>8, <1>9, <1>11 DEF EndsStay, DataEndsStay, RegEndsStay, OpenEndsStay, SessEndsStay
  <2>4. QED
    BY <2>2, <2>3, StreamStays DEF IInv
<1>12. StreamInv(t)'
  <2>1. (\A q \in Peers : DataInv(q, t)) /\ RegInv(t) /\ OpenInv(t) /\ SessInv(t)
    BY <1>4, ThePeers DEF IInv, StreamInv
  <2>2. SessInv(t)'
    <3>1. SessEndsStay(t)
      BY <1>1 DEF SessEndsStay
    <3>2. QED
      BY <1>2, <1>4, <2>1, <3>1, SameAlike, ThePeers, SessStays
  <2>3. ASSUME NEW q \in Peers PROVE DataInv(q, t)'
    <3>1. CASE q = p /\ c.then = "register"
      <4>1. DataOk(Channel(q, t), t, up[q], up[Other(q)], wrote[q][t], got[Other(q)][t], chunks[q],
                   "running", closed[Other(q)][t])
        BY <2>1, DataPump DEF DataInv
      <4>2. QED
        BY <1>1, <1>2, <1>4, <1>8, <3>1, <4>1 DEF DataInv
    <3>2. CASE ~(q = p /\ c.then = "register")
      <4>1. DataEndsStay(q, t)
        BY <1>1, <1>4, <1>8, <3>2 DEF DataEndsStay
      <4>2. QED
        BY <1>2, <1>4, <2>1, <4>1, SameAlike, DataStays
    <3>3. QED
      BY <3>1, <3>2
  <2>4. OpenInv(t)'
    <3>1. CASE c.then = "pend"
      <4>1. OpenOk(Channel("client", t), Channel("server", t), t, up["client"], opener[t],
                   acceptor[t], TRUE, Posted("client", Of("open", t))')
        BY <2>1, OpenPends DEF OpenInv
      <4>2. (t \in pending') = TRUE
        BY <1>9, <3>1
      <4>3. QED
        BY <1>1, <1>2, <1>4, <4>1, <4>2, ThePeers DEF OpenInv
    <3>2. CASE c.then # "pend"
      <4>1. OpenEndsStay(t)
        BY <1>1, <1>9, <1>4, <3>2 DEF OpenEndsStay
      <4>2. f \notin Of("open", t)
        BY <1>4, <3>2, Kinds
      <4>3. Posted("client", Of("open", t))' => Posted("client", Of("open", t))
        BY <1>3, <4>2, ThePeers
      <4>4. QED
        BY <1>2, <1>4, <2>1, <4>1, <4>3, SameAlike, ThePeers, OpenStays
    <3>3. QED
      BY <3>1, <3>2
  <2>5. RegInv(t)'
    <3>1. CASE c.then = "register"
      <4>1. p = "server" /\ f \in Nth("ack", t, STATUS_OK)
        BY <1>4, <1>5, <3>1, Kinds
      <4>2. Has(Channel("server", t), Nth("ack", t, STATUS_OK))
        BY <1>1, <1>4, <1>6, <4>1
      <4>3. RegOk(Channel("server", t), t, up["client"], up["server"],
                  pump["client"][t] # "none", TRUE, t \in registered["client"], TRUE,
                  closed["client"][t], closed["server"][t],
                  Posted("server", Nth("ack", t, STATUS_OK))')
        BY <2>1, <4>2, RegStarts DEF RegInv
      <4>4. /\ (t \in registered'["server"]) = TRUE /\ (pump'["server"][t] # "none") = TRUE
            /\ (t \in registered'["client"]) = (t \in registered["client"])
            /\ pump'["client"][t] = pump["client"][t]
        BY <1>4, <1>8, <3>1, <4>1, ThePeers
      <4>5. QED
        BY <1>1, <1>2, <1>4, <4>3, <4>4, ThePeers DEF RegInv
    <3>2. CASE c.then # "register"
      <4>1. RegEndsStay(t)
        BY <1>1, <1>4, <1>8, <3>2 DEF RegEndsStay
      <4>2. f \notin Nth("ack", t, STATUS_OK)
        BY <1>4, <3>2, Kinds
      <4>3. Posted("server", Nth("ack", t, STATUS_OK))' => Posted("server", Nth("ack", t, STATUS_OK))
        BY <1>3, <4>2, ThePeers
      <4>4. QED
        BY <1>2, <1>4, <2>1, <4>1, <4>3, SameAlike, ThePeers, RegStays
    <3>3. QED
      BY <3>1, <3>2
  <2>6. QED
    BY <2>2, <2>3, <2>4, <2>5, ThePeers DEF StreamInv
<1>13. QED
  BY <1>2, <1>10, <1>11, <1>12 DEF IInv

LEMMA ChannelTypedNext ==
    ASSUME NEW p \in Peers, NEW s \in Streams
    PROVE  (QueueInv => Len(Channel(p, s)) \in Nat)'
<1>1. QueueInv => Len(Channel(p, s)) \in Nat
  BY ChannelTyped
<1>2. QED
  BY <1>1, PTL

LEMMA EndRunKeeps ==
    ASSUME IInv, NEW p \in Peers, EndRun(p), UNCHANGED muxVars
    PROVE  IInv'
<1> DEFINE q == Other(p)
<1>1. /\ UNCHANGED <<chunks, acceptor, pump, wrote, got, closed, owed, mux, sessions, sent, auth, under>>
      /\ up' = [up EXCEPT ![p] = FALSE]
      /\ registered' = [registered EXCEPT ![p] = {}]
      /\ p = "client" => /\ pending' = {}
                         /\ opener' = [s \in Streams |->
                                         IF opener[s] = "waiting" THEN "err" ELSE opener[s]]
      /\ p # "client" => UNCHANGED <<pending, opener>>
  BY DEF EndRun, pumpVars, readVars, muxVars
<1>2. q \in Peers /\ q # p /\ Other(q) = p
  BY OtherPeer
<1> HIDE DEF q
<1>3. QueueInv'
  BY EndRunQueues DEF IInv
<1>4. ASSUME NEW s \in Streams
      PROVE  /\ Part(Channel(p, s), Channel(p, s)', 0)
             /\ \E k \in Nat : Part(Channel(q, s), Channel(q, s)', k)
             /\ \A o \in Peers : Len(Channel(o, s)) \in Nat /\ Len(Channel(o, s)') \in Nat
  <2>1. /\ Part(Channel(p, s), Channel(p, s)', 0)
        /\ \E k \in Nat : Part(Channel(q, s), Channel(q, s)', k)
    BY EndRunQueues DEF IInv, q
  <2>2. \A o \in Peers : Len(Channel(o, s)) \in Nat
    BY ChannelTyped DEF IInv
  <2>3. ASSUME NEW o \in Peers PROVE Len(Channel(o, s)') \in Nat
    BY <1>3, ChannelTypedNext
  <2>4. QED
    BY <2>1, <2>2, <2>3
<1>5. \A X : \A o \in Peers : Posted(o, X)' => Posted(o, X)
  BY PostedEnds DEF IInv
<1>6. EndsTyped'
  BY <1>1 DEF IInv, EndsTyped
<1>7. up'[p] = FALSE /\ up'[q] = up[q] /\ up' \in [Peers -> BOOLEAN]
  BY <1>1, <1>2 DEF IInv, QueueInv
<1>8. registered'[p] = {} /\ registered'[q] = registered[q]
  BY <1>1, <1>2 DEF IInv, EndsTyped
<1>9. ASSUME NEW s \in Streams PROVE StreamInv(s)'
  <2>1. (\A o \in Peers : DataInv(o, s)) /\ RegInv(s) /\ OpenInv(s) /\ SessInv(s)
    BY ThePeers DEF IInv, StreamInv
  <2>2. PICK k \in Nat : Part(Channel(q, s), Channel(q, s)', k)
    BY <1>4
  <2>3. /\ Part(Channel(p, s), Channel(p, s)', 0)
        /\ Len(Channel(p, s)) \in Nat /\ Len(Channel(p, s)') \in Nat
        /\ Len(Channel(q, s)) \in Nat /\ Len(Channel(q, s)') \in Nat
    BY <1>2, <1>4
  <2>4. DataInv(p, s)'
    <3>1. DataOk(Channel(p, s)', s, FALSE, up[q], wrote[p][s], got[q][s], chunks[p], pump[p][s],
                 closed[q][s])
      BY <2>1, <2>3, DataCut DEF DataInv, q
    <3>2. QED
      BY <1>1, <1>7, <3>1 DEF DataInv, q
  <2>5. DataInv(q, s)'
    <3>1. DataOk(Channel(q, s)', s, up[q], FALSE, wrote[q][s], got[p][s], chunks[q], pump[q][s],
                 closed[p][s])
      BY <1>2, <2>1, DataGone DEF DataInv
    <3>2. QED
      BY <1>1, <1>2, <1>7, <3>1 DEF DataInv
  <2>6. /\ \A X : Has(Channel(p, s)', X) => Has(Channel(p, s), X)
        /\ \A X : Once(Channel(p, s), X) => Once(Channel(p, s)', X)
        /\ \A X, Y : Led(Channel(p, s), Y, X) => Led(Channel(p, s)', Y, X)
    BY <2>3, PartKeeps
  <2>7. /\ \A X : Has(Channel(q, s)', X) => Has(Channel(q, s), X)
        /\ \A X : Once(Channel(q, s), X) => Once(Channel(q, s)', X)
    BY <2>2, <2>3, PartKeeps
  <2>8. CASE p = "server"
    <3>1. q = "client"
      BY <2>8, ThePeers DEF q
    <3>2. RegInv(s)'
      <4>1. RegOk(Channel("server", s)', s, up["client"], FALSE,
                  pump["client"][s] # "none", pump["server"][s] # "none",
                  s \in registered["client"], FALSE, closed["client"][s], closed["server"][s],
                  Posted("server", Nth("ack", s, STATUS_OK))')
        BY <2>1, <2>6, <2>8 DEF RegInv, RegOk
      <4>2. (s \in registered'["server"]) = FALSE
            /\ registered'["client"] = registered["client"]
        BY <1>8, <2>8, <3>1
      <4>3. up'["server"] = FALSE /\ up'["client"] = up["client"]
        BY <1>7, <2>8, <3>1
      <4>4. QED
        BY <1>1, <4>1, <4>2, <4>3 DEF RegInv
    <3>3. OpenInv(s)'
      <4>1. OpenOk(Channel("client", s)', Channel("server", s)', s, up["client"], opener[s],
                   acceptor[s], s \in pending, Posted("client", Of("open", s))')
        <5>1. OpenOk(Channel("client", s), Channel("server", s), s, up["client"], opener[s],
                     acceptor[s], s \in pending, Posted("client", Of("open", s)))
          BY <2>1 DEF OpenInv
        <5>2. Posted("client", Of("open", s))' => Posted("client", Of("open", s))
          BY <1>5, ThePeers
        <5>3. QED
          BY <2>6, <2>7, <2>8, <3>1, <5>1, <5>2 DEF OpenOk
      <4>2. QED
        BY <1>1, <1>7, <2>8, <3>1, <4>1 DEF OpenInv
    <3>4. SessInv(s)'
      <4>1. SessOk(Channel("client", s)', s, up["client"], FALSE, opener[s], acceptor[s], mux,
                   s \in sessions, sent[s], auth[s] = "idle", under[s])
        BY <2>1, <2>7, <3>1 DEF SessInv, SessOk
      <4>2. QED
        BY <1>1, <1>7, <2>8, <3>1, <4>1 DEF SessInv
    <3>5. QED
      BY <2>4, <2>5, <2>8, <3>1, <3>2, <3>3, <3>4 DEF StreamInv
  <2>9. CASE p = "client"
    <3>1. q = "server"
      BY <2>9, ThePeers DEF q
    <3>2. /\ opener'[s] = "idle" => opener[s] = "idle"
          /\ (s \in pending') = FALSE
      BY <1>1, <2>9
    <3>3. RegInv(s)'
      <4>1. Posted("server", Nth("ack", s, STATUS_OK))' => Posted("server", Nth("ack", s, STATUS_OK))
        BY <1>5, ThePeers
      <4>2. RegOk(Channel("server", s)', s, FALSE, up["server"],
                  pump["client"][s] # "none", pump["server"][s] # "none",
                  FALSE, s \in registered["server"], closed["client"][s], closed["server"][s],
                  Posted("server", Nth("ack", s, STATUS_OK))')
        BY <2>1, <4>1 DEF RegInv, RegOk
      <4>3. (s \in registered'["client"]) = FALSE
            /\ (s \in registered'["server"]) = (s \in registered["server"])
        BY <1>8, <2>9, <3>1
      <4>4. QED
        BY <1>1, <1>7, <2>9, <3>1, <4>2, <4>3 DEF RegInv
    <3>4. OpenInv(s)'
      <4>1. OpenOk(Channel("client", s), Channel("server", s), s, up["client"], opener[s],
                   acceptor[s], s \in pending, Posted("client", Of("open", s)))
        BY <2>1 DEF OpenInv
      <4>2. OpenOk(Channel("client", s)', Channel("server", s)', s, FALSE, opener'[s], acceptor[s],
                   FALSE, Posted("client", Of("open", s))')
        BY <2>6, <2>7, <2>9, <3>1, <3>2, <4>1 DEF OpenOk
      <4>3. QED
        BY <1>1, <1>7, <2>9, <3>2, <4>2 DEF OpenInv
    <3>5. SessInv(s)'
      <4>1. SessOk(Channel("client", s), s, up["client"], up["server"], opener[s], acceptor[s], mux,
                   s \in sessions, sent[s], auth[s] = "idle", under[s])
        BY <2>1 DEF SessInv
      <4>2. SessOk(Channel("client", s)', s, FALSE, up["server"], opener'[s], acceptor[s], mux,
                   s \in sessions, sent[s], auth[s] = "idle", under[s])
        BY <2>6, <2>9, <3>2, <4>1 DEF SessOk
      <4>3. QED
        BY <1>1, <1>7, <2>9, <3>1, <4>2 DEF SessInv
    <3>6. QED
      BY <2>4, <2>5, <2>9, <3>1, <3>3, <3>4, <3>5 DEF StreamInv
  <2>10. QED
    BY <2>8, <2>9 DEF Peers
<1>10. QED
  BY <1>3, <1>6, <1>9 DEF IInv

----------------------------------------------------------------------------
(* handle_frame. *)

LEMMA ChannelHead ==
    ASSUME QueueInv, NEW p \in Peers, NEW s \in Streams, wire[p] # <<>>
    PROVE  /\ Head(wire[p]) \in FramesOf(p) /\ Channel(p, s)[1] = Head(wire[p])
           /\ Taken(Channel(p, s), Tail(Channel(p, s)))
           /\ Len(Channel(p, s)) \in Nat /\ Len(Tail(Channel(p, s))) \in Nat
<1>1. QueueTypes(p, wire[p], frameQ[p], run[p], cmdQ[p])
  BY DEF QueueInv
<1>2. Passing(p) # <<>> /\ Passing(p)[1] = Head(wire[p])
  BY <1>1, HandlingTakes DEF Passing
<1>3. /\ Passing(p) \in Seq(FramesOf(p)) /\ Behind(p, s) \in Seq(FramesOf(p))
      /\ Channel(p, s) \in Seq(FramesOf(p)) /\ Len(Channel(p, s)) \in Nat
  BY ChannelTyped
<1>4. Channel(p, s) # <<>> /\ Channel(p, s)[1] = Head(Passing(p))
  BY <1>2, <1>3, TakenConcat DEF Channel
<1>5. Head(Passing(p)) = Passing(p)[1]
  BY <1>2, <1>3
<1>6. Taken(Channel(p, s), Tail(Channel(p, s))) /\ Tail(Channel(p, s)) \in Seq(FramesOf(p))
  BY <1>3, <1>4, TailTaken
<1>7. Head(wire[p]) \in FramesOf(p)
  BY <1>1 DEF QueueTypes
<1>8. QED
  BY <1>2, <1>3, <1>4, <1>5, <1>6, <1>7

LEMMA TakenStays ==
    ASSUME QueueInv, NEW p \in Peers, NEW r \in CommandsOf(p) \cup {Idle}, TakenOff(p, r),
           NEW s \in Streams
    PROVE  /\ Taken(Channel(Other(p), s), Channel(Other(p), s)')
           /\ Channel(Other(p), s)[1] = Head(wire[Other(p)])
           /\ \A q \in Peers : Len(Channel(q, s)) \in Nat /\ Len(Channel(q, s)') \in Nat
           /\ \A X : /\ \A q \in Peers : Posted(q, X)' => Posted(q, X)
                     /\ Head(wire[Other(p)]) \in X => Posted(Other(p), X)
           /\ \A Z : Head(wire[Other(p)]) \notin Z /\ (r = Idle \/ r.frame \notin Z)
                => \A q \in Peers : Alike(Channel(q, s), Channel(q, s)', Z)
<1>1. /\ QueueInv'
      /\ Taken(Channel(Other(p), s), Channel(Other(p), s)')
      /\ Channel(Other(p), s)[1] = Head(wire[Other(p)])
      /\ r = Idle => Channel(p, s)' = Channel(p, s)
      /\ r # Idle =>
           Grown(Channel(p, s), Channel(p, s)', r.frame, Len(wire[p] \o frameQ[p]))
  BY TakenQueues
<1>2. \A q \in Peers : Len(Channel(q, s)) \in Nat /\ Len(Channel(q, s)') \in Nat
  BY <1>1, ChannelTyped, ChannelTypedNext
<1>3. ASSUME NEW X
      PROVE  /\ \A q \in Peers : Posted(q, X)' => Posted(q, X)
             /\ Head(wire[Other(p)]) \in X => Posted(Other(p), X)
  BY OtherPeer, PostedTaken DEF TakenOff
<1>4. ASSUME NEW Z, Head(wire[Other(p)]) \notin Z, r = Idle \/ r.frame \notin Z
      PROVE  \A q \in Peers : Alike(Channel(q, s), Channel(q, s)', Z)
  <2>1. Alike(Channel(Other(p), s), Channel(Other(p), s)', Z)
    BY <1>1, <1>2, <1>4, OtherPeer, TakenAlike
  <2>2. Alike(Channel(p, s), Channel(p, s)', Z)
    <3>1. CASE r = Idle
      BY <1>1, <3>1, SameAlike
    <3>2. CASE r # Idle
      BY <1>1, <1>2, <1>4, <3>2, GrownAlike
    <3>3. QED
      BY <3>1, <3>2
  <2>3. QED
    BY <2>1, <2>2, ThePeers
<1>5. QED
  BY <1>1, <1>2, <1>3, <1>4

\* Streams that the frame taken off, and the answer, are not about.
LEMMA TakenOthers ==
    ASSUME QueueInv, NEW p \in Peers, NEW r \in CommandsOf(p) \cup {Idle}, TakenOff(p, r),
           NEW s \in Streams, Head(wire[Other(p)]) \notin Mine(Telling, s),
           r = Idle \/ r.frame \notin Mine(Telling, s)
    PROVE  ChannelsStay(s)
BY TakenStays DEF ChannelsStay

\* NoDataDropped, of the next frame that p handles.
LEMMA NextData ==
    ASSUME IInv, NEW p \in Peers, up[p], wire[Other(p)] # <<>>,
           Head(wire[Other(p)]).type = "data"
    PROVE  LET f == Head(wire[Other(p)]) IN f.id \in registered[p] /\ f.n = got[p][f.id] + 1
<1> DEFINE q == Other(p)
           f == Head(wire[q])
           t == f.id
           Q == Channel(q, t)
           R == Tail(Q)
<1>1. q \in Peers /\ q # p /\ Other(q) = p
  BY OtherPeer
<1>2. f \in FramesOf(q)
  <2>1. wire[q] \in Seq(FramesOf(q)) /\ wire[q] # <<>>
    BY <1>1 DEF IInv, QueueInv, QueueTypes
  <2>2. QED
    BY <2>1
<1>3. t \in Streams /\ f \in Nth("data", t, f.n) /\ f.n \in Nat
  BY <1>2, Kinds DEF FramesOf, AnyFrame
<1>4. Q[1] = f /\ Taken(Q, R) /\ Len(Q) \in Nat /\ Len(R) \in Nat
  BY <1>1, <1>3, ChannelHead DEF IInv
<1>5. DataInv(q, t) /\ RegInv(t)
  BY <1>1, <1>3, ThePeers DEF IInv, StreamInv
<1>6. DataOk(Q, t, up[q], TRUE, wrote[q][t], got[p][t], chunks[q], pump[q][t], closed[p][t])
  <2>1. up[p] = TRUE
    BY DEF IInv, QueueInv
  <2>2. DataOk(Q, t, up[q], up[p], wrote[q][t], got[p][t], chunks[q], pump[q][t], closed[p][t])
    BY <1>1, <1>5 DEF DataInv
  <2>3. QED
    BY <2>1, <2>2
<1> HIDE DEF R, Q, f, t
<1>7. /\ f \in Nth("data", t, got[p][t] + 1)
      /\ got[p][t] + 1 <= wrote[q][t] /\ closed[p][t] # TRUE
  <2>1. Q[1] \in Of("data", t)
    BY <1>3, <1>4, Kinds
  <2>2. /\ Q[1] \in Nth("data", t, got[p][t] + 1)
        /\ got[p][t] + 1 <= wrote[q][t] /\ closed[p][t] # TRUE
        /\ DataOk(R, t, up[q], TRUE, wrote[q][t], got[p][t] + 1, chunks[q], pump[q][t], closed[p][t])
    BY <1>4, <1>6, <2>1, DataTaken, Zenon
  <2>3. QED
    BY <1>4, <2>2
<1>8. got[p][t] \in Nat /\ pump[q][t] # "none"
  BY <1>3, <1>6, <1>7, SMTT(30) DEF DataOk
<1>9. t \in registered[p]
  <2>1. CASE p = "server"
    BY <1>5, <1>7, <1>8, <2>1, ThePeers DEF RegInv, RegOk
  <2>2. CASE p = "client"
    <3>1. \A X, Y : Led(Q, Y, X) => Q[1] \notin Y
      BY <1>4, Taking
    <3>2. ~Led(Q, Nth("data", t, f.n), Nth("ack", t, STATUS_OK))
      BY <1>3, <1>4, <3>1
    <3>3. q = "server"
      BY <2>2, ThePeers
    <3>4. QED
      BY <1>3, <1>5, <1>7, <2>2, <3>2, <3>3 DEF RegInv, RegOk, Q
  <2>3. QED
    BY <2>1, <2>2 DEF Peers
<1>10. QED
  BY <1>7, <1>9, Kinds DEF f, t

LEMMA TakenRegs ==
    ASSUME QueueInv, NEW p \in Peers, TakenOff(p, Idle), NEW s \in Streams, RegInv(s),
           Head(wire[Other(p)]) \notin Nth("ack", s, STATUS_OK)
    PROVE  RegOk(Channel("server", s)', s, up["client"], up["server"],
                 pump["client"][s] # "none", pump["server"][s] # "none",
                 s \in registered["client"], s \in registered["server"],
                 closed["client"][s], closed["server"][s],
                 Posted("server", Nth("ack", s, STATUS_OK))')
<1>1. /\ Taken(Channel(Other(p), s), Channel(Other(p), s)')
      /\ Channel(Other(p), s)[1] = Head(wire[Other(p)])
      /\ \A q \in Peers : Len(Channel(q, s)) \in Nat /\ Len(Channel(q, s)') \in Nat
      /\ \A X : \A q \in Peers : Posted(q, X)' => Posted(q, X)
  BY TakenStays
<1>2. Channel(p, s)' = Channel(p, s)
  BY TakenQueues
<1>3. Posted("server", Nth("ack", s, STATUS_OK))' => Posted("server", Nth("ack", s, STATUS_OK))
  BY <1>1, ThePeers
<1>4. CASE p = "server"
  BY <1>2, <1>3, <1>4 DEF RegInv, RegOk
<1>5. CASE p = "client"
  <2>1. /\ Taken(Channel("server", s), Channel("server", s)')
        /\ Channel("server", s)[1] \notin Nth("ack", s, STATUS_OK)
        /\ Len(Channel("server", s)) \in Nat /\ Len(Channel("server", s)') \in Nat
    BY <1>1, <1>5, ThePeers
  <2>2. QED
    BY <1>3, <2>1, RegTaken, ZenonT(40) DEF RegInv
<1>6. QED
  BY <1>4, <1>5 DEF Peers

LEMMA TakenOpens ==
    ASSUME QueueInv, NEW p \in Peers, TakenOff(p, Idle), NEW s \in Streams, OpenInv(s), SessInv(s),
           OpenEndsStay(s), SessEndsStay(s),
           Head(wire[Other(p)]) \notin Mine({"open", "ack", "authRequest"}, s)
    PROVE  OpenInv(s)' /\ SessInv(s)'
<1>1. /\ \A X : \A q \in Peers : Posted(q, X)' => Posted(q, X)
      /\ \A Z : Head(wire[Other(p)]) \notin Z
                  => \A q \in Peers : Alike(Channel(q, s), Channel(q, s)', Z)
  BY TakenStays
<1>2. /\ Mine({"open"}, s) \subseteq Mine({"open", "ack", "authRequest"}, s)
      /\ Mine({"ack"}, s) \subseteq Mine({"open", "ack", "authRequest"}, s)
      /\ Mine({"open", "authRequest"}, s) \subseteq Mine({"open", "ack", "authRequest"}, s)
  BY DEF Mine
<1>3. /\ Head(wire[Other(p)]) \notin Mine({"open"}, s) /\ Head(wire[Other(p)]) \notin Mine({"ack"}, s)
      /\ Head(wire[Other(p)]) \notin Mine({"open", "authRequest"}, s)
  BY <1>2
<1>4. OpenInv(s)'
  BY <1>1, <1>3, ThePeers, OpenStays
<1>5. SessInv(s)'
  BY <1>1, <1>3, ThePeers, SessStays
<1>6. QED
  BY <1>4, <1>5

LEMMA HandleDataKeeps ==
    ASSUME IInv, NEW p \in Peers, NEW t \in Streams, up[p], TakenOff(p, Idle),
           Head(wire[Other(p)]) \in Of("data", t), HandleData(p, t),
           UNCHANGED <<chunks, wrote, owed, muxVars>>
    PROVE  IInv'
<1> DEFINE q == Other(p)
           f == Head(wire[q])
           k == got[p][t] + 1
<1>1. /\ UNCHANGED <<chunks, up, pending, registered, opener, acceptor, pump, wrote, closed, owed,
                     mux, sessions, sent, auth, under>>
      /\ wire[q] # <<>>
      /\ f.type = "data" /\ f.id = t
  BY Kinds DEF HandleData, TakenOff, openVars, muxVars
<1>2. t \in registered[p]
  BY <1>1, NextData
<1>3. got \in [Peers -> [Streams -> Nat]] /\ k \in Nat /\ got' = [got EXCEPT ![p][t] = k]
  BY <1>2 DEF HandleData, IInv, EndsTyped
<1>4. q \in Peers /\ q # p /\ Other(q) = p
  BY OtherPeer
<1>5. QueueInv /\ QueueInv' /\ up[p] = TRUE
  BY TakenQueues DEF IInv, QueueInv
<1> HIDE DEF q, f, k
<1>6. EndsTyped'
  BY <1>1, <1>3 DEF IInv, EndsTyped
<1>7. /\ \A o \in Peers, s \in Streams : (o # p \/ s # t) => got'[o][s] = got[o][s]
      /\ got'[p][t] = k
  BY <1>3
<1>8. ASSUME NEW s \in Streams, s # t PROVE StreamInv(s)'
  <2>1. Head(wire[Other(p)]) \notin Mine(Telling, s)
    BY <1>1, <1>8 DEF Mine, f, q
  <2>2. ChannelsStay(s)
    BY <1>5, <2>1, TakenOthers
  <2>3. EndsStay(s)
    BY <1>1, <1>7, <1>8, OtherPeer
       DEF EndsStay, DataEndsStay, RegEndsStay, OpenEndsStay, SessEndsStay
  <2>4. QED
    BY <2>2, <2>3, StreamStays DEF IInv
<1>9. StreamInv(t)'
  <2>1. DataInv(q, t) /\ DataInv(p, t) /\ RegInv(t) /\ OpenInv(t) /\ SessInv(t)
    BY <1>4, ThePeers DEF IInv, StreamInv
  <2>2. DataInv(q, t)'
    <3>1. /\ Taken(Channel(q, t), Channel(q, t)') /\ Channel(q, t)[1] \in Of("data", t)
          /\ Len(Channel(q, t)) \in Nat /\ Len(Channel(q, t)') \in Nat
      BY <1>4, <1>5, TakenStays DEF q
    <3>2. DataOk(Channel(q, t), t, up[q], TRUE, wrote[q][t], got[p][t], chunks[q], pump[q][t],
                 closed[p][t])
      BY <1>4, <1>5, <2>1 DEF DataInv
    <3>3. DataOk(Channel(q, t)', t, up[q], TRUE, wrote[q][t], got[p][t] + 1, chunks[q], pump[q][t],
                 closed[p][t])
      BY <3>1, <3>2, DataTaken, Zenon
    <3>4. QED
      BY <1>1, <1>4, <1>5, <1>7, <3>3 DEF DataInv, k
  <2>3. DataInv(p, t)'
    <3>1. Channel(p, t)' = Channel(p, t)
      BY <1>5, TakenQueues
    <3>2. DataEndsStay(p, t)
      BY <1>1, <1>4, <1>7 DEF DataEndsStay, q
    <3>3. QED
      BY <2>1, <3>1, <3>2, SameAlike, DataStays
  <2>4. RegInv(t)'
    <3>1. Head(wire[Other(p)]) \notin Nth("ack", t, STATUS_OK)
      BY <1>1, Kinds DEF f, q
    <3>2. QED
      BY <1>1, <1>5, <2>1, <3>1, TakenRegs DEF RegInv
  <2>5. OpenInv(t)' /\ SessInv(t)'
    <3>1. Head(wire[Other(p)]) \notin Mine({"open", "ack", "authRequest"}, t)
      BY <1>1 DEF f, q, Mine
    <3>2. OpenEndsStay(t) /\ SessEndsStay(t)
      BY <1>1 DEF OpenEndsStay, SessEndsStay
    <3>3. QED
      BY <1>5, <2>1, <3>1, <3>2, TakenOpens
  <2>6. QED
    BY <1>4, <2>2, <2>3, <2>4, <2>5, ThePeers DEF StreamInv
<1>10. QED
  BY <1>5, <1>6, <1>8, <1>9 DEF IInv

LEMMA HandleCloseStays ==
    ASSUME IInv, NEW p \in Peers, NEW t \in Streams, up[p], TakenOff(p, Idle),
           Head(wire[Other(p)]) \in Of("close", t), HandleClose(p, t),
           UNCHANGED <<chunks, wrote, owed, muxVars>>
    PROVE  IInv'
<1> DEFINE q == Other(p)
           f == Head(wire[q])
<1>1. /\ UNCHANGED <<chunks, up, pending, opener, acceptor, pump, wrote, got, owed,
                     mux, sessions, sent, auth, under>>
      /\ registered' = [registered EXCEPT ![p] = @ \ {t}]
      /\ closed' = [closed EXCEPT ![p][t] = TRUE]
      /\ f.type = "close" /\ f.id = t
  BY Kinds DEF HandleClose, TakenOff, openVars, muxVars
<1>2. q \in Peers /\ q # p /\ Other(q) = p
  BY OtherPeer
<1>3. QueueInv /\ QueueInv' /\ up[p] = TRUE
  BY TakenQueues DEF IInv, QueueInv
<1> HIDE DEF q, f
<1>4. EndsTyped'
  BY <1>1 DEF IInv, EndsTyped
<1>5. /\ \A o \in Peers, s \in Streams : (o # p \/ s # t) => closed'[o][s] = closed[o][s]
      /\ closed'[p][t] = TRUE
  BY <1>1 DEF IInv, EndsTyped
<1>6. /\ \A o \in Peers, s \in Streams :
           (o # p \/ s # t) => (s \in registered'[o]) = (s \in registered[o])
      /\ (t \in registered'[p]) = FALSE
  BY <1>1 DEF IInv, EndsTyped
<1>7. ASSUME NEW s \in Streams, s # t PROVE StreamInv(s)'
  <2>1. Head(wire[Other(p)]) \notin Mine(Telling, s)
    BY <1>1, <1>7 DEF Mine, f, q
  <2>2. ChannelsStay(s)
    BY <1>3, <2>1, TakenOthers
  <2>3. EndsStay(s)
    BY <1>1, <1>5, <1>6, <1>7, OtherPeer
       DEF EndsStay, DataEndsStay, RegEndsStay, OpenEndsStay, SessEndsStay
  <2>4. QED
    BY <2>2, <2>3, StreamStays DEF IInv
<1>8. StreamInv(t)'
  <2>1. DataInv(q, t) /\ DataInv(p, t) /\ RegInv(t) /\ OpenInv(t) /\ SessInv(t)
    BY <1>2, ThePeers DEF IInv, StreamInv
  <2>2. DataInv(q, t)'
    <3>1. /\ Taken(Channel(q, t), Channel(q, t)') /\ Channel(q, t)[1] \in Of("close", t)
          /\ Len(Channel(q, t)) \in Nat /\ Len(Channel(q, t)') \in Nat
      BY <1>2, <1>3, TakenStays DEF q
    <3>2. DataOk(Channel(q, t), t, up[q], TRUE, wrote[q][t], got[p][t], chunks[q], pump[q][t],
                 closed[p][t])
      BY <1>2, <1>3, <2>1 DEF DataInv
    <3>3. DataOk(Channel(q, t)', t, up[q], TRUE, wrote[q][t], got[p][t], chunks[q], pump[q][t],
                 TRUE)
      BY <3>1, <3>2, CloseTaken, Zenon
    <3>4. QED
      BY <1>1, <1>2, <1>3, <1>5, <3>3 DEF DataInv
  <2>3. DataInv(p, t)'
    <3>1. Channel(p, t)' = Channel(p, t)
      BY <1>3, TakenQueues
    <3>2. DataEndsStay(p, t)
      BY <1>1, <1>2, <1>5 DEF DataEndsStay, q
    <3>3. QED
      BY <2>1, <3>1, <3>2, SameAlike, DataStays
  <2>4. RegInv(t)'
    <3>1. Head(wire[Other(p)]) \notin Nth("ack", t, STATUS_OK)
      BY <1>1, Kinds DEF f, q
    <3>2. RegOk(Channel("server", t)', t, up["client"], up["server"],
                pump["client"][t] # "none", pump["server"][t] # "none",
                t \in registered["client"], t \in registered["server"],
                closed["client"][t], closed["server"][t],
                Posted("server", Nth("ack", t, STATUS_OK))')
      BY <1>3, <2>1, <3>1, TakenRegs
    <3>3. CASE p = "server"
      BY <1>1, <1>5, <1>6, <3>2, <3>3, ThePeers DEF RegInv, RegOk
    <3>4. CASE p = "client"
      BY <1>1, <1>5, <1>6, <3>2, <3>4, ThePeers DEF RegInv, RegOk
    <3>5. QED
      BY <3>3, <3>4 DEF Peers
  <2>5. OpenInv(t)' /\ SessInv(t)'
    <3>1. Head(wire[Other(p)]) \notin Mine({"open", "ack", "authRequest"}, t)
      BY <1>1 DEF f, q, Mine
    <3>2. OpenEndsStay(t) /\ SessEndsStay(t)
      BY <1>1 DEF OpenEndsStay, SessEndsStay
    <3>3. QED
      BY <1>3, <2>1, <3>1, <3>2, TakenOpens
  <2>6. QED
    BY <1>2, <2>2, <2>3, <2>4, <2>5, ThePeers DEF StreamInv
<1>9. QED
  BY <1>3, <1>4, <1>7, <1>8 DEF IInv

\* Frames that no invariant is about: credit, datagrams, and the answer to an
\* authentication.
LEMMA HandleCalmKeeps ==
    ASSUME IInv, NEW p \in Peers, TakenOff(p, Idle),
           Head(wire[Other(p)]).type \in {"credit", "authResponse", "datagram"},
           EndsTyped', \A s \in Streams : EndsStay(s)
    PROVE  IInv'
<1>1. QueueInv /\ QueueInv'
  BY TakenQueues DEF IInv
<1>2. ASSUME NEW s \in Streams PROVE StreamInv(s)'
  <2>1. Head(wire[Other(p)]) \notin Mine(Telling, s)
    BY DEF Mine, Telling
  <2>2. ChannelsStay(s)
    BY <1>1, <2>1, TakenOthers
  <2>3. QED
    BY <2>2, StreamStays DEF IInv
<1>3. QED
  BY <1>1, <1>2 DEF IInv

LEMMA TakenDatas ==
    ASSUME QueueInv, NEW p \in Peers, NEW r \in CommandsOf(p) \cup {Idle}, TakenOff(p, r),
           NEW o \in Peers, NEW s \in Streams, DataInv(o, s), DataEndsStay(o, s),
           Head(wire[Other(p)]) \notin Mine({"data", "close"}, s),
           r = Idle \/ r.frame \notin Mine({"data", "close"}, s)
    PROVE  DataInv(o, s)'
<1>1. Alike(Channel(o, s), Channel(o, s)', Mine({"data", "close"}, s))
  BY TakenStays
<1>2. QED
  BY <1>1, DataStays

LEMMA HandleOpenKeeps ==
    ASSUME IInv, NEW p \in Peers, NEW t \in Streams, TakenOff(p, Idle),
           Head(wire[Other(p)]) \in Of("open", t), HandleOpen(p, t), mux => t \in sessions,
           UNCHANGED <<chunks, outQ, wrote, owed, closed, muxVars>>
    PROVE  IInv'
<1> DEFINE f == Head(wire[Other(p)])
<1>1. /\ UNCHANGED <<chunks, up, pending, opener, registered, pump, wrote, got, closed, owed,
                     mux, sessions, sent, auth, under>>
      /\ acceptor' = [acceptor EXCEPT ![t] = "event"]
      /\ f.type = "open" /\ f.id = t
  BY Kinds DEF HandleOpen, TakenOff, muxVars
<1>2. QueueInv /\ QueueInv' /\ f \in FramesOf(Other(p))
  BY TakenQueues DEF IInv
<1>3. p = "server"
  BY <1>1, <1>2 DEF FramesOf, Peers, Other
<1>4. EndsTyped'
  BY <1>1 DEF IInv, EndsTyped
<1>5. /\ \A s \in Streams : s # t => acceptor'[s] = acceptor[s]
      /\ acceptor'[t] = "event"
  BY <1>1 DEF IInv, EndsTyped
<1> HIDE DEF f
<1>6. ASSUME NEW s \in Streams, s # t PROVE StreamInv(s)'
  <2>1. Head(wire[Other(p)]) \notin Mine(Telling, s)
    BY <1>1, <1>6 DEF Mine, f
  <2>2. ChannelsStay(s)
    BY <1>2, <2>1, TakenOthers
  <2>3. EndsStay(s)
    BY <1>1, <1>5, <1>6, OtherPeer
       DEF EndsStay, DataEndsStay, RegEndsStay, OpenEndsStay, SessEndsStay
  <2>4. QED
    BY <2>2, <2>3, StreamStays DEF IInv
<1>7. StreamInv(t)'
  <2>1. /\ DataInv("client", t) /\ DataInv("server", t)
        /\ RegInv(t) /\ OpenInv(t) /\ SessInv(t)
    BY DEF IInv, StreamInv
  <2>2. /\ Taken(Channel("client", t), Channel("client", t)')
        /\ Channel("client", t)[1] \in Of("open", t)
        /\ Len(Channel("client", t)) \in Nat /\ Len(Channel("client", t)') \in Nat
        /\ Posted("client", Of("open", t)) = TRUE
        /\ Channel("server", t)' = Channel("server", t)
    <3>1. "client" \in Peers /\ Other(p) = "client"
      BY <1>3, ThePeers
    <3>2. /\ Taken(Channel("client", t), Channel("client", t)')
          /\ Channel("client", t)[1] = Head(wire["client"])
          /\ Len(Channel("client", t)) \in Nat /\ Len(Channel("client", t)') \in Nat
      BY <1>2, <3>1, TakenStays
    <3>3. Posted("client", Of("open", t))
      BY <1>2, <3>1, TakenStays
    <3>4. Channel(p, t)' = Channel(p, t)
      BY <1>2, TakenQueues
    <3>5. QED
      BY <1>3, <3>1, <3>2, <3>3, <3>4
  <2>3. DataInv("client", t)' /\ DataInv("server", t)'
    <3>1. f \notin Mine({"data", "close"}, t)
      BY <1>1 DEF Mine
    <3>2. DataEndsStay("client", t) /\ DataEndsStay("server", t)
      BY <1>1 DEF DataEndsStay
    <3>3. QED
      BY <1>2, <2>1, <3>1, <3>2, ThePeers, TakenDatas DEF f
  <2>4. RegInv(t)'
    <3>1. f \notin Nth("ack", t, STATUS_OK)
      BY <1>1, Kinds
    <3>2. QED
      BY <1>1, <1>2, <2>1, <3>1, TakenRegs DEF RegInv, f
  <2>5. /\ OpenOk(Channel("client", t)', Channel("server", t), t, up["client"], opener[t], "event",
                  t \in pending, Posted("client", Of("open", t))')
        /\ acceptor[t] = "none" /\ opener[t] # "idle"
    <3>1. OpenOk(Channel("client", t), Channel("server", t), t, up["client"], opener[t],
                 acceptor[t], t \in pending, TRUE)
      BY <2>1, <2>2 DEF OpenInv
    <3>2. OpenOk(Channel("client", t)', Channel("server", t), t, up["client"], opener[t], "event",
                 t \in pending, Posted("client", Of("open", t))')
      <4>1. \A y : OpenOk(Channel("client", t)', Channel("server", t), t, up["client"], opener[t],
                          "event", t \in pending, y)
        BY <2>2, <3>1, OpenTaken, Zenon
      <4>2. QED
        BY <4>1, Zenon
    <3>3. Has(Channel("client", t), Of("open", t))
      BY <2>2, Taking
    <3>4. QED
      BY <3>1, <3>2, <3>3 DEF OpenOk
  <2>6. OpenInv(t)'
    BY <1>1, <1>5, <2>2, <2>5 DEF OpenInv
  <2>7. SessInv(t)'
    <3>1. SessOk(Channel("client", t), t, up["client"], up["server"], opener[t], "none", mux,
                 t \in sessions, sent[t], auth[t] = "idle", under[t])
      BY <2>1, <2>5 DEF SessInv
    <3>2. SessOk(Channel("client", t)', t, up["client"], up["server"], opener[t], "event", mux,
                 t \in sessions, sent[t], auth[t] = "idle", under[t])
      BY <2>2, <3>1, SessPassed, Zenon
    <3>3. QED
      BY <1>1, <1>5, <3>2 DEF SessInv
  <2>8. QED
    BY <2>3, <2>4, <2>6, <2>7 DEF StreamInv
<1>8. QED
  BY <1>2, <1>4, <1>6, <1>7 DEF IInv

LEMMA HandleAckKeeps ==
    ASSUME IInv, NEW p \in Peers, NEW t \in Streams, up[p], TakenOff(p, Idle),
           Head(wire[Other(p)]) \in Of("ack", t), HandleAck(p, t, Head(wire[Other(p)]).n),
           UNCHANGED <<chunks, outQ, wrote, owed, muxVars>>
    PROVE  IInv'
<1> DEFINE f == Head(wire[Other(p)])
<1>1. f.type = "ack" /\ f.id = t /\ f \in AnyFrame
  BY Kinds
<1>2. QueueInv /\ QueueInv' /\ f \in FramesOf(Other(p))
  BY TakenQueues DEF IInv
<1>3. p = "client" /\ Other(p) = "server" /\ up["client"] = TRUE
  BY <1>1, <1>2 DEF FramesOf, Peers, Other, QueueInv
<1>4. /\ Taken(Channel("server", t), Channel("server", t)')
      /\ Channel("server", t)[1] = f
      /\ Len(Channel("server", t)) \in Nat /\ Len(Channel("server", t)') \in Nat
      /\ Channel("client", t)' = Channel("client", t)
      /\ \A X : Posted("client", X)' => Posted("client", X)
      /\ \A X : f \in X => Posted("server", X)
  <2>1. /\ Taken(Channel(Other(p), t), Channel(Other(p), t)')
        /\ Channel(Other(p), t)[1] = f
        /\ \A q \in Peers : Len(Channel(q, t)) \in Nat /\ Len(Channel(q, t)') \in Nat
        /\ \A X : /\ \A q \in Peers : Posted(q, X)' => Posted(q, X)
                  /\ f \in X => Posted(Other(p), X)
    BY <1>2, TakenStays
  <2>2. Channel(p, t)' = Channel(p, t)
    BY <1>2, TakenQueues
  <2>3. QED
    BY <1>3, <2>1, <2>2, ThePeers
<1>5. /\ DataInv("client", t) /\ DataInv("server", t)
      /\ RegInv(t) /\ OpenInv(t) /\ SessInv(t)
  BY DEF IInv, StreamInv
<1>6. t \in pending
  <2>1. Has(Channel("server", t), Of("ack", t))
    BY <1>4, Taking
  <2>2. QED
    BY <1>3, <1>5, <2>1 DEF OpenInv, OpenOk
<1>7. /\ UNCHANGED <<chunks, up, acceptor, wrote, got, closed, owed, mux, sessions, sent, auth, under>>
      /\ pending' = pending \ {t}
      /\ f.n = STATUS_OK => /\ registered' = [registered EXCEPT !["client"] = @ \cup {t}]
                            /\ pump' = [pump EXCEPT !["client"][t] = "running"]
                            /\ opener' = [opener EXCEPT ![t] = "ok"]
      /\ f.n # STATUS_OK => /\ UNCHANGED <<registered, pump>>
                            /\ opener' = [opener EXCEPT ![t] = "err"]
  BY <1>3, <1>6 DEF HandleAck, Register, TakenOff, muxVars
<1> HIDE DEF f
<1>8. /\ registered' \in [Peers -> SUBSET Streams]
      /\ pump' \in [Peers -> [Streams -> {"none", "running", "counting", "eof", "done"}]]
      /\ opener' \in [Streams -> {"idle", "waiting", "ok", "err"}]
      /\ \A o \in Peers, s \in Streams : (o # "client" \/ s # t) =>
           /\ (s \in registered'[o]) = (s \in registered[o])
           /\ pump'[o][s] = pump[o][s]
      /\ \A s \in Streams : s # t => opener'[s] = opener[s]
      /\ opener'[t] \in {"ok", "err"}
      /\ f.n = STATUS_OK => (t \in registered'["client"]) = TRUE /\ pump'["client"][t] = "running"
  <2>1. /\ registered \in [Peers -> SUBSET Streams]
        /\ pump \in [Peers -> [Streams -> {"none", "running", "counting", "eof", "done"}]]
        /\ opener \in [Streams -> {"idle", "waiting", "ok", "err"}]
        /\ "client" \in Peers
    BY ThePeers DEF IInv, EndsTyped
  <2>2. CASE f.n = STATUS_OK
    BY <1>7, <2>1, <2>2
  <2>3. CASE f.n # STATUS_OK
    BY <1>7, <2>1, <2>3
  <2>4. QED
    BY <2>2, <2>3
<1>9. /\ \A s \in Streams : s # t => (s \in pending') = (s \in pending)
      /\ (t \in pending') = FALSE
  BY <1>7
<1>10. EndsTyped'
  BY <1>7, <1>8 DEF IInv, EndsTyped
<1>11. ASSUME NEW s \in Streams, s # t PROVE StreamInv(s)'
  <2>1. Head(wire[Other(p)]) \notin Mine(Telling, s)
    BY <1>1, <1>11 DEF Mine, f
  <2>2. ChannelsStay(s)
    BY <1>2, <2>1, TakenOthers
  <2>3. EndsStay(s)
    BY <1>7, <1>8, <1>9, <1>11, OtherPeer
       DEF EndsStay, DataEndsStay, RegEndsStay, OpenEndsStay, SessEndsStay
  <2>4. QED
    BY <2>2, <2>3, StreamStays DEF IInv
<1>12. StreamInv(t)'
  <2>1. DataInv("server", t)'
    <3>1. f \notin Mine({"data", "close"}, t)
      BY <1>1 DEF Mine
    <3>2. DataEndsStay("server", t)
      BY <1>7, <1>8, ThePeers DEF DataEndsStay
    <3>3. QED
      BY <1>2, <1>5, <3>1, <3>2, ThePeers, TakenDatas DEF f
  <2>2. DataInv("client", t)'
    <3>1. CASE f.n = STATUS_OK
      <4>1. DataOk(Channel("client", t), t, up["client"], up["server"], wrote["client"][t],
                   got["server"][t], chunks["client"], "running", closed["server"][t])
        BY <1>5, ThePeers, DataPump DEF DataInv
      <4>2. QED
        BY <1>4, <1>7, <1>8, <3>1, <4>1, ThePeers DEF DataInv
    <3>2. CASE f.n # STATUS_OK
      <4>1. DataEndsStay("client", t)
        BY <1>7, <3>2 DEF DataEndsStay
      <4>2. QED
        BY <1>4, <1>5, <4>1, SameAlike, ThePeers, DataStays
    <3>3. QED
      BY <3>1, <3>2
  <2>3. RegInv(t)'
    <3>1. CASE f.n = STATUS_OK
      <4>1. f \in Nth("ack", t, STATUS_OK)
        BY <1>1, <3>1, Kinds
      <4>2. Posted("server", Nth("ack", t, STATUS_OK))
        BY <1>4, <4>1
      <4>3. RegOk(Channel("server", t)', t, up["client"], up["server"],
                  TRUE, pump["server"][t] # "none", TRUE, t \in registered["server"],
                  closed["client"][t], closed["server"][t],
                  Posted("server", Nth("ack", t, STATUS_OK))')
        BY <1>5, <4>2 DEF RegInv, RegOk
      <4>4. /\ pump'["server"][t] = pump["server"][t]
            /\ (t \in registered'["server"]) = (t \in registered["server"])
            /\ (pump'["client"][t] # "none") = TRUE /\ (t \in registered'["client"]) = TRUE
        BY <1>8, <3>1, ThePeers
      <4>5. QED
        BY <1>7, <4>3, <4>4 DEF RegInv
    <3>2. CASE f.n # STATUS_OK
      <4>1. f \notin Nth("ack", t, STATUS_OK)
        BY <3>2, Kinds
      <4>2. QED
        BY <1>2, <1>5, <1>7, <3>2, <4>1, TakenRegs DEF RegInv, f
    <3>3. QED
      BY <3>1, <3>2
  <2>4. OpenInv(t)'
    <3>1. /\ Posted("client", Of("open", t)) => Has(Channel("client", t), Of("open", t))
          /\ Posted("client", Of("open", t))' => Posted("client", Of("open", t))
      BY <1>2, <1>4, ThePeers, PostedPasses
    <3>2. OpenOk(Channel("client", t), Channel("server", t), t, up["client"], opener[t],
                 acceptor[t], t \in pending, Posted("client", Of("open", t)))
      BY <1>5 DEF OpenInv
    <3>3. opener'[t] # "idle"
      BY <1>8
    <3>4. OpenOk(Channel("client", t), Channel("server", t)', t, up["client"], opener'[t],
                 acceptor[t], FALSE, Posted("client", Of("open", t))')
      <4>1. /\ Has(Channel("server", t), Of("ack", t))
            /\ ~Has(Channel("server", t)', Of("ack", t))
            /\ Once(Channel("server", t)', Of("ack", t))
        <5>1. Channel("server", t)[1] \in Of("ack", t)
          BY <1>1, <1>4, Kinds
        <5>2. Once(Channel("server", t), Of("ack", t))
          BY <3>2 DEF OpenOk
        <5>3. QED
          BY <1>4, <5>1, <5>2, Taking
      <4>2. QED
        BY <3>1, <3>2, <3>3, <4>1 DEF OpenOk
    <3>5. QED
      BY <1>4, <1>7, <1>9, <3>4 DEF OpenInv
  <2>5. SessInv(t)'
    <3>1. SessOk(Channel("client", t), t, up["client"], up["server"], opener'[t], acceptor[t], mux,
                 t \in sessions, sent[t], auth[t] = "idle", under[t])
      BY <1>5, <1>8 DEF SessInv, SessOk
    <3>2. QED
      BY <1>4, <1>7, <3>1 DEF SessInv
  <2>6. QED
    BY <2>1, <2>2, <2>3, <2>4, <2>5 DEF StreamInv
<1>13. QED
  BY <1>2, <1>10, <1>11, <1>12 DEF IInv

LEMMA HandleAuthRequestKeeps ==
    ASSUME IInv, NEW f \in AnyFrame, HandleAuthRequest(f)
    PROVE  IInv'
<1> DEFINE r == Sending(Frame("authResponse", f.id, f.n), "none")
<1>1. PICK t \in Streams, n \in Nat : t = f.id /\ n = f.n
  BY DEF AnyFrame
<1>2. /\ UNCHANGED <<chunks, up, pending, registered, opener, acceptor, pump, wrote, got, closed,
                     owed, mux, sent, auth, under>>
      /\ sessions' = IF mux /\ n = STATUS_OK THEN sessions \cup {t} ELSE sessions
      /\ Head(wire["client"]) = f /\ f.type = "authRequest" /\ f.id = t /\ f.n = n
  BY <1>1, ThePeers DEF HandleAuthRequest, Takes, openVars, pumpVars, readVars
<1>3. r \in CommandsOf("server") /\ r.frame = Frame("authResponse", t, n)
  BY <1>1, ThePeers, Commands
<1>4. r.frame.type = "authResponse"
  BY <1>3 DEF Frame
<1>5. TakenOff("server", r)
  BY DEF HandleAuthRequest, Takes, TakenOff, pumpVars, IInv, QueueInv
<1> HIDE DEF r
<1>6. QueueInv /\ QueueInv' /\ f \in FramesOf("client")
  BY <1>2, <1>3, <1>5, ThePeers, TakenQueues DEF IInv
<1>7. EndsTyped'
  BY <1>2 DEF IInv, EndsTyped
<1>8. \A s \in Streams : s # t => (s \in sessions') = (s \in sessions)
  BY <1>2
<1>9. ASSUME NEW s \in Streams, s # t PROVE StreamInv(s)'
  <2>1. Head(wire["client"]) \notin Mine(Telling, s) /\ r.frame \notin Mine(Telling, s)
    BY <1>2, <1>4, <1>9 DEF Mine, Telling
  <2>2. ChannelsStay(s)
    BY <1>3, <1>5, <1>6, <2>1, ThePeers, TakenOthers
  <2>3. EndsStay(s)
    BY <1>2, <1>8, <1>9 DEF EndsStay, DataEndsStay, RegEndsStay, OpenEndsStay, SessEndsStay
  <2>4. QED
    BY <2>2, <2>3, StreamStays DEF IInv
<1>10. StreamInv(t)'
  <2>1. /\ DataInv("client", t) /\ DataInv("server", t)
        /\ RegInv(t) /\ OpenInv(t) /\ SessInv(t)
    BY DEF IInv, StreamInv
  <2>2. /\ Taken(Channel("client", t), Channel("client", t)')
        /\ Channel("client", t)[1] = f
        /\ Len(Channel("client", t)) \in Nat /\ Len(Channel("client", t)') \in Nat
        /\ \A X : \A q \in Peers : Posted(q, X)' => Posted(q, X)
        /\ \A Z : f \notin Z /\ r.frame \notin Z
                    => \A q \in Peers : Alike(Channel(q, t), Channel(q, t)', Z)
    BY <1>2, <1>3, <1>5, <1>6, ThePeers, TakenStays
  <2>3. /\ f \notin Mine({"data", "close"}, t) /\ r.frame \notin Mine({"data", "close"}, t)
        /\ f \notin Mine({"data", "ack"}, t) /\ r.frame \notin Mine({"data", "ack"}, t)
        /\ f \notin Mine({"open"}, t) /\ r.frame \notin Mine({"open"}, t)
        /\ f \notin Mine({"ack"}, t) /\ r.frame \notin Mine({"ack"}, t)
    BY <1>2, <1>4 DEF Mine
  <2>4. /\ DataEndsStay("client", t) /\ DataEndsStay("server", t)
        /\ RegEndsStay(t) /\ OpenEndsStay(t)
    BY <1>2 DEF DataEndsStay, RegEndsStay, OpenEndsStay
  <2>5. DataInv("client", t)' /\ DataInv("server", t)'
    BY <2>1, <2>2, <2>3, <2>4, ThePeers, DataStays
  <2>6. RegInv(t)' /\ OpenInv(t)'
    BY <2>1, <2>2, <2>3, <2>4, ThePeers, RegStays, OpenStays
  <2>7. SessInv(t)'
    <3>1. SessOk(Channel("client", t), t, up["client"], up["server"], opener[t], acceptor[t], mux,
                 t \in sessions, sent[t], auth[t] = "idle", under[t])
      BY <2>1 DEF SessInv
    <3>2. Channel("client", t)[1] \in Nth("authRequest", t, n)
      BY <1>2, <1>6, <2>2, Kinds DEF FramesOf
    <3>3. t \in sessions' <=> (mux /\ n = STATUS_OK) \/ t \in sessions
      BY <1>2
    <3>4. SessOk(Channel("client", t)', t, up["client"], up["server"], opener[t], acceptor[t], mux,
                 t \in sessions', sent[t], auth[t] = "idle", under[t])
      <4> DEFINE X == Nth("authRequest", t, STATUS_OK)
                 Y == Of("open", t)
      <4>1. Channel("client", t)[1] \in X <=> n = STATUS_OK
        BY <3>2, Kinds
      <4> HIDE DEF X, Y
      <4>2. /\ Has(Channel("client", t), X) =>
                 Channel("client", t)[1] \in X \/ Has(Channel("client", t)', X)
            /\ Has(Channel("client", t)', X) => Has(Channel("client", t), X)
            /\ Channel("client", t)[1] \in X => Has(Channel("client", t), X)
            /\ Led(Channel("client", t), Y, X) /\ Channel("client", t)[1] \notin X
                 => Led(Channel("client", t)', Y, X)
        BY <2>2, Taking
      <4>3. QED
        BY <3>1, <3>3, <4>1, <4>2 DEF SessOk, X, Y
    <3>5. QED
      BY <1>2, <3>4 DEF SessInv
  <2>8. QED
    BY <2>5, <2>6, <2>7 DEF StreamInv
<1>11. QED
  BY <1>6, <1>7, <1>9, <1>10 DEF IInv

LEMMA HandleAuthResponseKeeps ==
    ASSUME IInv, NEW f \in AnyFrame, HandleAuthResponse(f)
    PROVE  IInv'
<1>1. /\ UNCHANGED <<chunks, up, pending, registered, opener, acceptor, pump, wrote, got, closed,
                     owed, mux, sessions, sent, under>>
      /\ auth' = [auth EXCEPT ![f.id] =
                    IF @ # "waiting" THEN @ ELSE IF f.n = STATUS_OK THEN "ok" ELSE "denied"]
      /\ Head(wire[Other("client")]) = f /\ f.type = "authResponse"
  BY DEF HandleAuthResponse, Takes, openVars, pumpVars, readVars
<1>2. TakenOff("client", Idle)
  BY DEF HandleAuthResponse, Takes, TakenOff, pumpVars, IInv, QueueInv
<1>3. /\ auth' \in [Streams -> {"idle", "waiting", "ok", "denied", "err"}]
      /\ \A s \in Streams : auth'[s] = "idle" <=> auth[s] = "idle"
  BY <1>1 DEF IInv, EndsTyped
<1>4. EndsTyped'
  BY <1>1, <1>3 DEF IInv, EndsTyped
<1>5. \A s \in Streams : EndsStay(s)
  BY <1>1, <1>3 DEF EndsStay, DataEndsStay, RegEndsStay, OpenEndsStay, SessEndsStay
<1>6. QED
  BY <1>1, <1>2, <1>4, <1>5, ThePeers, HandleCalmKeeps

LEMMA RefuseOpenKeeps ==
    ASSUME IInv, NEW f \in AnyFrame, RefuseOpen(f)
    PROVE  IInv'
<1> DEFINE r == Sending(Frame("ack", f.id, STATUS_ERR), "none")
<1>1. PICK t \in Streams : t = f.id
  BY DEF AnyFrame
<1>2. /\ UNCHANGED <<chunks, up, pending, registered, opener, pump, wrote, got, closed,
                     owed, mux, sessions, sent, auth, under>>
      /\ acceptor' = [acceptor EXCEPT ![t] = "barred"]
      /\ Head(wire["client"]) = f /\ f.type = "open" /\ f.id = t
      /\ mux = TRUE /\ (t \in sessions) = FALSE /\ up["server"] = TRUE
  BY <1>1, ThePeers DEF RefuseOpen, Takes, pumpVars, readVars, muxVars, IInv, EndsTyped, QueueInv
<1>3. r \in CommandsOf("server") /\ r.frame = Frame("ack", t, STATUS_ERR)
  BY <1>1, ThePeers, Commands DEF STATUS_ERR
<1>4. r.frame.type = "ack" /\ r.frame.id = t /\ r.frame.n = STATUS_ERR /\ r # Idle
  BY <1>3, NotIdle, ThePeers DEF Frame
<1>5. TakenOff("server", r)
  BY DEF RefuseOpen, Takes, TakenOff, pumpVars, IInv, QueueInv
<1> HIDE DEF r
<1>6. QueueInv /\ QueueInv' /\ f \in FramesOf("client")
  BY <1>2, <1>3, <1>5, ThePeers, TakenQueues DEF IInv
<1>7. EndsTyped'
  BY <1>2 DEF IInv, EndsTyped
<1>8. acceptor'[t] = "barred" /\ \A s \in Streams : s # t => acceptor'[s] = acceptor[s]
  BY <1>2 DEF IInv, EndsTyped
<1>9. ASSUME NEW s \in Streams, s # t PROVE StreamInv(s)'
  <2>1. Head(wire["client"]) \notin Mine(Telling, s) /\ r.frame \notin Mine(Telling, s)
    BY <1>2, <1>4, <1>9 DEF Mine, Telling
  <2>2. ChannelsStay(s)
    BY <1>3, <1>5, <1>6, <2>1, ThePeers, TakenOthers
  <2>3. EndsStay(s)
    BY <1>2, <1>8, <1>9 DEF EndsStay, DataEndsStay, RegEndsStay, OpenEndsStay, SessEndsStay
  <2>4. QED
    BY <2>2, <2>3, StreamStays DEF IInv
<1>10. StreamInv(t)'
  <2>1. /\ DataInv("client", t) /\ DataInv("server", t)
        /\ RegInv(t) /\ OpenInv(t) /\ SessInv(t)
    BY DEF IInv, StreamInv
  <2>2. /\ Taken(Channel("client", t), Channel("client", t)')
        /\ Channel("client", t)[1] = f
        /\ \A q \in Peers : Len(Channel(q, t)) \in Nat /\ Len(Channel(q, t)') \in Nat
        /\ \A X : \A q \in Peers : Posted(q, X)' => Posted(q, X)
        /\ \A X : f \in X => Posted("client", X)
        /\ \A Z : f \notin Z /\ r.frame \notin Z
                    => \A q \in Peers : Alike(Channel(q, t), Channel(q, t)', Z)
    BY <1>2, <1>3, <1>5, <1>6, ThePeers, TakenStays
  <2>3. PICK k : Grown(Channel("server", t), Channel("server", t)', r.frame, k)
    BY <1>3, <1>4, <1>5, <1>6, ThePeers, TakenQueues
  <2>4. /\ Len(Channel("server", t)) \in Nat /\ Len(Channel("server", t)') \in Nat
        /\ Len(Channel("client", t)) \in Nat /\ Len(Channel("client", t)') \in Nat
    BY <2>2, ThePeers
  <2>5. /\ f \in Of("open", t) /\ f \notin Nth("authRequest", t, STATUS_OK)
        /\ r.frame \in Of("ack", t)
        /\ \A m : r.frame \notin Nth("data", t, m)
        /\ r.frame \notin Nth("ack", t, STATUS_OK)
    BY <1>2, <1>3, <1>4, <1>6, Kinds, ThePeers DEF FramesOf, CommandsOf, STATUS_OK, STATUS_ERR
  <2>6. DataInv("client", t)' /\ DataInv("server", t)'
    <3>1. f \notin Mine({"data", "close"}, t) /\ r.frame \notin Mine({"data", "close"}, t)
      BY <1>2, <1>4 DEF Mine
    <3>2. DataEndsStay("client", t) /\ DataEndsStay("server", t)
      BY <1>2 DEF DataEndsStay
    <3>3. QED
      BY <2>1, <2>2, <3>1, <3>2, ThePeers, DataStays
  \* What the server's channel gets.
  <2>7. /\ \A X : Has(Channel("server", t)', X) <=> Has(Channel("server", t), X) \/ r.frame \in X
        /\ \A X : Once(Channel("server", t), X) /\ (r.frame \notin X \/ ~Has(Channel("server", t), X))
                    => Once(Channel("server", t)', X)
        /\ \A X, Y : Led(Channel("server", t), Y, X) /\ r.frame \notin Y
                       => Led(Channel("server", t)', Y, X)
    BY <2>3, <2>4, Growing
  \* What the client's loses.
  <2>8. /\ \A X : Has(Channel("client", t)', X) => Has(Channel("client", t), X)
        /\ \A X : Has(Channel("client", t), X) => f \in X \/ Has(Channel("client", t)', X)
        /\ \A X : f \in X => Has(Channel("client", t), X)
        /\ \A X : Once(Channel("client", t), X) => Once(Channel("client", t)', X)
        /\ \A X : Once(Channel("client", t), X) /\ f \in X => ~Has(Channel("client", t)', X)
        /\ \A X, Y : Led(Channel("client", t), Y, X) => f \notin Y
    BY <2>2, <2>4, Taking
  <2>9. RegInv(t)'
    <3>1. /\ Has(Channel("server", t)', Nth("ack", t, STATUS_OK))
               <=> Has(Channel("server", t), Nth("ack", t, STATUS_OK))
          /\ \A m : Led(Channel("server", t), Nth("data", t, m), Nth("ack", t, STATUS_OK))
               => Led(Channel("server", t)', Nth("data", t, m), Nth("ack", t, STATUS_OK))
      BY <2>5, <2>7
    <3>2. Posted("server", Nth("ack", t, STATUS_OK))' => Posted("server", Nth("ack", t, STATUS_OK))
      BY <2>2, ThePeers
    <3>3. QED
      BY <1>2, <2>1, <3>1, <3>2 DEF RegInv, RegOk
  <2>10. /\ acceptor[t] = "none" /\ opener[t] # "idle"
         /\ up["client"] => t \in pending
    BY <2>1, <2>2, <2>5, <2>8 DEF OpenInv, OpenOk
  <2>11. OpenInv(t)'
    <3>1. /\ ~Has(Channel("client", t)', Of("open", t))
          /\ Once(Channel("client", t)', Of("open", t))
          /\ Once(Channel("server", t)', Of("ack", t))
      BY <2>1, <2>5, <2>7, <2>8, <2>10 DEF OpenInv, OpenOk
    <3>2. QED
      BY <1>2, <1>8, <2>10, <3>1 DEF OpenInv, OpenOk
  <2>12. SessInv(t)'
    <3>1. SessOk(Channel("client", t), t, up["client"], TRUE, opener[t], "none", TRUE,
                 FALSE, sent[t], auth[t] = "idle", under[t])
      BY <1>2, <2>1, <2>10 DEF SessInv
    <3>2. Has(Channel("client", t)', Nth("authRequest", t, STATUS_OK))
            <=> Has(Channel("client", t), Nth("authRequest", t, STATUS_OK))
      BY <2>5, <2>8
    <3>3. ~Led(Channel("client", t), Of("open", t), Nth("authRequest", t, STATUS_OK))
      BY <2>5, <2>8
    <3>4. SessOk(Channel("client", t)', t, up["client"], TRUE, opener[t], "barred", TRUE,
                 FALSE, sent[t], auth[t] = "idle", under[t])
      BY <3>1, <3>2, <3>3 DEF SessOk
    <3>5. QED
      BY <1>2, <1>8, <3>4 DEF SessInv
  <2>13. QED
    BY <2>6, <2>9, <2>11, <2>12 DEF StreamInv
<1>11. QED
  BY <1>6, <1>7, <1>9, <1>10 DEF IInv

LEMMA HandleOtherKeeps ==
    ASSUME IInv, NEW p \in Peers, HandleOther(p)
    PROVE  IInv'
<1> DEFINE f == Head(wire[Other(p)])
<1>1. /\ up[p] /\ TakenOff(p, Idle)
      /\ UNCHANGED <<chunks, outQ, wrote, owed, muxVars>>
  BY DEF HandleOther, HandleFrame, TakenOff, IInv, QueueInv
<1>2. f \in FramesOf(Other(p))
  BY <1>1, TakenQueues DEF IInv
<1>3. PICK t \in Streams : t = f.id
  BY <1>2 DEF FramesOf, AnyFrame
<1>4. f \in Of(f.type, t)
  BY <1>2, <1>3, Kinds DEF FramesOf
<1> HIDE DEF f
<1>5. CASE f.type = "open" /\ HandleOpen(p, t)
  <2>1. mux => t \in sessions
    BY <1>3, <1>5 DEF HandleOther, Barred, f
  <2>2. f \in Of("open", t) /\ UNCHANGED closed
    BY <1>4, <1>5 DEF HandleOpen
  <2>3. QED
    BY <1>1, <1>5, <2>1, <2>2, HandleOpenKeeps DEF f
<1>6. CASE f.type = "ack" /\ HandleAck(p, t, f.n)
  BY <1>1, <1>4, <1>6, HandleAckKeeps DEF f
<1>7. CASE f.type = "data" /\ HandleData(p, t)
  BY <1>1, <1>4, <1>7, HandleDataKeeps DEF f
<1>8. CASE f.type = "credit" /\ HandleCredit(p, t, f.n)
  <2>1. UNCHANGED <<chunks, up, pending, registered, opener, acceptor, pump, wrote, got, closed,
                    mux, sessions, sent, auth, under, owed>>
    BY <1>1, <1>8 DEF HandleCredit, TakenOff, openVars, muxVars
  <2>2. EndsTyped' /\ \A s \in Streams : EndsStay(s)
    BY <2>1, EndsSame DEF IInv, EndsTyped
  <2>3. QED
    BY <1>1, <1>8, <2>2, HandleCalmKeeps DEF f
<1>9. CASE f.type = "close" /\ HandleClose(p, t)
  BY <1>1, <1>4, <1>9, HandleCloseStays DEF f
<1>10. CASE f.type = "datagram" /\ HandleDatagram(p)
  <2>1. UNCHANGED <<chunks, up, pending, registered, opener, acceptor, pump, wrote, got, closed,
                    mux, sessions, sent, auth, under, owed>>
    BY <1>1, <1>10 DEF HandleDatagram, TakenOff, openVars, muxVars
  <2>2. EndsTyped' /\ \A s \in Streams : EndsStay(s)
    BY <2>1, EndsSame DEF IInv, EndsTyped
  <2>3. QED
    BY <1>1, <1>10, <2>2, HandleCalmKeeps DEF f
<1>11. QED
  BY <1>3, <1>5, <1>6, <1>7, <1>8, <1>9, <1>10 DEF HandleOther, HandleFrame, f

----------------------------------------------------------------------------
(* The initial states and the steps. *)

LEMMA MuxInitKeeps == MuxInit => IInv
<1> SUFFICES ASSUME MuxInit PROVE IInv
  OBVIOUS
<1>1. /\ chunks \in [Peers -> Nat]
      /\ up \in [Peers -> BOOLEAN]
      /\ pending = {} /\ registered = [p \in Peers |-> {}]
      /\ opener = [s \in Streams |-> "idle"] /\ acceptor = [s \in Streams |-> "none"]
      /\ pump = PerStream("none") /\ wrote = PerStream(0) /\ got = PerStream(0)
      /\ owed = PerStream(0) /\ closed = PerStream(FALSE) /\ outQ = PerStream(<<>>)
      /\ cmdQ = [p \in Peers |-> <<>>] /\ run = [p \in Peers |-> Idle]
      /\ frameQ = [p \in Peers |-> <<>>] /\ wire = [p \in Peers |-> <<>>]
      /\ mux \in BOOLEAN /\ sessions = {} /\ sent = [s \in Streams |-> "none"]
      /\ auth = [s \in Streams |-> "idle"] /\ under = [s \in Streams |-> FALSE]
  BY TunnelAssumption DEF MuxInit, Init
<1>2. EndsTyped
  BY <1>1 DEF EndsTyped, PerStream
<1>3. QueueInv
  <2>1. \A S : <<>> \in Seq(S)
    BY EmptySeq
  <2>2. QED
    BY <1>1, <2>1 DEF QueueInv, QueueTypes, PerStream
<1>4. ASSUME NEW p \in Peers, NEW s \in Streams
      PROVE  /\ \A X : ~Has(Channel(p, s), X)
             /\ \A X : Once(Channel(p, s), X)
             /\ \A X, Y : Led(Channel(p, s), Y, X)
             /\ \A X : ~Posted(p, X)
  <2>1. Channel(p, s) = <<>>
    <3>1. /\ wire[p] = <<>> /\ frameQ[p] = <<>> /\ InHand(run[p]) = <<>> /\ cmdQ[p] = <<>>
          /\ outQ[p][s] = <<>>
      BY <1>1 DEF PerStream, InHand
    <3>2. FramesIn(cmdQ[p]) = <<>>
      <4>1. cmdQ[p] \in Seq(CommandsOf(p)) /\ Len(cmdQ[p]) = 0
        BY <3>1, EmptySeq
      <4>2. FramesIn(cmdQ[p]) \in Seq(FramesOf(p)) /\ Len(FramesIn(cmdQ[p])) = 0
        BY <4>1, CommandFrames
      <4>3. QED
        BY <4>2, EmptySeq
    <3>3. Behind(p, s) = <<>>
      BY <3>1 DEF Behind
    <3>4. <<>> \o <<>> = <<>>
      BY ConcatEmptySeq, EmptySeq
    <3>5. QED
      BY <3>1, <3>2, <3>3, <3>4 DEF Channel, Passing, Queues
  <2>2. Len(<<>>) = 0
    OBVIOUS
  <2>3. wire[p] = <<>> /\ frameQ[p] = <<>>
    BY <1>1
  <2>4. QED
    BY <2>1, <2>2, <2>3 DEF Has, Once, Led, Posted
<1>5. ASSUME NEW s \in Streams PROVE StreamInv(s)
  <2>1. \A p \in Peers : DataInv(p, s)
    <3> SUFFICES ASSUME NEW p \in Peers PROVE DataInv(p, s)
      OBVIOUS
    <3>1. /\ wrote[p][s] = 0 /\ got[Other(p)][s] = 0 /\ pump[p][s] = "none"
          /\ closed[Other(p)][s] = FALSE /\ chunks[p] \in Nat
      BY <1>1, OtherPeer DEF PerStream
    <3>2. QED
      BY <1>4, <3>1 DEF DataInv, DataOk
  <2>2. RegInv(s)
    <3>1. pump["client"][s] = "none" /\ pump["server"][s] = "none"
      BY <1>1, ThePeers DEF PerStream
    <3>2. QED
      BY <1>4, <3>1, ThePeers DEF RegInv, RegOk
  <2>3. OpenInv(s)
    <3>1. opener[s] = "idle" /\ acceptor[s] = "none"
      BY <1>1
    <3>2. QED
      BY <1>4, <3>1, ThePeers DEF OpenInv, OpenOk
  <2>4. SessInv(s)
    <3>1. opener[s] = "idle" /\ acceptor[s] = "none" /\ s \notin sessions /\ sent[s] = "none"
          /\ under[s] = FALSE
      BY <1>1
    <3>2. QED
      BY <1>4, <3>1, ThePeers DEF SessInv, SessOk
  <2>5. QED
    BY <2>1, <2>2, <2>3, <2>4, ThePeers DEF StreamInv
<1>6. QED
  BY <1>2, <1>3, <1>5 DEF IInv

LEMMA MuxStepKeeps == IInv /\ [MuxNext]_muxTunnelVars => IInv'
<1> SUFFICES ASSUME IInv, [MuxNext]_muxTunnelVars PROVE IInv'
  OBVIOUS
<1>1. ASSUME NEW s \in Streams, Authenticate(s, "good") \/ Authenticate(s, "bad") PROVE IInv'
  BY <1>1, AuthenticateKeeps
<1>2. ASSUME NEW s \in Streams, AuthenticateFails(s) PROVE IInv'
  BY <1>2, AuthenticateFailsKeeps
<1>3. ASSUME NEW s \in Streams, OpenSession(s) PROVE IInv'
  BY <1>3, OpenSessionKeeps
<1>4. ASSUME NEW s \in Streams, OpenFails(s), UNCHANGED muxVars PROVE IInv'
  BY <1>4, OpenFailsKeeps
<1>5. ASSUME NEW s \in Streams, ReplyOpen(s), UNCHANGED muxVars PROVE IInv'
  BY <1>5, ReplyOpenKeeps
<1>15. ASSUME NEW s \in Streams, TakeEvent(s), UNCHANGED muxVars PROVE IInv'
  BY <1>15, TakeEventKeeps
<1>16. ASSUME NEW p \in Peers, TakeDatagram(p), UNCHANGED muxVars PROVE IInv'
  BY <1>16, TakeDatagramKeeps
<1>17. ASSUME NEW p \in Peers, NEW s \in Streams, SendDatagram(p, s), UNCHANGED muxVars PROVE IInv'
  BY <1>17, SendDatagramKeeps
<1>6. ASSUME NEW p \in Peers, TakeCmd(p), UNCHANGED muxVars PROVE IInv'
  BY <1>6, TakeCmdKeeps
<1>7. ASSUME NEW p \in Peers, SendFrame(p), UNCHANGED muxVars PROVE IInv'
  BY <1>7, SendFrameKeeps
<1>8. ASSUME NEW p \in Peers, NoticeLoss(p) \/ LoseConnection(p), UNCHANGED muxVars PROVE IInv'
  BY <1>8, EndRunKeeps DEF NoticeLoss, LoseConnection
<1>9. ASSUME NEW p \in Peers, HandleOther(p) PROVE IInv'
  BY <1>9, HandleOtherKeeps
<1>10. ASSUME NEW p \in Peers, HandleSessions(p) PROVE IInv'
  <2>1. wire[Other(p)] # <<>> /\ Other(p) \in Peers
    BY <1>10, OtherPeer DEF HandleSessions
  <2>2. wire[Other(p)] \in Seq(FramesOf(Other(p)))
    BY <2>1 DEF IInv, QueueInv, QueueTypes
  <2>3. PICK f \in AnyFrame : f = Head(wire[Other(p)])
    BY <2>1, <2>2 DEF FramesOf
  <2>4. HandleAuthRequest(f) \/ RefuseOpen(f) \/ HandleAuthResponse(f)
    BY <1>10, <2>3 DEF HandleSessions
  <2>5. QED
    BY <2>4, HandleAuthRequestKeeps, RefuseOpenKeeps, HandleAuthResponseKeeps
<1>11. ASSUME NEW p \in Peers, Write(p), UNCHANGED muxVars PROVE IInv'
  BY <1>11, WriteKeeps
<1>12. ASSUME NEW p \in Peers, NEW s \in Streams, StreamStep(p, s), UNCHANGED muxVars PROVE IInv'
  BY <1>12, PumpDataKeeps, PumpCountKeeps, ForwardDataKeeps, PumpEofKeeps, PumpCloseKeeps, PumpStopsKeeps,
     AppReadKeeps DEF StreamStep
<1>13. CASE UNCHANGED muxTunnelVars
  <2>1. /\ UNCHANGED <<chunks, up, pending, registered, opener, acceptor, pump, wrote, got, closed,
                       mux, sessions, sent, auth, under, owed>>
        /\ UNCHANGED <<wire, frameQ, run, outQ, cmdQ>>
    BY <1>13 DEF muxTunnelVars, vars, muxVars
  <2>2. QueueInv' /\ \A q \in Peers, s \in Streams : Channel(q, s)' = Channel(q, s)
    BY <2>1, QueuesStay DEF IInv
  <2>3. \A s \in Streams : ChannelsStay(s)
    BY <2>1, <2>2, PostedStays, SameStay
  <2>4. EndsTyped' /\ \A s \in Streams : EndsStay(s)
    BY <2>1, EndsSame DEF IInv, EndsTyped
  <2>5. QED
    BY <2>2, <2>3, <2>4, StreamStays DEF IInv
<1>14. QED
  BY <1>1, <1>2, <1>3, <1>4, <1>5, <1>6, <1>7, <1>8, <1>9, <1>10, <1>11, <1>12, <1>13,
     <1>15, <1>16, <1>17
     DEF MuxNext, MuxRunStep

----------------------------------------------------------------------------
\* IInv is an inductive invariant of a tunnel with sessions: the ends of every
\* stream and what the channels between them carry fit together at each step of
\* the tasks of ws.rs.
THEOREM MuxInvariant == MuxSpec => []IInv
BY MuxInitKeeps, MuxStepKeeps, PTL DEF MuxSpec

\* The next frame a live peer handles is never data of a stream it has not
\* registered, and data comes in order (FRAME_STREAM_DATA in handle_frame): for
\* any number of streams, any amount of data and queues of any size.
THEOREM DataIsNotDropped == MuxSpec => []NoDataDropped
<1>1. IInv => NoDataDropped
  BY NextData DEF NoDataDropped
<1>2. QED
  BY <1>1, MuxInvariant, PTL

\* STREAM_CLOSE, which pump_stream sends when the forwarder has returned, never
\* overtakes data on its way through the queues.
THEOREM CloseFollowsData == MuxSpec => []CloseAfterData
<1>1. IInv => CloseAfterData
  <2> SUFFICES ASSUME IInv, NEW p \in Peers, NEW s \in Streams, closed[p][s]
               PROVE  got[p][s] = chunks[Other(p)]
    BY DEF CloseAfterData
  <2>1. DataInv(Other(p), s) /\ Other(Other(p)) = p
    BY OtherPeer, ThePeers DEF IInv, StreamInv
  <2>2. QED
    BY <2>1 DEF DataInv, DataOk
<1>2. QED
  BY <1>1, MuxInvariant, PTL

\* In MUX mode handle_frame passes on the opens of authenticated ids only, and bars
\* no stream whose good request was queued before its open.
THEOREM MuxIsEnforced == MuxSpec => []MuxEnforced
<1>1. IInv => MuxEnforced
  BY DEF IInv, StreamInv, SessInv, SessOk, MuxEnforced
<1>2. QED
  BY <1>1, MuxInvariant, PTL
=============================================================================
