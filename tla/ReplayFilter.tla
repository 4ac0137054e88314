---------------------------- MODULE ReplayFilter ----------------------------
(***************************************************************************)
(* The anti-replay window of the obfuscation layer                         *)
(* (crates/hydr-core/src/obfuscation.rs).  The sender numbers its packets  *)
(* with send_seq; ReplayFilter::observe decides, under its mutex, which    *)
(* packets the receiver accepts.  The network may lose, repeat and reorder *)
(* what was sent.  Salt, key stream and tag are not modelled: a packet is  *)
(* its sequence number.                                                    *)
(***************************************************************************)
EXTENDS Integers, FiniteSets

CONSTANTS
    Window,   \* FilterInner.window (1 << 16 in Obfuscator::new)
    MaxSeq    \* bound: the sender sends at most MaxSeq packets

ASSUME ReplayAssumption == Window \in Nat \ {0} /\ MaxSeq \in Nat

VARIABLES
    send_seq,   \* Obfuscator.send_seq
    last,       \* highest sequence number accepted
    floor,      \* below it everything is refused
    seen,       \* accepted sequence numbers that are still remembered
    accepted,   \* history: how often each packet was accepted
    dropped     \* history: packets refused without ever having been accepted

filterVars == <<send_seq, last, floor, seen, accepted, dropped>>

Seqs == 0..(MaxSeq - 1)

FilterInit ==
    /\ send_seq = 0
    /\ last = 0
    /\ floor = 0
    /\ seen = {}
    /\ accepted = [s \in Seqs |-> 0]
    /\ dropped = {}

\* Obfuscator::encrypt: send_seq.fetch_add(1).
Encrypt ==
    /\ send_seq < MaxSeq
    /\ send_seq' = send_seq + 1
    /\ UNCHANGED <<last, floor, seen, accepted, dropped>>

\* The tests of observe, and a mutant that refuses the floor itself.
FreshAboveFloor(seq) == seq > floor /\ seq \notin seen
Fresh(seq) == seq >= floor /\ seq \notin seen

\* last.saturating_sub(window).
FloorFor(top) == IF top > Window THEN top - Window ELSE 0

\* The retain that keeps seen small; mutants that also forget the floor, and
\* that never forget.
PurgedAboveFloor(set, min) == {x \in set : x > min}
PurgedNever(set, min) == set
Purged(set, min) == {x \in set : x >= min}

\* observe(seq) of a packet that was sent, and returns true.
AcceptPacket(seq) ==
    /\ seq < send_seq
    /\ Fresh(seq)
    /\ last' = IF seq > last THEN seq ELSE last
    /\ floor' = IF seq > last THEN FloorFor(seq) ELSE floor
    /\ LET grown == seen \cup {seq} IN
         seen' = IF Cardinality(grown) > 2 * Window THEN Purged(grown, floor') ELSE grown
    /\ accepted' = [accepted EXCEPT ![seq] = @ + 1]
    /\ UNCHANGED <<send_seq, dropped>>

\* observe(seq) returns false: the filter does not change.
RefusePacket(seq) ==
    /\ seq < send_seq
    /\ ~Fresh(seq)
    /\ dropped' = IF accepted[seq] = 0 THEN dropped \cup {seq} ELSE dropped
    /\ UNCHANGED <<send_seq, last, floor, seen, accepted>>

FilterNext == Encrypt \/ \E seq \in Seqs : AcceptPacket(seq) \/ RefusePacket(seq)

FilterSpec == FilterInit /\ [][FilterNext]_filterVars

----------------------------------------------------------------------------
FilterTypeOK ==
    /\ send_seq \in 0..MaxSeq
    /\ last \in Nat
    /\ floor \in Nat
    /\ seen \in SUBSET Seqs
    /\ accepted \in [Seqs -> Nat]
    /\ dropped \in SUBSET Seqs

\* No packet is accepted twice, although seen forgets: what is purged is below
\* the floor by then, and the floor never comes down again.
AcceptedOnce == \A s \in Seqs : accepted[s] <= 1

\* A packet seen for the first time is accepted unless it is more than a window
\* behind the newest one: reordering within the window loses nothing.
ReorderedAccepted == \A s \in dropped : s + Window < last

\* The memory of the filter is bounded by twice the window, for ever.
SeenBounded == Cardinality(seen) <= 2 * Window
=============================================================================
