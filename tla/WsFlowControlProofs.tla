------------------------ MODULE WsFlowControlProofs ------------------------
(***************************************************************************)
(* Proofs about WsFlowControl, for every window, batch, chunk size and     *)
(* length of transfer that satisfy FlowAssumption.                         *)
(***************************************************************************)
EXTENDS WsFlowControl, TLAPS

\* The chunk in hand, and the window as the pump's control point knows it.
PumpInv ==
    /\ pump \in {"push", "sent"} => chunk \in 1..MaxChunk
    /\ pump = "push" => pushed + chunk <= Total
    /\ pump \in {"read", "push", "sent"} => outstanding < Window
    /\ outstanding <= Window - 1 + MaxChunk

\* Every byte is at one stage of the round trip.
StagesInv ==
    /\ credited <= returned
    /\ returned + pending = read
    /\ read <= delivered
    /\ delivered <= pushed
    /\ pushed <= Total

\* The running totals in flight increase strictly, from what the sender has
\* received to what the receiver has returned.
WireInv ==
    /\ creditWire = <<>> => credited = returned
    /\ \A i \in 1..Len(creditWire) : credited < creditWire[i] /\ creditWire[i] <= returned
    /\ \A i, j \in 1..Len(creditWire) : i < j => creditWire[i] < creditWire[j]
    /\ creditWire # <<>> => creditWire[Len(creditWire)] = returned

\* The sender never believes less to be outstanding than there is.
DriftInv ==
    /\ Drift >= 0
    /\ registered => Drift <= MaxChunk

\* A parked pump has a wakeup on its way, or a closed window.
SleepInv ==
    pump = "asleep" /\ ~woken => run = "notify" \/ outstanding >= Window

IInv == FlowTypeOK /\ PumpInv /\ StagesInv /\ WireInv /\ DriftInv /\ SleepInv

----------------------------------------------------------------------------
\* A stream just registered satisfies the invariant.
LEMMA InitInv == FlowInit => IInv
<1> SUFFICES ASSUME FlowInit PROVE IInv
  OBVIOUS
<1>1. Len(creditWire) = 0 /\ creditWire \in Seq(Nat)
  BY DEF FlowInit
<1>2. FlowTypeOK
  <2>1. woken \in BOOLEAN /\ registered \in BOOLEAN
    BY DEF FlowInit
  <2>2. QED
    BY FlowAssumption, <1>1, <2>1 DEF FlowInit, FlowTypeOK, PumpPoints
<1>3. PumpInv /\ StagesInv /\ DriftInv /\ SleepInv
  BY FlowAssumption
     DEF FlowInit, PumpInv, StagesInv, DriftInv, Drift, Uncounted, SleepInv
<1>4. WireInv
  BY <1>1 DEF FlowInit, WireInv
<1>5. QED
  BY <1>2, <1>3, <1>4 DEF IInv

\* No step of pump_stream or wait_window breaks the invariant.
LEMMA PumpKeepsInv == IInv /\ Pump => IInv'
<1> SUFFICES ASSUME IInv, Pump PROVE IInv'
  OBVIOUS
<1> USE FlowAssumption
        DEF IInv, FlowTypeOK, PumpPoints, PumpInv, StagesInv, WireInv, DriftInv,
            Drift, Uncounted, SleepInv, WindowOpen, dataVars, creditVars
<1>1. CASE WaitWindow
  BY <1>1 DEF WaitWindow
<1>2. CASE Subscribe
  BY <1>2 DEF Subscribe
<1>3. CASE Recheck
  BY <1>3 DEF Recheck
<1>4. CASE WakeUp
  BY <1>4 DEF WakeUp
<1>5. CASE ReadChunk
  BY <1>5 DEF ReadChunk, Least
<1>6. CASE ReadEof
  BY <1>6 DEF ReadEof
<1>7. CASE PushChunk
  BY <1>7 DEF PushChunk
<1>8. CASE CountSent
  BY <1>8 DEF CountSent
<1>9. QED
  BY <1>1, <1>2, <1>3, <1>4, <1>5, <1>6, <1>7, <1>8 DEF Pump

\* CreditReader::poll_read: the batch it returns extends the running totals.
LEMMA AppReadKeepsInv == IInv /\ AppRead => IInv'
<1> SUFFICES ASSUME IInv, AppRead PROVE IInv'
  OBVIOUS
<1> USE FlowAssumption DEF IInv, AppRead, pumpVars
<1>1. PICK n \in 1..(delivered - read) :
          read' = read + n /\ ReturnCredit(pending + n)
  BY DEF AppRead
<1>2. \/ /\ pending' = pending + n
         /\ UNCHANGED <<returned, creditWire>>
      \/ /\ returned' = returned + (pending + n)
         /\ creditWire' = Append(creditWire, returned')
         /\ pending' = 0
  BY <1>1 DEF ReturnCredit
<1>3. n \in Nat /\ n > 0 /\ n <= delivered - read
  BY DEF FlowTypeOK
<1>4. FlowTypeOK'
  <2>1. returned' \in Nat /\ pending' \in Nat
    BY <1>2, <1>3 DEF FlowTypeOK
  <2>4. creditWire' \in Seq(Nat)
    BY <1>2, <2>1 DEF FlowTypeOK
  <2>2. read' \in Nat
    BY <1>1, <1>3 DEF FlowTypeOK
  <2>3. QED
    BY <2>1, <2>2, <2>4 DEF FlowTypeOK
<1>8. StagesInv'
  <2>1. read' = read + n /\ UNCHANGED <<delivered, pushed, credited>>
    BY <1>1
  <2>2. returned' + pending' = returned + pending + n /\ returned <= returned'
    BY <1>2, <1>3 DEF FlowTypeOK
  <2>3. /\ credited <= returned /\ returned + pending = read
        /\ delivered <= pushed /\ pushed <= Total
    BY DEF StagesInv
  <2>4. /\ credited \in Nat /\ returned \in Nat /\ pending \in Nat /\ read \in Nat
        /\ delivered \in Nat /\ returned' \in Nat /\ pending' \in Nat
    BY <1>4 DEF FlowTypeOK
  <2>5. QED
    <3>1. credited' <= returned'
      BY <2>1, <2>2, <2>3, <2>4
    <3>2. returned' + pending' = read'
      BY <2>1, <2>2, <2>3, <2>4
    <3>3. read' <= delivered'
      BY <1>3, <2>1, <2>4
    <3>4. delivered' <= pushed' /\ pushed' <= Total
      BY <2>1, <2>3
    <3>5. QED
      BY <3>1, <3>2, <3>3, <3>4 DEF StagesInv
<1>5. PumpInv' /\ DriftInv' /\ SleepInv'
  BY DEF PumpInv, DriftInv, Drift, Uncounted, SleepInv
<1>6. WireInv'
  <2>1. CASE UNCHANGED <<returned, creditWire>>
    BY <2>1 DEF WireInv
  <2>2. CASE /\ returned' = returned + (pending + n)
             /\ creditWire' = Append(creditWire, returned')
    BY <1>3, <2>2 DEF WireInv, FlowTypeOK, StagesInv
  <2>3. QED
    BY <1>2, <2>1, <2>2
<1>7. QED
  BY <1>4, <1>5, <1>6, <1>8

\* grant: where saturating_sub bites, the drift becomes at most what the pump
\* has pushed and not counted, which is one chunk.
LEMMA GrantKeepsInv == IInv /\ Grant => IInv'
<1> SUFFICES ASSUME IInv, Grant PROVE IInv'
  OBVIOUS
<1> USE FlowAssumption DEF IInv, Grant, dataVars
<1>1. /\ Len(creditWire) >= 1
      /\ Head(creditWire) = creditWire[1]
      /\ Head(creditWire) \in Nat
  BY DEF FlowTypeOK
<1>2. credited < Head(creditWire) /\ Head(creditWire) <= returned
  BY <1>1 DEF WireInv
<1>3. StagesInv'
  BY <1>1, <1>2 DEF StagesInv, FlowTypeOK
<1>4. outstanding' \in Nat /\ outstanding' <= outstanding
  BY <1>1, <1>2 DEF FlowTypeOK, Least, CreditTaken, CreditAmount
<1>5. FlowTypeOK'
  BY <1>1, <1>4 DEF FlowTypeOK
<1>6. PumpInv'
  BY <1>4 DEF PumpInv, FlowTypeOK
<1>7. WireInv'
  <2>1. /\ Len(Tail(creditWire)) = Len(creditWire) - 1
        /\ \A i \in 1..Len(Tail(creditWire)) : Tail(creditWire)[i] = creditWire[i + 1]
    BY <1>1 DEF FlowTypeOK
  <2>2. creditWire' = <<>> => credited' = returned'
    <3>1. creditWire' = <<>> => Len(creditWire) = 1
      <4>1. Len(creditWire') = Len(creditWire) - 1 /\ Len(creditWire) \in Nat
        BY <2>1 DEF FlowTypeOK
      <4>2. creditWire' = <<>> => Len(creditWire') = 0
        OBVIOUS
      <4>3. QED
        BY <4>1, <4>2
    <3>2. QED
      BY <1>1, <3>1 DEF WireInv
  <2>3. \A i \in 1..Len(creditWire') :
           credited' < creditWire'[i] /\ creditWire'[i] <= returned'
    BY <1>1, <2>1 DEF WireInv, FlowTypeOK
  <2>4. \A i, j \in 1..Len(creditWire') : i < j => creditWire'[i] < creditWire'[j]
    BY <1>1, <2>1 DEF WireInv, FlowTypeOK
  <2>5. creditWire' # <<>> => creditWire'[Len(creditWire')] = returned'
    BY <1>1, <2>1 DEF WireInv, FlowTypeOK
  <2>6. QED
    BY <2>2, <2>3, <2>4, <2>5 DEF WireInv
<1>8. DriftInv'
  <2>1. Uncounted' = Uncounted /\ Uncounted \in 0..MaxChunk
    BY DEF Uncounted, FlowTypeOK
  <2>2. pushed \in Nat /\ credited' \in Nat /\ credited' <= pushed
    BY <1>1, <1>2 DEF FlowTypeOK, StagesInv
  <2>3. CASE registered
    <3>1. \/ outstanding' + credited' = outstanding + credited
          \/ outstanding' = 0 /\ outstanding <= credited' - credited
      BY <1>1, <1>2, <2>3 DEF Least, CreditTaken, CreditAmount, FlowTypeOK
    <3>2. /\ outstanding \in Nat /\ credited \in Nat /\ pushed' = pushed
          /\ credited < credited' /\ registered' = registered
      BY <1>1, <1>2 DEF FlowTypeOK
    <3>3. /\ 0 <= outstanding + Uncounted - (pushed - credited)
          /\ outstanding + Uncounted - (pushed - credited) <= MaxChunk
      BY <2>3 DEF DriftInv, Drift
    <3>4. Drift' = outstanding' + Uncounted - (pushed - credited')
      BY <2>1, <3>2 DEF Drift
    <3>5. 0 <= Drift' /\ Drift' <= MaxChunk
      <4> DEFINE after == outstanding'
                 total == credited'
                 extra == Uncounted
      <4>1. /\ extra \in Nat /\ extra <= MaxChunk /\ MaxChunk \in Nat
            /\ after \in Nat /\ total \in Nat /\ total <= pushed /\ pushed \in Nat
            /\ outstanding \in Nat /\ credited \in Nat /\ credited <= total
        BY <1>4, <2>1, <2>2, <3>2
      <4>2. \/ after + total = outstanding + credited
            \/ after = 0 /\ outstanding <= total - credited
        BY <3>1
      <4>3. /\ 0 <= outstanding + extra - (pushed - credited)
            /\ outstanding + extra - (pushed - credited) <= MaxChunk
        BY <3>3
      <4>4. Drift' = after + extra - (pushed - total)
        BY <3>4
      <4> HIDE DEF after, total, extra, IInv, Grant
      <4>5. QED
        BY <4>1, <4>2, <4>3, <4>4
    <3>6. QED
      BY <3>5 DEF DriftInv
  <2>4. CASE ~registered
    BY <1>1, <1>2, <2>1, <2>2, <2>4 DEF DriftInv, Drift, FlowTypeOK
  <2>5. QED
    BY <2>3, <2>4
<1>9. SleepInv'
  BY DEF SleepInv, FlowTypeOK
<1>10. QED
  BY <1>3, <1>5, <1>6, <1>7, <1>8, <1>9

\* IInv is an inductive invariant of the specification.
THEOREM Invariance == FlowSpec => []IInv
<1>1. IInv /\ [FlowNext]_flowVars => IInv'
  <2> SUFFICES ASSUME IInv, [FlowNext]_flowVars PROVE IInv'
    OBVIOUS
  <2>1. CASE Pump
    BY <2>1, PumpKeepsInv
  <2>2. CASE Deliver
    BY <2>2, FlowAssumption
       DEF Deliver, IInv, FlowTypeOK, PumpInv, StagesInv, WireInv, DriftInv, Drift,
           Uncounted, SleepInv, pumpVars, creditVars
  <2>3. CASE AppRead
    BY <2>3, AppReadKeepsInv
  <2>4. CASE Grant
    BY <2>4, GrantKeepsInv
  <2>5. CASE NotifyWaiters
    BY <2>5
       DEF NotifyWaiters, IInv, FlowTypeOK, PumpInv, StagesInv, WireInv, DriftInv, Drift,
           Uncounted, SleepInv, dataVars, creditVars
  <2>6. CASE PeerCloses
    BY <2>6
       DEF PeerCloses, IInv, FlowTypeOK, PumpInv, StagesInv, WireInv, DriftInv, Drift,
           Uncounted, SleepInv, pumpVars, dataVars, creditVars
  <2>7. CASE UNCHANGED flowVars
    BY <2>7
       DEF flowVars, IInv, FlowTypeOK, PumpInv, StagesInv, WireInv, DriftInv, Drift,
           Uncounted, SleepInv
  <2>8. QED
    BY <2>1, <2>2, <2>3, <2>4, <2>5, <2>6, <2>7 DEF FlowNext
<1>2. QED
  BY InitInv, <1>1, PTL DEF FlowSpec

\* Every variable of the flow control keeps its type.
THEOREM TypeCorrect == FlowSpec => []FlowTypeOK
BY Invariance, PTL DEF IInv

\* The window lost to the race of sent with grant is at most one chunk for as
\* long as the stream is in the credit table, for any length of transfer.
THEOREM DriftIsBounded == FlowSpec => []DriftBounded
<1>1. IInv => DriftBounded
  BY FlowAssumption DEF IInv, DriftInv, DriftBounded, Drift, Uncounted, FlowTypeOK
<1>2. QED
  BY Invariance, <1>1, PTL

\* wait_window never parks the pump for good while credit can still come: a
\* closed window needs Window bytes outstanding, and a reader that has read
\* everything holds back less than Batch of them, with at most MaxChunk lost.
THEOREM PumpIsNeverStarved == FlowSpec => []NeverStarved
<1>1. IInv => NeverStarved
  <2> SUFFICES ASSUME IInv, registered, run = "idle", read = pushed,
                      creditWire = <<>>, pending < Batch,
                      pump = "asleep", ~woken
               PROVE FALSE
    BY DEF NeverStarved
  <2>1. outstanding >= Window
    BY DEF IInv, SleepInv
  <2>2. outstanding <= pending + MaxChunk
    BY FlowAssumption DEF IInv, FlowTypeOK, StagesInv, WireInv, DriftInv, Drift, Uncounted
  <2>3. QED
    BY <2>1, <2>2, FlowAssumption DEF IInv, FlowTypeOK
<1>2. QED
  BY Invariance, <1>1, PTL

\* One direction of a stream is a pipe of Window - 1 + MaxChunk bytes: what a
\* slow reader leaves unread never exceeds that.
THEOREM FlowImplementsPipe == FlowSpec => ImplementsPipe
<1> USE FlowAssumption
<1>1. FlowInit => Pipe!Init
  BY DEF FlowInit, Pipe!Init
<1>2. IInv /\ [FlowNext]_flowVars => [Pipe!Next]_<<pushed, read>>
  <2> SUFFICES ASSUME IInv, [FlowNext]_flowVars PROVE [Pipe!Next]_<<pushed, read>>
    OBVIOUS
  <2>1. CASE PushChunk
    <3>1. chunk \in 1..(Total - pushed) /\ outstanding < Window
      BY <2>1 DEF PushChunk, IInv, PumpInv, FlowTypeOK, StagesInv
    <3>2. pushed - read <= outstanding
      BY <2>1 DEF PushChunk, IInv, FlowTypeOK, StagesInv, DriftInv, Drift, Uncounted
    <3>3. pushed + chunk - read <= Window - 1 + MaxChunk
      BY <3>1, <3>2 DEF IInv, FlowTypeOK, PumpInv
    <3>4. QED
      BY <2>1, <3>1, <3>3 DEF PushChunk, Pipe!Next, Pipe!Write
  <2>2. CASE AppRead
    <3>1. PICK n \in 1..(delivered - read) : read' = read + n
      BY <2>2 DEF AppRead
    <3>2. n \in 1..(pushed - read)
      BY <3>1 DEF IInv, FlowTypeOK, StagesInv
    <3>3. QED
      BY <2>2, <3>1, <3>2 DEF AppRead, Pipe!Next, Pipe!Take
  <2>3. CASE UNCHANGED <<pushed, read>>
    BY <2>3
  <2>4. QED
    BY <2>1, <2>2, <2>3
       DEF FlowNext, Pump, flowVars, WaitWindow, Subscribe, Recheck, WakeUp, ReadChunk, ReadEof,
           CountSent, Deliver, Grant, NotifyWaiters, PeerCloses, pumpVars, dataVars
<1>3. QED
  BY Invariance, <1>1, <1>2, PTL DEF FlowSpec, ImplementsPipe, Pipe!Spec
=============================================================================
