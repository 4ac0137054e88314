--------------------------- MODULE WsFlowControl ---------------------------
(***************************************************************************)
(* Credit flow control of ONE direction of one WebSocket stream            *)
(* (crates/hydr-transport/src/ws.rs).  Three tasks take part:              *)
(*                                                                         *)
(*   pump     the sender's pump_stream task: waits for the window, reads a *)
(*            chunk from the application, pushes it to the connection and  *)
(*            only then counts it in StreamCredit.outstanding;             *)
(*   reader   the receiver's application, reading through CreditReader,    *)
(*            which returns credit in batches with a try_send;             *)
(*   run      the sender's connection task: applies STREAM_CREDIT and      *)
(*            STREAM_CLOSE frames to the credit table.                     *)
(*                                                                         *)
(* A byte is a number: pushed, delivered, read, returned and credited are  *)
(* the number of bytes that have reached each stage of the round trip.  A  *)
(* STREAM_CREDIT frame in flight is represented by the running total of    *)
(* the credit returned up to and including it, so the amount it carries is *)
(* the difference with the total already received (see CreditAmount).      *)
(*                                                                         *)
(* The connection between the pump's queue and the receiver's duplex (the  *)
(* queues, the writer, TCP, stream_writer) is a FIFO pipe here; its queues *)
(* and the frames themselves are the subject of WsTunnel.                  *)
(***************************************************************************)
EXTENDS Integers, Sequences

CONSTANTS
    Window,     \* RECV_WINDOW: bytes a sender may have outstanding
    Batch,      \* CREDIT_BATCH: credit is returned in batches of at least this
    MaxChunk,   \* size of the pump's read buffer (32 KiB)
    Total       \* bytes the application writes before it closes its side

\* The code's values are 512 KiB, 256 KiB and 32 KiB.
ASSUME FlowAssumption ==
    /\ Window \in Nat
    /\ Batch \in Nat \ {0}
    /\ MaxChunk \in Nat \ {0}
    /\ Batch + MaxChunk <= Window
    /\ Total \in Nat

VARIABLES
    pump,         \* control point of pump_stream and of wait_window within it
    chunk,        \* bytes of the chunk the pump has in hand
    outstanding,  \* StreamCredit.outstanding
    woken,        \* the pump's Notified future has received its wakeup
    registered,   \* the credit table has an entry for this stream
    run,          \* the connection task: "idle", or inside grant before notify
    pushed,       \* bytes handed to the connection (q_tx.send)
    delivered,    \* bytes in the receiver's duplex
    read,         \* bytes read by the receiving application
    pending,      \* CreditReader.pending
    returned,     \* credit bytes sent back in STREAM_CREDIT frames
    creditWire,   \* STREAM_CREDIT frames in flight, as running totals
    credited      \* credit bytes the sender's connection task has received

pumpVars == <<pump, chunk, outstanding, woken>>
dataVars == <<pushed, delivered, read>>
creditVars == <<pending, returned, creditWire, credited>>
flowVars == <<pump, chunk, outstanding, woken, registered, run,
          pushed, delivered, read, pending, returned, creditWire, credited>>

PumpPoints == {"window", "subscribe", "recheck", "asleep",
               "read", "push", "sent", "done"}

Least(a, b) == IF a <= b THEN a ELSE b

----------------------------------------------------------------------------
\* A stream just opened: credits.insert and the spawn of pump_stream.
FlowInit ==
    /\ pump = "window"
    /\ chunk = 0
    /\ outstanding = 0
    /\ woken = FALSE
    /\ registered = TRUE
    /\ run = "idle"
    /\ pushed = 0 /\ delivered = 0 /\ read = 0
    /\ pending = 0 /\ returned = 0 /\ credited = 0
    /\ creditWire = <<>>

\* The test of wait_window, and a mutant that lets the window be overrun.
WindowOpenInclusive == outstanding <= Window
WindowOpen == outstanding < Window

\* wait_window: the fast path, and the first test of its loop.
WaitWindow ==
    /\ pump = "window"
    /\ pump' = IF WindowOpen THEN "read" ELSE "subscribe"
    /\ UNCHANGED <<chunk, outstanding, woken, registered, run, dataVars, creditVars>>

\* Mutant: sleep right after subscribing, without testing again.
SubscribeNoRecheck ==
    /\ pump = "subscribe"
    /\ woken' = FALSE
    /\ pump' = "asleep"
    /\ UNCHANGED <<chunk, outstanding, registered, run, dataVars, creditVars>>

\* self.notify.notified(), then enable(): from here on notify_waiters reaches
\* the pump.
Subscribe ==
    /\ pump = "subscribe"
    /\ woken' = FALSE
    /\ pump' = "recheck"
    /\ UNCHANGED <<chunk, outstanding, registered, run, dataVars, creditVars>>

\* The window is tested again, now that no wakeup can be missed, and only then
\* does the pump sleep (fut.await).
Recheck ==
    /\ pump = "recheck"
    /\ pump' = IF WindowOpen THEN "read" ELSE "asleep"
    /\ UNCHANGED <<chunk, outstanding, woken, registered, run, dataVars, creditVars>>

\* fut.await returns and the loop starts over.
WakeUp ==
    /\ pump = "asleep"
    /\ woken
    /\ pump' = "window"
    /\ UNCHANGED <<chunk, outstanding, woken, registered, run, dataVars, creditVars>>

\* a_read.read: a chunk of what the application has written.
ReadChunk ==
    /\ pump = "read"
    /\ pushed < Total
    /\ \E n \in 1..Least(MaxChunk, Total - pushed) : chunk' = n
    /\ pump' = "push"
    /\ UNCHANGED <<outstanding, woken, registered, run, dataVars, creditVars>>

\* a_read.read returns 0: the application closed its side.
ReadEof ==
    /\ pump = "read"
    /\ pushed = Total
    /\ pump' = "done"
    /\ UNCHANGED <<chunk, outstanding, woken, registered, run, dataVars, creditVars>>

\* q_tx.send of the STREAM_DATA frame: the receiver may get it from here on.
PushChunk ==
    /\ pump = "push"
    /\ pushed' = pushed + chunk
    /\ pump' = "sent"
    /\ UNCHANGED <<chunk, outstanding, woken, registered, run, delivered, read, creditVars>>

\* credit.sent(n), after the frame has left.
CountSent ==
    /\ pump = "sent"
    /\ outstanding' = outstanding + chunk
    /\ chunk' = 0
    /\ pump' = "window"
    /\ UNCHANGED <<woken, registered, run, dataVars, creditVars>>

Pump == \/ WaitWindow \/ Subscribe \/ Recheck \/ WakeUp
        \/ ReadChunk \/ ReadEof \/ PushChunk \/ CountSent

----------------------------------------------------------------------------
\* The peer's connection task and its stream_writer put bytes in the duplex.
Deliver ==
    /\ delivered < pushed
    /\ \E n \in 1..(pushed - delivered) : delivered' = delivered + n
    /\ UNCHANGED <<pumpVars, registered, run, pushed, read, creditVars>>

\* What CreditReader does with its count: nothing below a batch; otherwise
\* try_send, which succeeds, or finds the command queue full and keeps it.
ReturnCredit(count) ==
    \/ /\ count < Batch
       /\ pending' = count
       /\ UNCHANGED <<returned, creditWire>>
    \/ /\ count >= Batch
       /\ returned' = returned + count
       /\ creditWire' = Append(creditWire, returned')
       /\ pending' = 0
    \/ /\ count >= Batch
       /\ pending' = count
       /\ UNCHANGED <<returned, creditWire>>

\* CreditReader::poll_read, and a mutant that does not reset pending.
AppReadNoReset ==
    /\ read < delivered
    /\ \E n \in 1..(delivered - read) :
         /\ read' = read + n
         /\ pending' = pending + n
         /\ IF pending' >= Batch
              THEN /\ returned' = returned + pending'
                   /\ creditWire' = Append(creditWire, returned')
              ELSE UNCHANGED <<returned, creditWire>>
    /\ UNCHANGED <<pumpVars, registered, run, pushed, delivered, credited>>

AppRead ==
    /\ read < delivered
    /\ \E n \in 1..(delivered - read) :
         /\ read' = read + n
         /\ ReturnCredit(pending + n)
    /\ UNCHANGED <<pumpVars, registered, run, pushed, delivered, credited>>

----------------------------------------------------------------------------
CreditAmount == Head(creditWire) - credited

\* What grant takes off outstanding: saturating_sub.
CreditTaken == Least(CreditAmount, outstanding)

\* Mutant: no notify_waiters after the subtraction.
GrantSilently ==
    /\ run = "idle"
    /\ creditWire # <<>>
    /\ credited' = Head(creditWire)
    /\ creditWire' = Tail(creditWire)
    /\ outstanding' = IF registered THEN outstanding - CreditTaken ELSE outstanding
    /\ UNCHANGED <<pump, chunk, woken, registered, run, dataVars, pending, returned>>

\* FRAME_STREAM_CREDIT: grant subtracts, saturating at zero, if the stream is
\* still in the credit table, and is then about to call notify_waiters.
Grant ==
    /\ run = "idle"
    /\ creditWire # <<>>
    /\ credited' = Head(creditWire)
    /\ creditWire' = Tail(creditWire)
    /\ IF registered
         THEN /\ outstanding' = outstanding - CreditTaken
              /\ run' = "notify"
         ELSE UNCHANGED <<outstanding, run>>
    /\ UNCHANGED <<pump, chunk, woken, registered, dataVars, pending, returned>>

\* notify.notify_waiters(): wakes a pump that has subscribed.
NotifyWaiters ==
    /\ run = "notify"
    /\ run' = "idle"
    /\ woken' = (woken \/ pump \in {"recheck", "asleep"})
    /\ UNCHANGED <<pump, chunk, outstanding, registered, dataVars, creditVars>>

\* FRAME_STREAM_CLOSE: the peer has ended ITS direction; the handler removes
\* the credit entry of OURS.
PeerCloses ==
    /\ run = "idle"
    /\ registered
    /\ registered' = FALSE
    /\ UNCHANGED <<pumpVars, run, dataVars, creditVars>>

FlowNext == \/ Pump \/ Deliver \/ AppRead \/ Grant \/ NotifyWaiters \/ PeerCloses

\* tokio polls every runnable task, TCP delivers, and the receiving
\* application keeps reading.  Nothing obliges the peer to close.
FlowFairness == /\ WF_flowVars(Pump) /\ WF_flowVars(Deliver) /\ WF_flowVars(AppRead)
            /\ WF_flowVars(Grant) /\ WF_flowVars(NotifyWaiters)

FlowSpec == FlowInit /\ [][FlowNext]_flowVars
FairFlowSpec == FlowSpec /\ FlowFairness

----------------------------------------------------------------------------
FlowTypeOK ==
    /\ pump \in PumpPoints
    /\ chunk \in 0..MaxChunk
    /\ outstanding \in Nat
    /\ woken \in BOOLEAN
    /\ registered \in BOOLEAN
    /\ run \in {"idle", "notify"}
    /\ pushed \in Nat /\ delivered \in Nat /\ read \in Nat
    /\ pending \in Nat /\ returned \in Nat /\ credited \in Nat
    /\ creditWire \in Seq(Nat)

\* Bytes pushed to the connection that credit.sent has not counted yet.
Uncounted == IF pump = "sent" THEN chunk ELSE 0

\* What the sender believes to be outstanding minus what really is.  The
\* frame leaves before it is counted, so its credit can come back first and
\* saturating_sub then forgets a part of it.
Drift == outstanding + Uncounted - (pushed - credited)

\* The order of the two calls in pump_stream (send, then sent) makes grant
\* saturate, and each saturation loses window.  The loss never adds up: as
\* long as the stream is in the credit table it is at most one chunk, so the
\* window cannot leak away over a long transfer.
DriftBounded == registered => Drift \in 0..MaxChunk

\* What flow control is for: the bytes a slow application leaves unread, in the
\* frames in flight and in the receiver's unbounded stream queue, are bounded
\* by the window and one chunk, however frames, credits and reads interleave.
\* Stated as a refinement: the direction is a pipe of that capacity.
Pipe == INSTANCE BoundedPipe WITH
            Capacity <- Window - 1 + MaxChunk, Limit <- Total,
            written <- pushed, taken <- read
ImplementsPipe == Pipe!Spec

\* wait_window loses no wakeup: when everything was read, all credit was
\* returned and applied, and less than a batch is held back, the pump is not
\* parked on a window that nothing will ever open again.
NeverStarved ==
    ( /\ registered /\ run = "idle"
      /\ read = pushed /\ creditWire = <<>> /\ pending < Batch )
    => ~(pump = "asleep" /\ ~woken)

\* With an application that keeps reading, all the data arrives once the pump has
\* begun to read it, unless the peer closed its direction or a batch of credit
\* stays unreturned for ever.
TransferCompletes ==
    (pump = "read" ~> read = Total \/ ~registered) \/ <>[](pending >= Batch)

----------------------------------------------------------------------------
\* The handler says that credit frees the sender's window.  Stated as: while
\* no credit is refused and the application reads, the data goes on arriving,
\* also after the peer has closed the other direction.
CreditOpensWindow == <>(read = Total) \/ <>(pending >= Batch)
=============================================================================
