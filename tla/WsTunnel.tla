------------------------------ MODULE WsTunnel ------------------------------
(***************************************************************************)
(* One authenticated WebSocket tunnel (crates/hydr-transport/src/ws.rs):   *)
(* the client opens streams, the server answers, and both relay data until *)
(* they close or the connection is lost.  On each side:                    *)
(*                                                                         *)
(*   cmdQ     mpsc queue from the handles and the pumps to the run task    *)
(*   run      the run task: idle in select!, or awaiting room in frame_tx  *)
(*   frameQ   frame_tx, from the run task to the writer task               *)
(*   wire     what the writer has put in the TCP connection                *)
(*                                                                         *)
(* and per stream a pump with its own queue and forwarder (outQ), and the  *)
(* application, which writes its chunks, closes, and reads.                 *)
(*                                                                         *)
(* The unit of data is one STREAM_DATA frame; the frames of a direction    *)
(* are numbered, and the window is counted in frames.  A datagram travels  *)
(* the same queues, and what it and an open are turned into at the other   *)
(* end, an event, waits in a bounded queue (event_tx) for the tunnel loop. *)
(* WsFlowControl models the parking of a pump on a closed window.          *)
(* MuxTunnel adds the sessions of MUX mode; the handshake and pings are    *)
(* not in this module.                                                     *)
(***************************************************************************)
EXTENDS Integers, Sequences, FiniteSets, SequencesExt

CONSTANTS
    Streams,     \* stream ids the client opens
    Workloads,   \* bound: frames of data the applications write before they
                 \* close, each a function from the peers
    Window,      \* RECV_WINDOW, in frames
    Batch,       \* CREDIT_BATCH, in frames
    OutCap,      \* STREAM_OUT_QUEUE
    CmdCap,      \* OUTBOUND_QUEUE, of the command queue
    FrameCap,    \* OUTBOUND_QUEUE, of frame_tx
    WireCap,     \* frames the TCP connection holds in one direction
    EventCap,    \* capacity of event_tx
    Datagrams    \* bound: the datagrams each peer sends under a workload, a
                 \* function from the workloads

Peers == {"client", "server"}
Other(p) == IF p = "client" THEN "server" ELSE "client"

ASSUME TunnelAssumption ==
    /\ IsFiniteSet(Streams)
    /\ IsFiniteSet(Workloads) /\ Workloads \subseteq [Peers -> Nat]
    /\ {Window, Batch, OutCap, CmdCap, FrameCap, WireCap, EventCap} \subseteq Nat \ {0}
    /\ Datagrams \in [Workloads -> [Peers -> Nat]]

VARIABLES
    chunks,       \* the workload of this tunnel
    up,           \* up[p]: the run task of p has not ended
    cmdQ, run, frameQ, wire,
    pending,      \* the client's opens waiting for OPEN_STREAM_ACK
    registered,   \* registered[p]: stream ids in p's streams and credits tables
    opener,       \* opener[s]: how far the client's open_stream call is
    acceptor,     \* acceptor[s]: how far the server's handle_stream is
    pump,         \* pump[p][s]: the pump_stream task
    outQ,         \* outQ[p][s]: frames between the pump and its forwarder
    wrote,        \* wrote[p][s]: data frames the pump has sent
    outstanding,  \* outstanding[p][s]: StreamCredit
    datagrams,    \* datagrams[p]: datagrams p has sent
    inbox,        \* inbox[p]: datagrams in, or offered to, p's event queue
    got,          \* got[p][s]: data frames accepted for the application of p
    readBy,       \* readBy[p][s]: data frames it has read
    owed,         \* owed[p][s]: CreditReader.pending
    closed        \* closed[p][s]: STREAM_CLOSE has been handled by p

queueVars == <<cmdQ, run, frameQ, wire>>
openVars == <<pending, registered, opener, acceptor>>
pumpVars == <<pump, outQ, wrote>>
readVars == <<got, readBy, owed, closed>>
dgramVars == <<datagrams, inbox>>
vars == <<chunks, up, cmdQ, run, frameQ, wire, pending, registered, opener, acceptor,
          pump, outQ, wrote, outstanding, datagrams, inbox, got, readBy, owed, closed>>

\* Frames.  An ack carries its status, data its number, credit its amount.
Frame(t, s, n) == [type |-> t, id |-> s, n |-> n]
FrameTypes ==
    {"open", "ack", "data", "credit", "close", "authRequest", "authResponse", "datagram"}
MaxFrames == Max({w["client"] + w["server"] : w \in Workloads})
STATUS_OK == 1
STATUS_ERR == 0
Frames == [type : FrameTypes, id : Streams, n : 0..(MaxFrames + 1)]

\* What the run task does once its frame is in frame_tx.
Idle == [frame |-> <<>>, then |-> "idle"]
Sending(f, next) == [frame |-> f, then |-> next]

PerStream(x) == [p \in Peers |-> [s \in Streams |-> x]]

Init ==
    /\ chunks \in Workloads
    /\ up = [p \in Peers |-> TRUE]
    /\ cmdQ = [p \in Peers |-> <<>>]
    /\ run = [p \in Peers |-> Idle]
    /\ frameQ = [p \in Peers |-> <<>>]
    /\ wire = [p \in Peers |-> <<>>]
    /\ pending = {}
    /\ registered = [p \in Peers |-> {}]
    /\ opener = [s \in Streams |-> "idle"]
    /\ acceptor = [s \in Streams |-> "none"]
    /\ pump = PerStream("none")
    /\ outQ = PerStream(<<>>)
    /\ wrote = PerStream(0) /\ outstanding = PerStream(0)
    /\ datagrams = [p \in Peers |-> 0] /\ inbox = [p \in Peers |-> 0]
    /\ got = PerStream(0) /\ readBy = PerStream(0) /\ owed = PerStream(0)
    /\ closed = PerStream(FALSE)

\* cmd.send(..).await: a command that puts frame f on the wire.
Command(p, f, next) ==
    /\ up[p]
    /\ Len(cmdQ[p]) < CmdCap
    /\ cmdQ' = [cmdQ EXCEPT ![p] = Append(@, Sending(f, next))]

----------------------------------------------------------------------------
\* The two ends of an open.

\* WsHandle::open_stream: Cmd::Open, then wait for the ack.
OpenStream(s) ==
    /\ opener[s] = "idle"
    /\ Command("client", Frame("open", s, 0), "pend")
    /\ opener' = [opener EXCEPT ![s] = "waiting"]
    /\ UNCHANGED <<chunks, up, run, frameQ, wire, pending, registered, acceptor,
                   pumpVars, outstanding, dgramVars, readVars>>

\* open_stream on a tunnel whose run task has ended: Error::StreamClosed.
OpenFails(s) ==
    /\ opener[s] = "idle"
    /\ ~up["client"]
    /\ opener' = [opener EXCEPT ![s] = "err"]
    /\ UNCHANGED <<chunks, up, queueVars, pending, registered, acceptor,
                   pumpVars, outstanding, dgramVars, readVars>>

\* next_event: the tunnel loop takes the open from the queue and spawns
\* handle_stream for it.
TakeEvent(s) ==
    /\ acceptor[s] = "event"
    /\ acceptor' = [acceptor EXCEPT ![s] = "taken"]
    /\ UNCHANGED <<chunks, up, queueVars, pending, registered, opener,
                   pumpVars, outstanding, dgramVars, readVars>>

\* reply_open: the server's handler accepts the stream or refuses it.
ReplyOpen(s) ==
    /\ acceptor[s] = "taken"
    /\ \/ /\ Command("server", Frame("ack", s, STATUS_OK), "register")
          /\ acceptor' = [acceptor EXCEPT ![s] = "accepted"]
       \/ /\ Command("server", Frame("ack", s, STATUS_ERR), "none")
          /\ acceptor' = [acceptor EXCEPT ![s] = "refused"]
    /\ UNCHANGED <<chunks, up, run, frameQ, wire, pending, registered, opener,
                   pumpVars, outstanding, dgramVars, readVars>>

----------------------------------------------------------------------------
\* The pump of stream s at p, its forwarder and the close it sends.

\* Mutant: the stream's own queue is unbounded.
PumpDataUnbounded(p, s) ==
    /\ pump[p][s] = "running"
    /\ wrote[p][s] < chunks[p]
    /\ outstanding[p][s] < Window
    /\ wrote' = [wrote EXCEPT ![p][s] = @ + 1]
    /\ outQ' = [outQ EXCEPT ![p][s] = Append(@, Frame("data", s, wrote[p][s] + 1))]
    /\ pump' = [pump EXCEPT ![p][s] = "counting"]
    /\ UNCHANGED <<chunks, up, queueVars, openVars, outstanding, dgramVars, readVars>>

\* The pump reads a chunk and queues it.  A pump that outlives the connection
\* may still fill its queue; its forwarder then finds cmd_tx closed.
PumpData(p, s) ==
    /\ pump[p][s] = "running"
    /\ wrote[p][s] < chunks[p]
    /\ outstanding[p][s] < Window
    /\ Len(outQ[p][s]) < OutCap
    /\ wrote' = [wrote EXCEPT ![p][s] = @ + 1]
    /\ outQ' = [outQ EXCEPT ![p][s] = Append(@, Frame("data", s, wrote[p][s] + 1))]
    /\ pump' = [pump EXCEPT ![p][s] = "counting"]
    /\ UNCHANGED <<chunks, up, queueVars, openVars, outstanding, dgramVars, readVars>>

\* credit.sent: the chunk is counted after it was queued.
PumpCount(p, s) ==
    /\ pump[p][s] = "counting"
    /\ outstanding' = [outstanding EXCEPT ![p][s] = @ + 1]
    /\ pump' = [pump EXCEPT ![p][s] = "running"]
    /\ UNCHANGED <<chunks, up, queueVars, openVars, outQ, wrote, dgramVars, readVars>>

\* fwd: the next data frame goes to the command queue.
ForwardData(p, s) ==
    /\ outQ[p][s] # <<>>
    /\ Command(p, Head(outQ[p][s]), "none")
    /\ outQ' = [outQ EXCEPT ![p][s] = Tail(@)]
    /\ UNCHANGED <<chunks, up, run, frameQ, wire, openVars, pump, wrote, outstanding, dgramVars, readVars>>

\* The application closed its side: drop(q_tx), and wait for the forwarder.
PumpEof(p, s) ==
    /\ pump[p][s] = "running"
    /\ wrote[p][s] = chunks[p]
    /\ outstanding[p][s] < Window
    /\ pump' = [pump EXCEPT ![p][s] = "eof"]
    /\ UNCHANGED <<chunks, up, queueVars, openVars, outQ, wrote, outstanding, dgramVars, readVars>>

\* Mutant: STREAM_CLOSE is sent without waiting for the forwarder.
PumpCloseEarly(p, s) ==
    /\ pump[p][s] = "eof"
    /\ Command(p, Frame("close", s, 0), "none")
    /\ pump' = [pump EXCEPT ![p][s] = "done"]
    /\ UNCHANGED <<chunks, up, run, frameQ, wire, openVars, outQ, wrote, outstanding, dgramVars, readVars>>

\* fwd.await has returned: STREAM_CLOSE follows the data.
PumpClose(p, s) ==
    /\ pump[p][s] = "eof"
    /\ outQ[p][s] = <<>>
    /\ Command(p, Frame("close", s, 0), "none")
    /\ pump' = [pump EXCEPT ![p][s] = "done"]
    /\ UNCHANGED <<chunks, up, run, frameQ, wire, openVars, outQ, wrote, outstanding, dgramVars, readVars>>

\* The command channel is closed: the forwarder returns, then q_tx.send or the
\* final send fails.  A pump parked on a closed window does not get here.
PumpStops(p, s) ==
    /\ ~up[p]
    /\ \/ pump[p][s] = "eof"
       \/ pump[p][s] = "running" /\ outstanding[p][s] < Window
    /\ pump' = [pump EXCEPT ![p][s] = "done"]
    /\ outQ' = [outQ EXCEPT ![p][s] = <<>>]
    /\ UNCHANGED <<chunks, up, queueVars, openVars, wrote, outstanding, dgramVars, readVars>>

----------------------------------------------------------------------------
\* Datagrams and the event queue.

\* send_datagram: try_send, so that a datagram that finds the queue full is
\* dropped.  It belongs to no stream: s only names it.
SendDatagram(p, s) ==
    /\ datagrams[p] < Datagrams[chunks][p]
    /\ Command(p, Frame("datagram", s, 0), "none")
    /\ datagrams' = [datagrams EXCEPT ![p] = @ + 1]
    /\ UNCHANGED <<chunks, up, run, frameQ, wire, openVars, pumpVars, outstanding, inbox,
                   readVars>>

\* What next_event has not yet taken of what p's run task has sent or, when the
\* queue is full, is sending: handle_frame then waits for the tunnel loop.
Events(p) ==
    inbox[p] + (IF p = "server" THEN Cardinality({s \in Streams : acceptor[s] = "event"})
                                ELSE 0)
Waiting(p) == Events(p) > EventCap

\* next_event returns a datagram.
TakeDatagram(p) ==
    /\ inbox[p] > 0
    /\ inbox' = [inbox EXCEPT ![p] = @ - 1]
    /\ UNCHANGED <<chunks, up, queueVars, openVars, pumpVars, outstanding, datagrams,
                   readVars>>

----------------------------------------------------------------------------
\* The run task.

\* cmd_rx.recv(): the command's frame is to go to frame_tx.
TakeCmd(p) ==
    /\ up[p]
    /\ run[p] = Idle
    /\ ~Waiting(p)
    /\ cmdQ[p] # <<>>
    /\ run' = [run EXCEPT ![p] = Head(cmdQ[p])]
    /\ cmdQ' = [cmdQ EXCEPT ![p] = Tail(@)]
    /\ UNCHANGED <<chunks, up, frameQ, wire, openVars, pumpVars, outstanding, dgramVars, readVars>>

\* Mutant: pump_stream is not spawned.
RegisterNoPump(p, s) ==
    /\ registered' = [registered EXCEPT ![p] = @ \cup {s}]
    /\ outstanding' = [outstanding EXCEPT ![p][s] = 0]
    /\ UNCHANGED pump

\* An accepted open and its ack: both ends insert the stream in credits and
\* streams and spawn its pump.
Register(p, s) ==
    /\ registered' = [registered EXCEPT ![p] = @ \cup {s}]
    /\ pump' = [pump EXCEPT ![p][s] = "running"]
    /\ outstanding' = [outstanding EXCEPT ![p][s] = 0]

\* Mutant: the client starts its pump as it sends OPEN_STREAM.
SendFrameEager(p) ==
    /\ up[p]
    /\ run[p] # Idle
    /\ Len(frameQ[p]) < FrameCap
    /\ frameQ' = [frameQ EXCEPT ![p] = Append(@, run[p].frame)]
    /\ run' = [run EXCEPT ![p] = Idle]
    /\ pending' = IF run[p].then = "pend" THEN pending \cup {run[p].frame.id} ELSE pending
    /\ IF run[p].then \in {"register", "pend"}
         THEN Register(p, run[p].frame.id)
         ELSE UNCHANGED <<registered, pump, outstanding>>
    /\ UNCHANGED <<chunks, up, cmdQ, wire, opener, acceptor, outQ, wrote, dgramVars,
                   readVars>>

\* frame_tx.send(..).await has room; then the rest of the command's arm.
SendFrame(p) ==
    /\ up[p]
    /\ run[p] # Idle
    /\ Len(frameQ[p]) < FrameCap
    /\ frameQ' = [frameQ EXCEPT ![p] = Append(@, run[p].frame)]
    /\ run' = [run EXCEPT ![p] = Idle]
    /\ pending' = IF run[p].then = "pend" THEN pending \cup {run[p].frame.id} ELSE pending
    /\ IF run[p].then = "register"
         THEN Register(p, run[p].frame.id)
         ELSE UNCHANGED <<registered, pump, outstanding>>
    /\ UNCHANGED <<chunks, up, cmdQ, wire, opener, acceptor, outQ, wrote, dgramVars,
                   readVars>>

\* The writer task, which goes on with frame_rx when run has returned.
Write(p) ==
    /\ frameQ[p] # <<>>
    /\ Len(wire[p]) < WireCap
    /\ wire' = [wire EXCEPT ![p] = Append(@, Head(frameQ[p]))]
    /\ frameQ' = [frameQ EXCEPT ![p] = Tail(@)]
    /\ UNCHANGED <<chunks, up, cmdQ, run, openVars, pumpVars, outstanding, dgramVars, readVars>>

\* handle_frame, one case per frame type; s is the frame's stream id.

\* FRAME_OPEN_STREAM: the event goes to the server's tunnel loop.
HandleOpen(p, s) ==
    /\ acceptor' = [acceptor EXCEPT ![s] = "event"]
    /\ UNCHANGED <<pending, registered, opener, pump, outstanding, inbox, got, closed>>

\* Mutant: a refusal is not passed on to the caller of open_stream.
HandleAckOkOnly(p, s, status) ==
    /\ pending' = pending \ {s}
    /\ IF s \in pending /\ status = STATUS_OK
         THEN /\ Register(p, s)
              /\ opener' = [opener EXCEPT ![s] = "ok"]
         ELSE UNCHANGED <<registered, opener, pump, outstanding>>
    /\ UNCHANGED <<acceptor, inbox, got, closed>>

\* FRAME_OPEN_STREAM_ACK: the stream is registered before open_stream returns.
HandleAck(p, s, status) ==
    /\ pending' = pending \ {s}
    /\ IF s \notin pending
         THEN UNCHANGED <<registered, opener, pump, outstanding>>
         ELSE IF status = STATUS_OK
           THEN /\ Register(p, s)
                /\ opener' = [opener EXCEPT ![s] = "ok"]
           ELSE /\ opener' = [opener EXCEPT ![s] = "err"]
                /\ UNCHANGED <<registered, pump, outstanding>>
    /\ UNCHANGED <<acceptor, inbox, got, closed>>

\* FRAME_STREAM_DATA: queued for the application, or dropped without a trace.
HandleData(p, s) ==
    /\ got' = IF s \in registered[p] THEN [got EXCEPT ![p][s] = @ + 1] ELSE got
    /\ UNCHANGED <<openVars, pump, outstanding, inbox, closed>>

\* FRAME_STREAM_CREDIT.
HandleCredit(p, s, n) ==
    /\ outstanding' = IF s \in registered[p]
                        THEN [outstanding EXCEPT ![p][s] = IF @ > n THEN @ - n ELSE 0]
                        ELSE outstanding
    /\ UNCHANGED <<openVars, pump, inbox, got, closed>>

\* Mutant: the entry stays in the tables.
HandleCloseKeeps(p, s) ==
    /\ closed' = [closed EXCEPT ![p][s] = TRUE]
    /\ UNCHANGED <<openVars, pump, outstanding, inbox, got>>

\* FRAME_STREAM_CLOSE: out of credits and of streams, both.
HandleClose(p, s) ==
    /\ registered' = [registered EXCEPT ![p] = @ \ {s}]
    /\ closed' = [closed EXCEPT ![p][s] = TRUE]
    /\ UNCHANGED <<pending, opener, acceptor, pump, outstanding, inbox, got>>

\* FRAME_DATAGRAM: an event for the tunnel loop.
HandleDatagram(p) ==
    /\ inbox' = [inbox EXCEPT ![p] = @ + 1]
    /\ UNCHANGED <<openVars, pump, outstanding, got, closed>>

HandleFrame(p) ==
    /\ up[p]
    /\ run[p] = Idle
    /\ ~Waiting(p)
    /\ wire[Other(p)] # <<>>
    /\ wire' = [wire EXCEPT ![Other(p)] = Tail(@)]
    /\ LET f == Head(wire[Other(p)]) IN
         \/ f.type = "open" /\ HandleOpen(p, f.id)
         \/ f.type = "ack" /\ HandleAck(p, f.id, f.n)
         \/ f.type = "data" /\ HandleData(p, f.id)
         \/ f.type = "credit" /\ HandleCredit(p, f.id, f.n)
         \/ f.type = "close" /\ HandleClose(p, f.id)
         \/ f.type = "datagram" /\ HandleDatagram(p)
    /\ UNCHANGED <<chunks, up, cmdQ, run, frameQ, outQ, wrote, datagrams, readBy, owed>>

\* The loop of run ends (a socket error, a failed write, Cmd::Close): every
\* open that waits for its ack gets an error, the tables and queues are gone.
\* The writer is a task of its own and keeps what is in frameQ; whatever its
\* tail gets lost, the peer may end before it has read it.
EndRun(p) ==
    /\ up[p]
    /\ ~Waiting(p)
    /\ up' = [up EXCEPT ![p] = FALSE]
    /\ cmdQ' = [cmdQ EXCEPT ![p] = <<>>]
    /\ run' = [run EXCEPT ![p] = Idle]
    /\ wire' = [wire EXCEPT ![Other(p)] = <<>>]
    /\ registered' = [registered EXCEPT ![p] = {}]
    /\ IF p = "client"
         THEN /\ pending' = {}
              /\ opener' = [s \in Streams |->
                              IF opener[s] = "waiting" THEN "err" ELSE opener[s]]
         ELSE UNCHANGED <<pending, opener>>
    /\ UNCHANGED <<chunks, frameQ, acceptor, pumpVars, outstanding, dgramVars, readVars>>

LoseConnection(p) == up[Other(p)] /\ EndRun(p)
NoticeLoss(p) == ~up[Other(p)] /\ EndRun(p)

----------------------------------------------------------------------------
\* Mutant: the count is reset although the queue was full.
AppReadForgetful(p, s) ==
    /\ readBy[p][s] < got[p][s]
    /\ readBy' = [readBy EXCEPT ![p][s] = @ + 1]
    /\ IF owed[p][s] + 1 >= Batch
         THEN /\ owed' = [owed EXCEPT ![p][s] = 0]
              /\ IF up[p] /\ Len(cmdQ[p]) < CmdCap
                   THEN Command(p, Frame("credit", s, owed[p][s] + 1), "none")
                   ELSE UNCHANGED cmdQ
         ELSE /\ owed' = [owed EXCEPT ![p][s] = @ + 1]
              /\ UNCHANGED cmdQ
    /\ UNCHANGED <<chunks, up, run, frameQ, wire, openVars, pumpVars, outstanding, dgramVars, got, closed>>

\* CreditReader::poll_read, a frame at a time, once the stream is relayed: a
\* batch is returned by try_send, or kept for the next read.
AppRead(p, s) ==
    /\ readBy[p][s] < got[p][s]
    /\ readBy' = [readBy EXCEPT ![p][s] = @ + 1]
    /\ IF /\ owed[p][s] + 1 >= Batch
          /\ up[p] /\ Len(cmdQ[p]) < CmdCap
         THEN /\ Command(p, Frame("credit", s, owed[p][s] + 1), "none")
              /\ owed' = [owed EXCEPT ![p][s] = 0]
         ELSE /\ owed' = [owed EXCEPT ![p][s] = @ + 1]
              /\ UNCHANGED cmdQ
    /\ UNCHANGED <<chunks, up, run, frameQ, wire, openVars, pumpVars, outstanding, dgramVars, got, closed>>

----------------------------------------------------------------------------
StreamStep(p, s) ==
    \/ PumpData(p, s) \/ PumpCount(p, s) \/ ForwardData(p, s) \/ PumpEof(p, s)
    \/ PumpClose(p, s) \/ PumpStops(p, s) \/ AppRead(p, s)

Next ==
    \/ \E s \in Streams : OpenStream(s) \/ OpenFails(s) \/ TakeEvent(s) \/ ReplyOpen(s)
    \/ \E p \in Peers : \/ TakeCmd(p) \/ SendFrame(p) \/ HandleFrame(p) \/ NoticeLoss(p)
                        \/ Write(p) \/ LoseConnection(p) \/ TakeDatagram(p)
                        \/ \E s \in Streams : StreamStep(p, s) \/ SendDatagram(p, s)

\* The loop on next_event: handle_tunnel's at the server, serve_datagrams' at the client.
TunnelLoop(p) ==
    \/ TakeDatagram(p)
    \/ p = "server" /\ \E s \in Streams : TakeEvent(s)

RunStep(p) == TakeCmd(p) \/ SendFrame(p) \/ HandleFrame(p) \/ NoticeLoss(p)

\* tokio runs every task that can run; the server's handler answers each open;
\* the applications read.  The 30 s ping makes a lost connection show itself.
Fairness ==
    /\ \A s \in Streams : WF_vars(ReplyOpen(s))
    /\ \A p \in Peers :
         /\ WF_vars(RunStep(p)) /\ WF_vars(up[p] /\ Write(p)) /\ WF_vars(TunnelLoop(p))
         /\ \A s \in Streams : WF_vars(StreamStep(p, s))

Spec == Init /\ [][Next]_vars
FairSpec == Spec /\ Fairness

----------------------------------------------------------------------------
TypeOK ==
    /\ chunks \in Workloads /\ up \in [Peers -> BOOLEAN]
    /\ \A p \in Peers :
         /\ Len(cmdQ[p]) <= CmdCap /\ Len(frameQ[p]) <= FrameCap /\ Len(wire[p]) <= WireCap
         /\ Range(frameQ[p]) \cup Range(wire[p]) \subseteq Frames
         /\ \A c \in Range(cmdQ[p]) \cup ({run[p]} \ {Idle}) :
              c \in [frame : Frames, then : {"none", "pend", "register"}]
    /\ pending \subseteq Streams
    /\ registered \in [Peers -> SUBSET Streams]
    /\ opener \in [Streams -> {"idle", "waiting", "ok", "err"}]
    /\ acceptor \in [Streams -> {"none", "event", "taken", "accepted", "refused", "barred"}]
    /\ pump \in [Peers -> [Streams -> {"none", "running", "counting", "eof", "done"}]]
    /\ \A p \in Peers, s \in Streams :
         Len(outQ[p][s]) <= OutCap /\ Range(outQ[p][s]) \subseteq Frames
    /\ {wrote, outstanding, got, readBy, owed}
         \subseteq [Peers -> [Streams -> 0..MaxFrames]]
    /\ closed \in [Peers -> [Streams -> BOOLEAN]]
    /\ \A p \in Peers : datagrams[p] \in 0..Datagrams[chunks][p] /\ Events(p) \in 0..(EventCap + 1)

\* A data frame is dropped without a trace if its stream is not in streams, so
\* the two registrations (after the ack is queued on one side, as it is handled
\* on the other) must come before any data can: the next frame a live peer
\* handles is never data for an unknown stream, and data comes in order.
NoDataDropped ==
    \A p \in Peers :
        LET f == Head(wire[Other(p)]) IN
        up[p] /\ wire[Other(p)] # <<>> /\ f.type = "data"
            => f.id \in registered[p] /\ f.n = got[p][f.id] + 1

\* STREAM_CLOSE travels the same queues as the data it must follow, but is put
\* there by another task: it never overtakes data.
CloseAfterData ==
    \A p \in Peers, s \in Streams : closed[p][s] => got[p][s] = chunks[Other(p)]

\* The frames p has still to get to its peer, in order.
Pipeline(p) ==
    wire[p] \o frameQ[p]
      \o (IF run[p] = Idle THEN <<>> ELSE <<run[p].frame>>)
      \o [i \in DOMAIN cmdQ[p] |-> cmdQ[p][i].frame]

\* The credit for stream s in the frames of Q.
CreditOf(f, s) == IF f.type = "credit" /\ f.id = s THEN f.n ELSE 0
Credits(Q, s) ==
    LET sum[n \in 0..Len(Q)] == IF n = 0 THEN 0 ELSE sum[n - 1] + CreditOf(Q[n], s)
    IN  sum[Len(Q)]

CreditInFlight(p, s) == Credits(Pipeline(p), s)

\* What the sender of stream s counts, with the chunk it has queued and not yet
\* counted, beyond what the receiver has not read, what it has read and holds
\* back, and the credit under way.
Drift(p, s) ==
    LET q == Other(p) IN
    outstanding[p][s] + (IF pump[p][s] = "counting" THEN 1 ELSE 0)
      - (wrote[p][s] - readBy[q][s] + owed[q][s] + CreditInFlight(q, s))

\* Credit may overtake the count of the chunk it is for, and the counter stops
\* at zero: that chunk then counts for good.  It happens to one chunk at most,
\* however often the tasks race: nothing else is lost or invented on the way
\* through the queues of both peers, and the window never opens further.
CreditAccounted ==
    \A p \in Peers, s \in Streams :
        s \in registered[p] /\ up[Other(p)] => Drift(p, s) \in 0..1

\* Both run tasks wait for room in frame_tx, and neither reads what the other
\* must get rid of: neither moves again, until the connection is lost.
MutuallyBlocked ==
    \A p \in Peers : /\ up[p] /\ run[p] # Idle
                     /\ Len(frameQ[p]) = FrameCap /\ Len(wire[p]) = WireCap

\* open_stream returns, also when the connection is lost, unless the two run
\* tasks block each other first.
OpenAnswered ==
    \A s \in Streams : opener[s] = "waiting" ~> opener[s] \in {"ok", "err"} \/ MutuallyBlocked

Lost == \E p \in Peers : ~up[p]

\* A sender whose window is closed and will not open again: its peer closed
\* first, or keeps what it owes, refused by a full command queue, and has
\* nothing more to read.
Stalled(p, s) ==
    /\ outstanding[p][s] >= Window
    /\ \/ closed[p][s]
       \/ readBy[Other(p)][s] = wrote[p][s] /\ CreditInFlight(Other(p), s) = 0

\* Once an open has succeeded, all that each side writes reaches the other's
\* application, unless the connection is lost, the direction stalls for good or
\* the two run tasks block each other.
TransferCompletes ==
    \A s \in Streams :
        opener[s] = "ok"
          ~> \/ \A p \in Peers : readBy[Other(p)][s] = chunks[p] \/ Stalled(p, s)
             \/ Lost \/ MutuallyBlocked

\* Neither side remembers a stream that both sides have closed, unless the two
\* run tasks block each other first.
StreamsForgotten ==
    \A s \in Streams :
        (\A p \in Peers : pump[p][s] = "done")
          ~> (\A p \in Peers : s \notin registered[p]) \/ MutuallyBlocked

----------------------------------------------------------------------------
\* "A slow write to TCP blocks only this task, not the handling of incoming
\* frames": the two connection tasks never end up waiting for each other.
NeverMutuallyBlocked == ~MutuallyBlocked
=============================================================================
