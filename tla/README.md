# hydr: a verification development

TLA+ models of hydr (a proxy that tunnels TCP streams and UDP datagrams over
QUIC or WebSocket), the TLC configurations that check them and the proofs that
TLAPS checks. Paths are relative to `src/crates/`. The modules are written from
the code; where a document says something else, that is a finding (section 6).

    tlc -workers 2 -config MuxTunnel.cfg MCTunnel.tla     # a run
    tlapm WsFlowControlProofs.tla                         # a proof module

## 1. The system

| part | state it keeps | operations | modules |
|---|---|---|---|
| WebSocket flow control (`hydr-transport/src/ws.rs`) | per stream: bytes outstanding, a `Notify`; the reader's unreturned credit | `wait_window`, `sent`, `grant`, `pump_stream`, `CreditReader` | `WsFlowControl`, `BoundedPipe` |
| WebSocket tunnel (`ws.rs`) | command queue, `frame_tx`, event queue, stream and credit tables, pending opens | `open_stream`, `reply_open`, `send_datagram`, `pump_stream`, `run`, `handle_frame`, `writer` | `WsTunnel` |
| MUX sessions (`ws.rs`) | the server's authenticated stream ids, the client's `pending_auth` | `authenticate`, the `AUTH_*` and `OPEN_STREAM` arms of `handle_frame` | `MuxTunnel` |
| Anti-replay window (`hydr-core/src/obfuscation.rs`) | last, floor, seen | `observe`, `encrypt` | `ReplayFilter` |
| Certificate reload (`hydr-server/src/lib.rs`, `hydr-transport/src/tls.rs`) | two files, the endpoint's identity, `last_mtime` | `load_or_generate_self_signed`, `write_pem`, `spawn_cert_reload` | `CertReload` |
| Server admission (`hydr-server/src/lib.rs`) | attempts per address, nonce cache, permits, downstream slot | accept loops, `rate_allow`, `validate`, `handle_tunnel` | `Admission` |
| Server UDP sessions (`hydr-server/src/udp.rs`) | session table, per-address counts, a reply task per session | `forward`, `remove_session`, `sweep_loop` | `UdpSessions` |
| Multi-hop (`hydr-server/src/lib.rs`) | the downstream slot, a hop and a relay task per tunnel | `handle_tunnel`, `handle_datagram`, `connect_peer` | `NextHop` |
| Client (`hydr-client/src/lib.rs`) | the tunnel, its handle, a generation, two mutexes | `reconnect`, `reconnect_sync`, `open_stream_resilient`, `serve_datagrams` | `ClientReconnect` |
| Client UDP relay (`hydr-client/src/udp_relay.rs`) | `sessions`, `next_session`, a socket and a task per association | `associate`, its task, `route_reply` | `ClientUdp` |
| Codec (`hydr-core/src/{varint,address,message,frame}.rs`) | none | `encode`, `decode` | `Codec` |
| Readers (`quic.rs`, `hydr-client/src/socks5.rs`) | bytes read so far | `read_message`, `negotiate_method`, `verify_userpass`, `read_request`, `parse_udp_packet` | `StreamReaders` |

Section 8 says what is not modelled, and why.

How they interact. A SOCKS5 connection (readers) asks the client for a stream
(client), which sends `OPEN_STREAM` through a tunnel (tunnel, sessions, codec);
the server, which has admitted the tunnel (admission), connects the target, or
the next hop, and relays; data goes both ways under credit (flow control). A
WebSocket message may be wrapped by the obfuscation layer (anti-replay). UDP
datagrams skip the streams: the client's relay sends them on the handle and
receives on the tunnel, two variables that reconnections write one after the
other; the server keeps a socket per session and sends replies to the tunnel
that made it, or passes datagrams to the next hop.

What is hard here: three tasks per stream direction and two per connection that
share counters and bounded queues; a credit that comes back before the data it
is for has been counted; a `select!` whose arms await; mutexes held over awaits;
tables that repeat each other; a slot that all tunnels overwrite; two files that
are one identity; a run task that waits for the reader of its events;
connections that die at any moment. The list of hazards, each
with its line and the properties that would catch it, is in `PROJECT.json`.

## 2. The modules

**WsFlowControl** is one direction of one stream, byte by byte. The pump
(`pump_stream` and `wait_window`) has a control point for every place where
another task can come between: the first test, the subscription, the second
test, the sleep, the read, the push and the count. `grant` is two steps
(subtract, notify). A byte is a position in the stream: `pushed`, `delivered`,
`read`, `returned`, `credited` count how many have come that far. Everything
between the pump's queue and the receiver's duplex is one FIFO.
**BoundedPipe** is what a direction promises: a pipe of bounded capacity.

**WsTunnel** is a tunnel between two peers: command queues, run tasks, frame
queues, the connection, the pump and forwarder of each stream, the applications,
the datagrams and the loop that takes the events. A run task is idle or has one
frame it awaits room for (`run[p]`). Data frames are numbered; a window is
counted in frames. A pump queues a frame and counts it in two steps (`PumpData`,
`PumpCount`), so that its credit can come between. Opens and datagrams share the
event queue of the peer that receives them; a run task whose event does not fit
(`Waiting`) does nothing until the tunnel loop has taken one. A lost connection
ends a run task (`EndRun`), whose peer then notices; its writer is a task of its
own and goes on with what is in `frame_tx`.

**MuxTunnel** extends it with the sessions of MUX mode. It adds the frames of an
authentication to the same queues, splits the handling of `OPEN_STREAM` by the
session table, and leaves every other step of `WsTunnel` as it is. Whether the
server is in MUX mode is chosen at the start; the mode is the transport library's,
for a caller that opens streams under their own sessions, and hydr's client does
not use it. **MCTunnel** has the workloads.

**ReplayFilter** is `observe` under its mutex against a network that repeats and
reorders what was sent. **CertReload** is the start of the QUIC listener and its
watcher against an operator who replaces the two files in either order, and
against a process that is killed between any two steps. The identities are
numbered, and a number stands for the modification time of the file it is in.

**Admission** follows each connection through the rate limiter (two steps: the
clock, the lock), the handshake and its timeout, `validate` with the nonce cache
(queue and set are separate variables, as in the code), the permit, the next hop
and the event loop. Time is a counter. The attempts of an address are a set of
numbered records, so that two at one instant are two. On a WebSocket connection
every further AUTH_REQUEST is validated as well (`Revalidate`), without a limit of
the code. What nobody holds any more goes on (`orphan`): the timeout and a refused
permit drop the tunnel, and the run task answers frames until the socket ends.

**MCListeners** puts `Admission`, `ReplayFilter` and `CertReload` together for TLC.
They share no state, so one moves while the others are at their start.

**UdpSessions** numbers the sessions; a key maps to the number of its session.
What runs under the `sessions` lock is one step, what follows it another.
**NextHop** is a server with `next_hop`: a hop is named by the tunnel that
connected it. It has the slot, who fills it, reads it and leaves, and the relay
tasks. On which hop a reply comes back is not in it: the next server keeps its
sessions by address and id (`udp.rs:123`), all hops have one address and all
clients begin with the same ids, so replies may go to any of the clients.
**ServerDatagrams** is a server of either configuration.

**ClientReconnect** has a control point for each await of `reconnect`,
`reconnect_sync`, `open_stream_resilient` and `serve_datagrams`; the two tokio
mutexes are FIFO queues whose head holds the lock. An open can also fail while
the tunnel is up (`OpenDropped`): on QUIC, `next_event` drops a stream it has
half-read when a datagram wins its `select!`. And `serve_datagrams` can give up a
tunnel that is up (`ReceiveGarbage`): on QUIC a datagram that does not decode is
an error like any other.

**ClientUdp** extends it with the associations: the entry, the task, the
packets of local applications, the replies a tunnel has received and
`route_reply`. `server[s]` is what matters of the server's session table: to
which tunnel the session of that id replies. Replies that a tunnel has received and
nobody has read are gone when another tunnel is installed.

**MCClient** puts `WsFlowControl` and `ClientUdp` together for TLC; `subject` says
which of the two moves in a behaviour.

**Codec** has the encoders and decoders as operators. A message is a sequence of
fields and its schema the sequence of their kinds, so each message type of
`message.rs` is one line. A byte is a number below `4 * Low`; the code has
`Low = 64`. **StreamReaders** is the code that reads such messages off a byte
stream with `read_exact`, the SOCKS5 dialogue, one `read_exact` a step, and the
SOCKS5 UDP packet, which arrives whole; `MCStreamReaders` has the sample values.

## 3. The runs

| run | shows | bounds, and why they are enough |
|---|---|---|
| `tunnel` | `NoDataDropped`, `CloseAfterData`, `CreditAccounted` (a sum over every queue), `MuxEnforced`: exactly the streams of authenticated ids reach the tunnel loop. `OpenAnswered`, `AuthAnswered`, `TransferCompletes`, `StreamsForgotten` | one stream, window 2, all queues of one. Three loads: 3 frames down; 1 frame down with sessions; 1 frame up, with 1 datagram up and 2 down. Every queue fills, the window closes, credit overtakes the count, a run task waits for the tunnel loop, the connection dies anywhere, the open overtakes the answer to its authentication, and the two run tasks block each other during transfers and closes (not while an open or an authentication waits: that takes more traffic than these loads have) |
| `listeners` | `HandshakesBounded`, `ReplayRefused`, `CacheConsistent`, `SlotsConserved` of the admission. `AcceptedOnce`, `ReorderedAccepted`, `SeenBounded` of the replay window. `IdentitySurvives`: one identity is served until the operator deploys another | 3 connections of one address, 2 listeners, 3 nonces, 2 further AUTH_REQUESTs, cache of 2, one permit, a next hop: overflow, expiry, replay, no permit. Window 2, 8 packets: `seen` is purged several times. 3 identities and 2 crashes: a generated pair and two deployments, crashes during the save and after it |
| `datagrams` | `CountersExact`, `CapsRespected`, `OwnerOnly`, `SocketsReleased`, `IdleRemoved` of the session table. `SlotFilled` of the next hop | 2 tunnels, 2 addresses, 2 ids, 3 sessions created, caps 2 and 1: a key is used again after its session is gone. 2 clients with a hop each: one takes the slot over while the other's tasks still use it |
| `client` | `DriftBounded`: sending before counting loses at most a chunk of window, never more however often it happens. `NeverStarved`: no lost wakeup. `ImplementsPipe`: unread bytes bounded. `TransferCompletes`. And `OncePerGeneration`, `EntryKept`, `TunnelRestored`, `RepliesRouted` | window 4, batch 2, chunk 2, 9 bytes: the window fills twice, credit overtakes the count, batches are refused. Two of 2 requests and 2 associations at a time, 2 applications, `serve_datagrams`, 1 lost or given up connection besides those the requests close: reconnections of two tasks cross |
| `streams` | `ReadBack`, `DataLeft`, `CutIsEof`, `AuthEnforced`, `SessionServed` | bytes of four bits (`Low = 4`): numbers on both sides of every varint limit, every cut of every message, all SOCKS5 sessions over 3 logins and 5 addresses, a UDP packet for each address |

Seven runs expect a violation; each is a finding of section 6: `flow_halfclose`,
`tunnel_blocked` (one stream, both peers writing 3 frames, window 3, all queues of
one), `admission_authfail`, `cert_missed`, `udp_shared`, `client_stuck`,
`client_crossed`.

`CHECK_DEADLOCK FALSE` everywhere: each of these systems may really come to rest
(a transfer over, all packets sent, connections closed); that nothing rests too
early is what the liveness properties and `NeverMutuallyBlocked` say.

Some properties say less than their names, because the code gives no more:

- `HandshakesBounded` counts connections, not authentications. The comments at
  `hydr-server/src/lib.rs:22` and 216 speak of attempts to authenticate; on a
  WebSocket connection that was let in these are unlimited (`ws.rs:813-848`,
  `Revalidate`). And the clock is read before the lock, so the guarantee is for a
  window shorter by the time a call can take (`MaxDelay`).
- `CreditAccounted` and `DriftBounded` are not equalities: credit may overtake the
  count of the chunk it is for, and `saturating_sub` then forgets it. What holds is
  that one chunk is lost at most, over all races, and that nothing is made up.
- `OpenAnswered`, `AuthAnswered`, `TransferCompletes` and `StreamsForgotten` of the
  tunnel hold until the two run tasks block each other (`MutuallyBlocked`, which
  the code allows: finding 2). `AuthAnswered` and `TransferCompletes` exempt a lost
  connection, and `TransferCompletes` also a window that closed for good
  (`Stalled`): after the peer's close (finding 1), or with a batch of credit that a
  full queue refused and no later read returns.
- `OncePerGeneration` is about requests that reacted to the same generation. One
  that loads the generation only after another has counted does replace a tunnel
  that is up.
- `RepliesRouted` exempts a tunnel that is replaced or dies: what it had received
  is then lost, also when a request replaces it that did not have to.
- `CutIsEof` is about messages of a stream and frames. A datagram and a SOCKS5 UDP
  packet have no length of their own: cut, they are shorter packets.
- `ReadBack`: a number keeps 62 bits, which PROTOCOL.md says too. For SOCKS5
  requests and packets it is, like `SessionServed`, about names shorter than `Low`
  (64 in the code) and not about IPv6: the one-byte length is parsed as a varint, so
  longer names are refused or misread, and an IPv6 request is always refused.
- `SlotFilled` says that the slot is not empty, and nothing of whose hop is in it.

Every property has a mutant in `PROJECT.json`, a plausible bug of the code that
violates it.

## 4. Fairness

- tokio polls every task that can run: weak fairness of a task's steps. A task
  that can do several things (a run task, `serve_datagrams`) gets one condition
  for all of them.
- The tunnel loops take their events (weak fairness of `TunnelLoop`): each spawns a
  task for what it takes and comes back.
- A connection that is alive delivers; a lost one is noticed (the 30 s ping).
- `TransferCompletes` assumes that applications read; `Stalled` and the
  `pending >= Batch` case name what the code does not guarantee: credit refused
  by a full queue comes back only with a later read.
- `UdpSessions` assumes the sweep's timer and the scheduling of reply tasks, and
  nothing of sends, datagrams or tunnels. `NextHop` is safety only, so
  `ServerDatagrams` states this fairness for a server without `next_hop`.
- `CertReload` assumes, for `cert_missed`, that the watcher's timer ticks for ever;
  nothing of the operator. `ReplayFilter` is safety only.
- `ClientReconnect`, `ClientUdp`: every attempt to connect ends (the code gives the
  one over WebSocket no timeout of its own), and one that `serve_datagrams` repeats
  for ever succeeds once (strong fairness of its `ConnectOk`). Nothing is assumed of
  datagrams arriving, nor of local applications.
- `StreamReaders`: the network delivers what was sent, unless the peer closes.
- `Admission` is checked for safety only.

## 5. The proofs

`WsFlowControlProofs`, from `FlowAssumption` (a batch and a chunk fit in the
window, as in the code): `FlowSpec => []IInv` for an inductive invariant that says
where each byte is. Its parts: the counters are ordered
(`credited <= returned <= read <= delivered <= pushed`, with
`returned + pending = read`); the credit on the wire is an increasing sequence of
totals that ends at `returned`; the drift is between 0 and a chunk, and the chunk
in hand explains it at each control point; a pump that sleeps without a wakeup
has a closed window. From it follow `FlowTypeOK`, `DriftBounded`, `NeverStarved` and
the refinement `FlowImplementsPipe`. None of these is inductive alone: the drift,
for instance, needs to know that credit is never returned for bytes not pushed.

`MuxTunnelProofs`: `NoDataDropped`, `CloseAfterData` and `MuxEnforced` for any
number of streams, any amount of data and queues of any size, over the loss of
the connection at any step. The properties are about what is at the front of a
queue, so the invariant must say what is in all of them. Wire, `frame_tx`, the
frame in hand, the command queue and the stream's own queue, one behind the
other, are one sequence (`Channel`), and nearly every action leaves it alone,
puts a frame in, takes its first one off or cuts it: the lemmas of the first half
say which, without a word on what the frames mean. Those of the second half say
what that does to four facts about each stream: in a direction whose receiver is
up, each data frame not yet received is in the channel once, in order and before
the close (`DataInv`); data of the acceptor is behind the ack that registers the
stream at the opener, or the stream is registered (`RegInv`); there is one open,
and an ack only once it was taken (`OpenInv`); a good request of authentication
is in the channel, before the open that went after it, or its id is in
`sessions` (`SessInv`).

`MuxCreditProofs`: `CreditAccounted` for any number of streams and queues of any
size. The credit in flight is a sum over queues, a recursive function on
sequences (`Credits`); the lemmas of the first half say what appending, taking
the first and cutting do to it. The invariant adds to that of `MuxTunnelProofs`
the books of each direction (`CreditOk`): while both ends are up and the sender
has registered the stream, what its `StreamCredit` has out, with the chunk that is
sent and not yet counted, is what it wrote less what the receiving application has
read, plus what the `CreditReader` still holds back and what is on its way as
credit; or one chunk more than that. The one chunk is what `saturating_sub` forgets
when the credit of everything the receiver has read, the uncounted chunk included,
comes before the count. That it happens once is the point of the proof: to forget a
second chunk the counter would have to be at zero again, and the first one keeps it
above. Registering a stream starts its books anew, so a stream must be registered
only once on each side (`StartInv`). The same module has the bounds of every queue
and count (`BInv`), the event queue's among them (`EventInv`: at most its capacity
and the one event in the run task's hand), and from them `MuxTypeOK`.

`ListenersProofs`, of the replay window: `FilterTypeOK`, `AcceptedOnce`,
`ReorderedAccepted` and `SeenBounded` for every window and number of packets. The
invariant says that `floor` is `last` minus the window (or 0), and that what was
accepted at or above the floor is still in `seen`; the memory bound counts the
numbers between floor and last.

The same module, of the certificate: `IdentitySurvives` for any number of
identities and crashes. What makes it inductive (`SingleInv`): while the operator has deployed
nothing, an identity that was ever served is in both files, and whatever key is on disk
has its certificate beside it.

`AdmissionProofs`, from `AdmissionAssumption`. The queue of the nonce cache is
the end of the log of grants (`Coherent`): what of the log is no longer in the
queue had expired when it left, or a whole cache of grants has come after it, and
no nonce is queued twice. Eviction, a grant and the overflow keep this, one lemma
each; `ReplayRefused` and `CacheConsistent` follow. `ReplayRefused` alone says
nothing of what the cache remembers, so it is not inductive. The proof needs no
order of the time stamps. `SlotsConserved` needs one more fact (`HandInv`): the
connection an accept loop has in hand is at the limiter and in no other hand, so
the limiter never moves a tunnel in service. `HandshakesBounded` is about the history
of an address, which the limiter has forgotten in part. `LogInv` says what it
must remember: an attempt younger than the shortened window is still among the
recorded ones, since its stamp is at most `MaxDelay` older than the moment it
passed (`DelayInv`), and there are never more than `AuthMax` of those. An attempt
that is let through adds to windows that end now, and each of those fits in the
recorded ones (`RecentFits`, `Logged`).

`ServerDatagramsProofs`, of the session table, from `UdpAssumption`: `TypeOK`, `CountersExact`,
`CapsRespected` and `OwnerOnly`. The counters follow the table because what is
removed was in the table (`RemoveStep`) and what is inserted was not
(`InsertStep`); `perIp` staying a natural number is a consequence. The owner's
part (`OwnerInv`) relates the address in a session's key to the tunnel its reply
task sends to.

The same module, of the next hop: `SlotFilled` for any number of clients. Once a
client is served the slot is filled, and only those that were have tasks
(`HopInv`). `ServerSpec` implements both of its parts (`ServerSafe`).

`ClientUdpProofs`, of the reconnection, from `ReconnectAssumption`: `ReconnectTypeOK` and
`OncePerGeneration`. `QueueInv` makes `reconnect_lock` a mutex: only the head of
the queue is between the test of `tunnel_gen` and the release. `PastInv`: a
generation some request reacted to has passed, or that request is still about to
count it, with the lock; hence (`FirstInv`) a request that passes the test is the
first to react to its generation, and stays so although `serve_datagrams` counts
without the lock.

The same module, of the relay: every step of `ClientUdp` is a step of `ClientReconnect` or
leaves its variables alone (`ClientImplementsReconnect`), so `OncePerGeneration`
holds next to any number of associations. `EntriesAreKept`: session ids are handed
out in order and no two associations have the same (`SidInv`), so only the task of
an association can remove its entry.

`StreamReadersProofs`, for every base `Low` of the bytes from 2 up (the code has
64) and all values a message can have. Two parts.

The codec. `Decodes` says what a decoder makes of bytes that begin like an
encoded value, as far as they go: with all of it there, the value and its length,
whatever follows; with a byte missing, `UnexpectedEof`. It is proved of varints
(`VarintDecodes`, by what Horner's rule computes digit by digit), strings,
addresses, each kind of field, and by induction over the schema of a whole
message (`PrefixDecodes`). The frame's body is the exception it is in the code: a
length above `MAX_BODY_LEN` is refused at once. What a message cut anywhere
decodes to (`CutIsEof`) is the second half of that statement.

The readers. Each reading stands at a piece of the peer's bytes (`Piece`), behind
what was read before (`Passed`): it has the first bytes of the piece and no others
(`Place`). A `read_exact` asks for no more than the piece still has (`Asks`, one
lemma for each reading), because the lengths it goes by are those the peer wrote.
A peer that does not keep to the dialogue, and sends a login unasked or none when
it should, puts the reader at a piece not meant for it; then the test of the first
bytes refuses it before a length of the wrong piece is believed
(`CompleteIsMeant`). `ReadBack`, `DataLeft` and `AuthEnforced` follow, the last
with the fact that a request is only read after a login that matched. The
assumptions on the values are those of the Rust types: numbers are `u64`, a
SOCKS5 length fits in its byte, no buffer has 2^62 bytes; and that the names of
hosts are ASCII, since `from_utf8_lossy` changes others. Not every value is one a
decoder accepts (a packet with a fragment number is refused), so the theorems say
that what is accepted is what was sent; that a legal session is in the end
accepted is liveness (`SessionServed`).

Where an induction is needed (`MuxCreditProofs`, `StreamReadersProofs`), it is
made from the least element of a set of naturals (`LeastNat`, `Induct`): the set
of the lengths for which a statement holds is all of them. A recursive function
is unfolded after it has been shown to exist (`RunExists`).

Every safety property of a passing run is a theorem. Only model-checked: the
liveness properties, which the prover does not reach. TLC also evaluates the
assumptions on the constants, in the runs whose modules have them.

## 6. Findings

1. `flow_halfclose`: the peer's STREAM_CLOSE removes the credit entry of our own
   direction (`ws.rs:946`); a half-closed stream stops for good when its window
   is full.
2. `tunnel_blocked`: both run tasks await `frame_tx` inside `select!` and read
   nothing meanwhile (`ws.rs:716`): two peers with full pipes block each other.
3. `admission_authfail`: a tunnel whose authentication failed is served
   (`quic.rs:217`, `ws.rs:816`; PROTOCOL.md:99 says it MUST be closed).
4. `udp_shared`: clients of one address share a session when they use the same
   id (`udp.rs:123`), and every client starts at 1 (`udp_relay.rs:31`).
5. `client_stuck`: `serve_datagrams` holds the tunnel mutex while it waits for a
   datagram (`lib.rs:195`); a request that reconnects meanwhile never returns.
6. `cert_missed`: the watcher records the certificate's modification time before it
   loads, and looks at no other file (`hydr-server/src/lib.rs:378`): a pair
   deployed with the certificate first, and noticed between the two, is not served
   until a SIGHUP or the next deployment. The comments at `lib.rs:322` and 330
   promise the reload on every OS.
7. `client_crossed`: `serve_datagrams` reconnects without `reconnect_lock`, and
   `reconnect` assigns tunnel and handle one after the other (`lib.rs:135-138`):
   after two that crossed they are different tunnels. Datagrams leave on one and are
   awaited on the other, and `force_close` closes the wrong one; the comments at
   `lib.rs:52` and 180 promise otherwise.

Seen while modelling, without a run:

- The comments at `hydr-server/src/lib.rs:22` and 216 speak of a limit on the attempts
  to authenticate of an address. It is one on connections: the AUTH_REQUESTs of a
  WebSocket connection are all validated (`ws.rs:813-848`).
- A WebSocket connection whose handshake timed out after the upgrade, or that got no
  permit, is not closed: its run task goes on and answers AUTH_REQUESTs
  (`hydr-server/src/lib.rs:523` and 549, `ws.rs:668`).
- The run task waits for its tunnel loop when 1024 events are queued
  (`ws.rs:891`, 959), and handles no other frame meanwhile.
- On QUIC a single datagram that does not decode makes the client replace a tunnel
  that is up (`quic.rs:74-77`).
- Behind a next hop the replies to clients that use the same session id go to the
  tunnel that made the next server's session (`udp.rs:157`), whoever sent.
- `authenticate` waits for ever when the connection is lost before the answer:
  `run` leaves `pending_auth` alone (`ws.rs:788`).
- A crash between the two writes of a generated pair leaves a listener that does
  not start until an operator removes or completes the file (`tls.rs:62`).
- The UDP association of a SOCKS5 connection outlives it (`udp_relay.rs:84`).
- SOCKS5 requests for IPv6 are always refused, and names of 64 bytes or more
  refused or misread.
- A pump parked on a closed window outlives its connection; a lost connection
  looks like a clean end of file.

## 7. What is abstracted

Payloads, cryptography, DNS and sockets are outcomes; back-off delays and log
lines are left out; queue capacities are small constants; the window of
`WsTunnel` is counted in frames (`WsFlowControl` has it in bytes).

The bounds are named where they are used: `Total` (bytes of a transfer);
`Workloads`, `SessionLoads` and `Datagrams` (the frames each application writes,
with which of those workloads authentications are made, and the datagrams each
peer sends with them); `EventCap` (1024 in the code); `MaxSeq` (packets);
`MaxIdentities` and `MaxCrashes`; `MaxTime`, `MaxDelay` and `MaxRepeats`; `MaxCreated`
(sessions); `MaxDeaths` (connections lost or given up; a request may besides close a tunnel
that is up) and `Loads` (which requests and associations are made together). The
inbox of `ClientUdp` holds one reply per session. Certificate files are replaced
and never removed, and a generated pair can be saved.

## 8. Not modelled

- Congestion control: `window_for` is a product of rate and round-trip time
  clamped to constants. Its only state is its last value, so no order of calls
  has an outcome of its own.
- TLS beyond the certificate's files: pinning and ALPN are configuration of
  rustls.
- Metrics: independent counters and their text. The two gauges that repeat other
  state are in `UdpSessions` and `Admission`.
- Configuration, command line, generated code, error types: no state.
- Pings of the WebSocket tunnel, except that they make a lost connection show itself.
- `WsTunnel::close`, which sends a close of stream 0 that the peer ignores.
  (`WsHandle::close`, of `force_close`, does nothing if the command queue is full;
  in `ClientReconnect` it may come or not.)
- The MUX filter on datagram frames: a server in MUX mode drops those of other ids
  than 0 that are not authenticated, but `send_datagram` sends all with id 0.
- On which hop the next server sends a reply back.
- quinn's connections and streams: the client's view of them is in
  `ClientReconnect`, the messages on them in `StreamReaders`.
- The replies of SOCKS5, which are constant bytes; the delays between attempts to
  connect, and the order in which transports are tried: the outcome is that an
  attempt succeeds or fails.

What could follow: a refinement from `WsTunnel` to `BoundedPipe`, for frames; the
join of `ClientUdp` with `UdpSessions`, which replaces `server` by the server's
own table.
