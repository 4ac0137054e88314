------------------------------ MODULE ClientUdp ------------------------------
(***************************************************************************)
(* The client's UDP relay (crates/hydr-client/src/udp_relay.rs), together  *)
(* with the reconnections of ClientReconnect that it depends on:           *)
(*                                                                         *)
(*   associate    a SOCKS5 UDP ASSOCIATE: a socket, a session id, an entry *)
(*                in sessions, then a task that relays what the socket     *)
(*                receives through the shared handle;                      *)
(*   route_reply  serve_datagrams hands over each datagram it receives,    *)
(*                without the tunnel mutex, and it goes to the address the *)
(*                association's first packet came from.                    *)
(*                                                                         *)
(* Datagrams leave on the handle and are received on the tunnel, which are *)
(* two variables of the client.  The entry of an association is removed    *)
(* by its own task only: closing the TCP connection of the association     *)
(* removes nothing.                                                        *)
(***************************************************************************)
EXTENDS ClientReconnect

CONSTANTS
    Assocs,  \* UDP associations, each made once
    Apps,    \* local addresses that send to their sockets
    NoAddr,  \* no address yet
    Loads    \* bound: each a set of requests and associations made together

ASSUME RelayAssumption ==
    NoAddr \notin Apps /\ IsFiniteSet(Assocs) /\ Loads \subseteq SUBSET (Requests \cup Assocs)

NoSession == 0
NoTunnel == -1

VARIABLES
    load,          \* the requests and associations that are made
    task,          \* how far associate, and then the task it spawns, has come
    sid,           \* the session id of each association
    next_session,  \* UdpRelay.next_session
    sessions,      \* UdpRelay.sessions: client_addr by session id
    inbox,         \* the sessions with replies waiting in the current tunnel
    routing,       \* the session of the datagram route_reply has in hand
    server,        \* the tunnel the server's session replies to, by session id
    first          \* history: the first sender of each session

assocVars == <<task, sid, next_session>>
relayVars == <<assocVars, sessions, inbox, routing, server, first>>
allVars == <<reconnectVars, load, relayVars>>

Sids == 1..Cardinality(Assocs)

ClientInit ==
    /\ ReconnectInit
    /\ load \in Loads
    /\ task = [a \in Assocs |-> "none"]
    /\ sid = [a \in Assocs |-> NoSession]
    /\ next_session = 1
    /\ sessions = <<>>
    /\ inbox = <<>> /\ routing = NoSession
    /\ server = [s \in Sids |-> NoTunnel]
    /\ first = [s \in Sids |-> NoAddr]

Moves(a, source, target) == task[a] = source /\ task' = [task EXCEPT ![a] = target]

Listed(s) == s \in DOMAIN sessions
With(s, addr) == [x \in DOMAIN sessions \cup {s} |-> IF x = s THEN addr ELSE sessions[x]]
Without(s) == [x \in DOMAIN sessions \ {s} |-> sessions[x]]

----------------------------------------------------------------------------
(* associate and the task of an association *)

\* bind, fetch_add, insert.
Associate(a) ==
    /\ a \in load
    /\ Moves(a, "none", "listed")
    /\ sid' = [sid EXCEPT ![a] = next_session]
    /\ next_session' = next_session + 1
    /\ sessions' = With(next_session, NoAddr)
    /\ UNCHANGED <<reconnectVars, load, inbox, routing, server, first>>

\* The SOCKS5 reply is written and the task spawned; or it cannot be written,
\* and associate returns: the entry stays, with no task.
Spawn(a) ==
    /\ \/ Moves(a, "listed", "relaying")
       \/ Moves(a, "listed", "abandoned")
    /\ UNCHANGED <<reconnectVars, load, sid, next_session, sessions, inbox, routing, server, first>>

\* recv_from returns a packet of app that parse_udp_packet accepts, and
\* guard[&sid].client_addr is set if it is the first.  Indexing a map without the
\* key would panic.  The mutant keeps the last sender instead.
TakePacketOfAll(a, app) ==
    /\ Moves(a, "relaying", "sending")
    /\ sessions' = [sessions EXCEPT ![sid[a]] = app]
    /\ first' = [first EXCEPT ![sid[a]] = IF @ = NoAddr THEN app ELSE @]
    /\ UNCHANGED <<reconnectVars, load, sid, next_session, inbox, routing, server>>
TakePacket(a, app) ==
    /\ Moves(a, "relaying", "sending")
    /\ Listed(sid[a])
    /\ sessions' = [sessions EXCEPT ![sid[a]] = IF @ = NoAddr THEN app ELSE @]
    /\ first' = [first EXCEPT ![sid[a]] = IF @ = NoAddr THEN app ELSE @]
    /\ UNCHANGED <<reconnectVars, load, sid, next_session, inbox, routing, server>>

\* tunnel.read().send_datagram: the datagram goes out on the handle of that
\* moment, or is lost (a full command queue is no error).  The server's session
\* replies to the tunnel that created it.
SendDatagram(a) ==
    /\ handle \in alive
    /\ Moves(a, "sending", "relaying")
    /\ \/ server' = [server EXCEPT ![sid[a]] = IF @ = NoTunnel THEN handle ELSE @]
       \/ UNCHANGED server
    /\ UNCHANGED <<reconnectVars, load, sid, next_session, sessions, inbox, routing, first>>

\* send_datagram or recv_from fails: the loop of the task ends.
RelayEnds(a) ==
    /\ \/ handle \notin alive /\ Moves(a, "sending", "ending")
       \/ Moves(a, "relaying", "ending")
    /\ UNCHANGED <<reconnectVars, load, sid, next_session, sessions, inbox, routing, server, first>>

\* sessions.remove(&sid).
Unlist(a) ==
    /\ Moves(a, "ending", "gone")
    /\ sessions' = Without(sid[a])
    /\ UNCHANGED <<reconnectVars, load, sid, next_session, inbox, routing, server, first>>

----------------------------------------------------------------------------
(* The server, and the way of a reply *)

Waiting(s) == \E i \in DOMAIN inbox : inbox[i] = s

\* A reply for session s arrives (one at a time waits, the bound of inbox).
\* Nobody reads the tunnels that are not, or no longer, Client.tunnel: what
\* arrives there is lost.
ReplyArrives(s) ==
    /\ server[s] = tunnel /\ tunnel \in alive
    /\ ~Waiting(s)
    /\ inbox' = Append(inbox, s)
    /\ UNCHANGED <<reconnectVars, load, assocVars, sessions, routing, server, first>>

\* The server's session is swept.
ServerForgets(s) ==
    /\ server[s] # NoTunnel
    /\ server' = [server EXCEPT ![s] = NoTunnel]
    /\ UNCHANGED <<reconnectVars, load, assocVars, sessions, inbox, routing, first>>

\* recv_datagram returns a datagram to serve_datagrams.
ReceiveReply ==
    /\ inbox # <<>>
    /\ Receive
    /\ inbox' = Tail(inbox)
    /\ routing' = Head(inbox)
    /\ UNCHANGED <<load, assocVars, sessions, server, first>>

\* route_reply: an entry without an address, or none, drops the datagram.
\* The mutant waits for an address.
RouteReplyWaits ==
    /\ routing # NoSession
    /\ Listed(routing) /\ sessions[routing] # NoAddr
    /\ routing' = NoSession
    /\ UNCHANGED <<reconnectVars, load, assocVars, sessions, inbox, server, first>>
RouteReply ==
    /\ routing # NoSession
    /\ routing' = NoSession
    /\ UNCHANGED <<reconnectVars, load, assocVars, sessions, inbox, server, first>>

----------------------------------------------------------------------------
(* The steps of ClientReconnect *)

\* Installing a tunnel drops the one before it, with what it had received.
InstallTunnel(t) ==
    /\ Install(t)
    /\ inbox' = <<>>
    /\ UNCHANGED <<load, assocVars, sessions, routing, server, first>>

Reconnection(t) ==
    \/ InstallTunnel(t)
    \/ /\ ConnectOk(t) \/ ConnectFails(t) \/ Publish(t) \/ Count(t)
       /\ UNCHANGED <<load, relayVars>>

Request(r) == r \in load /\ Requesting(r) /\ UNCHANGED <<load, relayVars>>

\* serve_datagrams takes the mutex when route_reply has returned.
ServeLocks == routing = NoSession /\ LockTunnel /\ UNCHANGED <<load, relayVars>>
ServeFails == ReceiveFails /\ UNCHANGED <<load, relayVars>>
ServeGivesUp == ReceiveGarbage /\ UNCHANGED <<load, relayVars>>
ConnectionLost == (TunnelDies \/ ForceClose) /\ UNCHANGED <<load, relayVars>>

Relaying(a) == SendDatagram(a) \/ RelayEnds(a) \/ Unlist(a)

ClientNext ==
    \/ \E t \in Tasks : Reconnection(t)
    \/ \E r \in Requests : Request(r)
    \/ ServeLocks \/ ServeFails \/ ServeGivesUp \/ ConnectionLost
    \/ \E a \in Assocs :
        Associate(a) \/ Spawn(a) \/ Relaying(a) \/ \E app \in Apps : TakePacket(a, app)
    \/ \E s \in Sids : ReplyArrives(s) \/ ServerForgets(s)
    \/ ReceiveReply \/ RouteReply

ClientSpec == ClientInit /\ [][ClientNext]_allVars

\* As in ClientReconnect; serve_datagrams goes on when it can.
ServeStep == ServeLocks \/ ServeFails \/ ReceiveReply \/ RouteReply \/ Reconnection(Serve)
ClientFairness ==
    /\ WF_allVars(ServeStep)
    /\ \A r \in Requests : WF_allVars(Reconnection(r) \/ Request(r))
    /\ SF_allVars(ConnectOk(Serve) /\ UNCHANGED <<load, relayVars>>)
FairClientSpec == ClientSpec /\ ClientFairness

----------------------------------------------------------------------------
ClientTypeOK ==
    /\ ReconnectTypeOK
    /\ load \in Loads
    /\ task \in [Assocs -> {"none", "listed", "abandoned", "relaying", "sending", "ending", "gone"}]
    /\ sid \in [Assocs -> Sids \cup {NoSession}]
    /\ next_session \in 1..(Cardinality(Assocs) + 1)
    /\ DOMAIN sessions \subseteq Sids
    /\ sessions \in [DOMAIN sessions -> Apps \cup {NoAddr}]
    /\ inbox \in Seq(Sids)
    /\ routing \in Sids \cup {NoSession}
    /\ server \in [Sids -> 0..made \cup {NoTunnel}]
    /\ first \in [Sids -> Apps \cup {NoAddr}]

\* The task of an association indexes sessions with its id and would panic if
\* the entry were gone, and route_reply sends to the address in the entry: while
\* the task relays the entry is there, whatever route_reply and the other tasks
\* do, with the address the first packet came from, whoever else has sent.
EntryKept ==
    \A a \in Assocs : task[a] \in {"relaying", "sending", "ending"}
        => Listed(sid[a]) /\ sessions[sid[a]] = first[sid[a]]

\* A reply in the tunnel that serve_datagrams receives on reaches route_reply,
\* unless that tunnel dies or another one is installed in its place (which drops
\* the replies it holds): serve_datagrams is held up by nothing else, whatever
\* requests and associations do meanwhile.
Replaced == \E t \in Tasks : pc[t] = "publish"
RepliesRouted ==
    \A s \in Sids : Waiting(s) ~> routing = s \/ Replaced \/ tunnel \notin alive
=============================================================================
