--------------------------- MODULE ClientReconnect ---------------------------
(***************************************************************************)
(* How the client replaces a dead tunnel (crates/hydr-client/src/lib.rs).  *)
(* Two kinds of task call Client::reconnect:                               *)
(*                                                                         *)
(*   request   a SOCKS5 CONNECT in open_stream_resilient: opens a stream   *)
(*             on the shared handle; on a transport error it reconnects    *)
(*             through reconnect_sync (reconnect_lock, and tunnel_gen to   *)
(*             see that another request already has) and opens once more;  *)
(*   serve     serve_datagrams: receives on the tunnel, holding its mutex  *)
(*             while it waits; on an error it sleeps and calls reconnect   *)
(*             itself, without reconnect_lock.                             *)
(*                                                                         *)
(* reconnect connects, installs the new tunnel under the tunnel mutex,     *)
(* publishes its handle, and counts it in tunnel_gen, in that order.       *)
(* Both mutexes are tokio's: they are granted in the order of the queue,   *)
(* whose head holds the lock.  A tunnel is a number, in the order the      *)
(* connections were made.  The back-off delays are not modelled.           *)
(***************************************************************************)
EXTENDS Integers, Sequences, FiniteSets

CONSTANTS
    Requests,   \* SOCKS5 CONNECT requests, each made once
    Serve,      \* the serve_datagrams task
    MaxDeaths   \* bound: tunnels that die, or that serve_datagrams gives up

ASSUME ReconnectAssumption ==
    IsFiniteSet(Requests) /\ Serve \notin Requests /\ MaxDeaths \in Nat

Tasks == Requests \cup {Serve}

VARIABLES
    pc,          \* control point of each task
    tunnel,      \* Client.tunnel
    handle,      \* Client.handle
    tunnel_gen,  \* Client.tunnel_gen
    tunnelLock,  \* queue of the tunnel mutex
    reconnLock,  \* queue of reconnect_lock
    mine,        \* the handle a request opens on, or the tunnel a task has made
    seen,        \* the generation reconnect_sync loaded
    alive,       \* tunnels whose connection is up
    made,        \* tunnels connected so far, besides the first
    deaths,      \* connections lost or given up so far
    replaced     \* history: the requests that installed a tunnel, with seen

lockVars == <<tunnelLock, reconnLock>>
clientVars == <<tunnel, handle, tunnel_gen>>
worldVars == <<alive, made, deaths>>
reconnectVars == <<pc, tunnel, handle, tunnel_gen, tunnelLock, reconnLock, mine, seen,
          alive, made, deaths, replaced>>

ReconnectInit ==
    /\ pc = [t \in Tasks |-> IF t = Serve THEN "loop" ELSE "new"]
    /\ tunnel = 0 /\ handle = 0 /\ tunnel_gen = 0
    /\ tunnelLock = <<>> /\ reconnLock = <<>>
    /\ mine = [t \in Tasks |-> 0]
    /\ seen = [t \in Tasks |-> 0]
    /\ alive = {0} /\ made = 0 /\ deaths = 0
    /\ replaced = {}

Holds(lock, t) == lock # <<>> /\ Head(lock) = t
Advances(t, from, to) == pc[t] = from /\ pc' = [pc EXCEPT ![t] = to]

----------------------------------------------------------------------------
(* reconnect, by either kind of task; After(t) is where it returns to *)

After(t) == IF t = Serve THEN "loop" ELSE "retry"

\* The guard of reconnect_sync is dropped when reconnect returns.
Unlock(t) == reconnLock' = IF t = Serve THEN reconnLock ELSE Tail(reconnLock)

\* connect_tunnel succeeds, and the task queues for the tunnel mutex.
ConnectOk(t) ==
    /\ Advances(t, "connect", "install")
    /\ made' = made + 1
    /\ mine' = [mine EXCEPT ![t] = made']
    /\ alive' = alive \cup {made'}
    /\ tunnelLock' = Append(tunnelLock, t)
    /\ UNCHANGED <<clientVars, reconnLock, seen, deaths, replaced>>

\* connect_tunnel fails: serve_datagrams loops, a request gives up.
ConnectFails(t) ==
    /\ Advances(t, "connect", IF t = Serve THEN "loop" ELSE "failed")
    /\ Unlock(t)
    /\ UNCHANGED <<clientVars, tunnelLock, mine, seen, worldVars, replaced>>

\* *tunnel = new_tunnel, under the mutex.
Install(t) ==
    /\ Holds(tunnelLock, t)
    /\ Advances(t, "install", "publish")
    /\ tunnel' = mine[t]
    /\ tunnelLock' = Tail(tunnelLock)
    /\ replaced' = IF t = Serve THEN replaced ELSE replaced \cup {<<t, seen[t]>>}
    /\ UNCHANGED <<handle, tunnel_gen, reconnLock, mine, seen, worldVars>>

\* *self.handle.write().await = handle.
Publish(t) ==
    /\ Advances(t, "publish", "count")
    /\ handle' = mine[t]
    /\ UNCHANGED <<tunnel, tunnel_gen, lockVars, mine, seen, worldVars, replaced>>

\* tunnel_gen.fetch_add(1), and reconnect returns.
Count(t) ==
    /\ Advances(t, "count", After(t))
    /\ tunnel_gen' = tunnel_gen + 1
    /\ Unlock(t)
    /\ UNCHANGED <<tunnel, handle, tunnelLock, mine, seen, worldVars, replaced>>

----------------------------------------------------------------------------
(* open_stream_resilient *)

\* A clone of the shared handle is taken.
ReadHandle(r) ==
    /\ \/ Advances(r, "new", "open")
       \/ Advances(r, "retry", "reopen")
    /\ mine' = [mine EXCEPT ![r] = handle]
    /\ UNCHANGED <<clientVars, lockVars, seen, worldVars, replaced>>

\* open_stream succeeds, or the server answers that it cannot connect: an error
\* of the protocol, which is not retried.
OpenAnswered(r) ==
    /\ mine[r] \in alive
    /\ \/ Advances(r, "open", "done")
       \/ Advances(r, "reopen", "done")
    /\ UNCHANGED <<clientVars, lockVars, mine, seen, worldVars, replaced>>

\* open_stream fails with a transport error; the second time it is returned.
OpenFails(r) ==
    /\ mine[r] \notin alive
    /\ \/ Advances(r, "open", "stale")
       \/ Advances(r, "reopen", "failed")
    /\ UNCHANGED <<clientVars, lockVars, mine, seen, worldVars, replaced>>

\* On QUIC, next_event of the server races accept_stream against recv_datagram:
\* a datagram drops the stream it has accepted and not read yet, and the client
\* sees a transport error on a tunnel that is up.
OpenDropped(r) ==
    /\ mine[r] \in alive
    /\ \/ Advances(r, "open", "stale")
       \/ Advances(r, "reopen", "failed")
    /\ UNCHANGED <<clientVars, lockVars, mine, seen, worldVars, replaced>>

\* reconnect_sync loads the generation and queues for reconnect_lock.
LoadSeen(r) ==
    /\ Advances(r, "stale", "waiting")
    /\ seen' = [seen EXCEPT ![r] = tunnel_gen]
    /\ reconnLock' = Append(reconnLock, r)
    /\ UNCHANGED <<clientVars, tunnelLock, mine, worldVars, replaced>>

\* The generation has changed: another task has reconnected.
SkipReconnect(r) ==
    /\ Holds(reconnLock, r)
    /\ tunnel_gen # seen[r]
    /\ Advances(r, "waiting", "retry")
    /\ Unlock(r)
    /\ UNCHANGED <<clientVars, tunnelLock, mine, seen, worldVars, replaced>>

\* It has not.  The mutant does not look again once it has the lock.
StartReconnectBlindly(r) ==
    /\ Holds(reconnLock, r)
    /\ Advances(r, "waiting", "connect")
    /\ UNCHANGED <<clientVars, lockVars, mine, seen, worldVars, replaced>>
StartReconnect(r) ==
    /\ Holds(reconnLock, r)
    /\ tunnel_gen = seen[r]
    /\ Advances(r, "waiting", "connect")
    /\ UNCHANGED <<clientVars, lockVars, mine, seen, worldVars, replaced>>

----------------------------------------------------------------------------
(* serve_datagrams *)

LockTunnel ==
    /\ Advances(Serve, "loop", "recv")
    /\ tunnelLock' = Append(tunnelLock, Serve)
    /\ UNCHANGED <<clientVars, reconnLock, mine, seen, worldVars, replaced>>

\* recv_datagram returns a datagram; the mutex is free while it is routed.
Receive ==
    /\ Holds(tunnelLock, Serve) /\ tunnel \in alive
    /\ Advances(Serve, "recv", "loop")
    /\ tunnelLock' = Tail(tunnelLock)
    /\ UNCHANGED <<clientVars, reconnLock, mine, seen, worldVars, replaced>>

\* recv_datagram fails, the mutex is released, and after the delay serve
\* reconnects.  The mutant: serve gives up.
ReceiveGivesUp ==
    /\ Holds(tunnelLock, Serve) /\ tunnel \notin alive
    /\ Advances(Serve, "recv", "failed")
    /\ tunnelLock' = Tail(tunnelLock)
    /\ UNCHANGED <<clientVars, reconnLock, mine, seen, worldVars, replaced>>
ReceiveFails ==
    /\ Holds(tunnelLock, Serve) /\ tunnel \notin alive
    /\ Advances(Serve, "recv", "connect")
    /\ tunnelLock' = Tail(tunnelLock)
    /\ UNCHANGED <<clientVars, reconnLock, mine, seen, worldVars, replaced>>

\* On QUIC recv_datagram also fails for a datagram that does not decode: serve
\* gives up a tunnel that is up.
ReceiveGarbage ==
    /\ Holds(tunnelLock, Serve) /\ tunnel \in alive
    /\ deaths < MaxDeaths
    /\ deaths' = deaths + 1
    /\ Advances(Serve, "recv", "connect")
    /\ tunnelLock' = Tail(tunnelLock)
    /\ UNCHANGED <<clientVars, reconnLock, mine, seen, alive, made, replaced>>

----------------------------------------------------------------------------
Loses(t) ==
    /\ t \in alive /\ deaths < MaxDeaths
    /\ alive' = alive \ {t}
    /\ deaths' = deaths + 1
    /\ UNCHANGED <<pc, clientVars, lockVars, mine, seen, made, replaced>>

\* A connection is lost.
TunnelDies == \E t \in alive : Loses(t)

\* force_close: the connection of the current handle is closed.
ForceClose == Loses(handle)

Reconnecting(t) ==
    ConnectOk(t) \/ ConnectFails(t) \/ Install(t) \/ Publish(t) \/ Count(t)

Requesting(r) ==
    \/ ReadHandle(r) \/ OpenAnswered(r) \/ OpenFails(r) \/ OpenDropped(r)
    \/ LoadSeen(r) \/ SkipReconnect(r) \/ StartReconnect(r)

ReconnectNext ==
    \/ \E t \in Tasks : Reconnecting(t)
    \/ \E r \in Requests : Requesting(r)
    \/ LockTunnel \/ Receive \/ ReceiveFails \/ ReceiveGarbage
    \/ TunnelDies \/ ForceClose

ReconnectSpec == ReconnectInit /\ [][ReconnectNext]_reconnectVars

\* Every task goes on when it can.  A connection attempt ends, and one that is
\* tried again and again succeeds in the end.  Nothing is assumed of Receive:
\* the server need never send a datagram; nor of the connections' deaths.
ReconnectFairness ==
    /\ \A t \in Tasks : WF_reconnectVars(Reconnecting(t))
    /\ SF_reconnectVars(ConnectOk(Serve))
    /\ \A r \in Requests : WF_reconnectVars(Requesting(r))
    /\ WF_reconnectVars(LockTunnel) /\ WF_reconnectVars(ReceiveFails)
FairReconnectSpec == ReconnectSpec /\ ReconnectFairness

----------------------------------------------------------------------------
Points == {"new", "open", "stale", "waiting", "connect", "install", "publish", "count",
           "retry", "reopen", "done", "failed", "loop", "recv"}

ReconnectTypeOK ==
    /\ pc \in [Tasks -> Points]
    /\ tunnel_gen \in Nat /\ made \in Nat
    /\ tunnel \in 0..made /\ handle \in 0..made /\ alive \subseteq 0..made
    /\ mine \in [Tasks -> 0..made] /\ seen \in [Tasks -> Nat]
    /\ tunnelLock \in Seq(Tasks) /\ reconnLock \in Seq(Requests)
    /\ deaths \in 0..MaxDeaths
    /\ replaced \subseteq Requests \X Nat

\* Two requests that reacted to the same generation never both replace the
\* tunnel: the second one finds the generation changed, even when
\* serve_datagrams reconnects at the same time.  (One that loads the generation
\* only after the other has counted does replace the new, live tunnel.)
OncePerGeneration ==
    \A x, y \in replaced : x[2] = y[2] => x = y

\* A dead tunnel is replaced by a live one, whatever the requests are doing.
TunnelRestored == tunnel \notin alive ~> tunnel \in alive

\* Comments of reconnect_lock ("serialises the reconnections") and of force_close
\* ("closes the current tunnel; serve_datagrams then reconnects"): when no task is
\* about to replace the tunnel, the handle, which force_close closes and requests
\* use, is that of the tunnel serve_datagrams receives on.
Quiet == \A t \in Tasks : pc[t] \notin {"connect", "install", "publish", "count"}
HandleMatchesTunnel == Quiet => handle = tunnel

\* Comment of open_stream_resilient: a transport failure leads to a reconnect
\* and a second attempt.  A request whose stream failed opens again, or fails.
RetryHappens ==
    \A r \in Requests : pc[r] = "stale" ~> pc[r] \in {"reopen", "failed", "done"}
=============================================================================
