---------------------------- MODULE UdpSessions ----------------------------
(***************************************************************************)
(* The server's UDP session table (crates/hydr-server/src/udp.rs).  Tasks: *)
(*                                                                         *)
(*   forward   one per datagram of a client (handle_tunnel spawns it):     *)
(*             under the sessions lock it refreshes the session or creates *)
(*             it with its socket and reply task, then, without the lock,  *)
(*             resolves the target and sends;                              *)
(*   reply     one per session: sends what the socket receives to the      *)
(*             tunnel that created the session;                            *)
(*   sweep     removes the sessions that have been idle too long.          *)
(*                                                                         *)
(* A session is an incarnation number: the n-th session created, with its  *)
(* socket.  Idleness is a flag that only time sets.  What is under the     *)
(* sessions lock is one step.                                              *)
(***************************************************************************)
EXTENDS Integers, FiniteSets

CONSTANTS
    Tunnels,      \* client tunnels of the server
    IPs,          \* their client addresses
    Sids,         \* session ids clients choose
    Forwards,     \* forward tasks that may run at the same time
    MaxSessions,  \* UdpManager.max_sessions
    MaxPerIp,     \* UdpManager.max_per_ip
    MaxCreated    \* bound: sessions created in a behaviour

ASSUME UdpAssumption ==
    /\ IsFiniteSet(IPs) /\ IsFiniteSet(Sids)
    /\ MaxSessions \in Nat \ {0} /\ MaxPerIp \in Nat \ {0} /\ MaxCreated \in Nat

Keys == IPs \X Sids
Incarnations == 1..MaxCreated
None == 0

VARIABLES
    ipOf,      \* client_ip of each tunnel
    alive,     \* tunnels whose send_datagram still works
    sessions,  \* incarnation under each key, None if the key is absent
    idle,      \* those of the table whose last_active is older than SESSION_TIMEOUT
    perIp,     \* per_ip
    gauge,     \* metrics udp_sessions_current
    created,   \* sessions created so far
    done,      \* incarnations whose done has been sent
    upstream,  \* the tunnel an incarnation's reply task sends to
    replying,  \* incarnations whose reply task is running
    fwd,       \* the forward tasks: the datagram's tunnel and session id, and
               \* the session it is sent on once there is one
    user,      \* history: the tunnel whose datagram the incarnation last took
    misrouted  \* history: some reply was sent to another tunnel than that

tableVars == <<sessions, perIp, gauge, done>>
taskVars == <<created, upstream, replying>>
vars == <<ipOf, alive, sessions, idle, perIp, gauge, done, created, upstream, replying,
          fwd, user, misrouted>>

Present == {k \in Keys : sessions[k] # None}
Live == {sessions[k] : k \in Present}
OfIp(ip) == {k \in Present : k[1] = ip}

NoForward == [stage |-> "none", tunnel |-> None, sid |-> None, session |-> None]

\* The key of a session, and a mutant that keys sessions by id alone.
KeyById(t, sid) == <<CHOOSE ip \in IPs : TRUE, sid>>
KeyOf(t, sid) == <<ipOf[t], sid>>

Init ==
    /\ ipOf \in [Tunnels -> IPs]
    /\ alive = Tunnels
    /\ sessions = [k \in Keys |-> None]
    /\ idle = {}
    /\ perIp = [ip \in IPs |-> 0]
    /\ gauge = 0
    /\ done = {}
    /\ created = 0
    /\ upstream = [n \in Incarnations |-> None]
    /\ replying = {}
    /\ fwd = [f \in Forwards |-> NoForward]
    /\ user = [n \in Incarnations |-> None]
    /\ misrouted = FALSE

----------------------------------------------------------------------------
(* forward *)

\* The tests forward makes before it creates a session, and a mutant of the
\* per-IP test that is off by one.
HasRoomPlusOne(ip) == Cardinality(Present) < MaxSessions /\ perIp[ip] <= MaxPerIp
HasRoom(ip) == Cardinality(Present) < MaxSessions /\ perIp[ip] < MaxPerIp

\* A datagram of tunnel t arrives, and handle_tunnel spawns a forward task.
DatagramArrives(f, t, sid) ==
    /\ fwd[f] = NoForward /\ t \in alive
    /\ fwd' = [fwd EXCEPT ![f] = [stage |-> "spawned", tunnel |-> t, sid |-> sid, session |-> None]]
    /\ UNCHANGED <<ipOf, alive, tableVars, idle, taskVars, user, misrouted>>

\* What remains of forward after the lock: session n is used for the datagram.
Uses(f, n) ==
    /\ user' = [user EXCEPT ![n] = fwd[f].tunnel]
    /\ fwd' = [fwd EXCEPT ![f].stage = "sending", ![f].session = n]

\* The session exists: it is refreshed and its socket used.
ForwardExisting(f) ==
    LET n == sessions[KeyOf(fwd[f].tunnel, fwd[f].sid)] IN
    /\ fwd[f].stage = "spawned"
    /\ n # None
    /\ idle' = idle \ {n}
    /\ Uses(f, n)
    /\ UNCHANGED <<ipOf, alive, tableVars, taskVars, misrouted>>

\* It does not, and there is room: bind, spawn the reply task, insert, count.
ForwardNew(f) ==
    LET t == fwd[f].tunnel
        k == KeyOf(t, fwd[f].sid)
        n == created + 1
    IN
    /\ fwd[f].stage = "spawned"
    /\ created < MaxCreated
    /\ sessions[k] = None /\ HasRoom(ipOf[t])
    /\ created' = n
    /\ upstream' = [upstream EXCEPT ![n] = t]
    /\ replying' = replying \cup {n}
    /\ sessions' = [sessions EXCEPT ![k] = n]
    /\ perIp' = [perIp EXCEPT ![ipOf[t]] = @ + 1]
    /\ gauge' = gauge + 1
    /\ Uses(f, n)
    /\ UNCHANGED <<ipOf, alive, idle, done, misrouted>>

\* It does not, and a cap is reached or the bind fails: the datagram is dropped.
ForwardRefused(f) ==
    /\ fwd[f].stage = "spawned"
    /\ sessions[KeyOf(fwd[f].tunnel, fwd[f].sid)] = None
    /\ fwd' = [fwd EXCEPT ![f] = NoForward]
    /\ UNCHANGED <<ipOf, alive, tableVars, idle, taskVars, user, misrouted>>

\* Sessions leave the table: their reply tasks are told, and the counters follow
\* (decrement_per_ip, the gauge).  Mutants: the per-IP counter is forgotten; the
\* reply task is not told.
RemoveUncounted(ks) ==
    /\ sessions' = [k \in Keys |-> IF k \in ks THEN None ELSE sessions[k]]
    /\ done' = done \cup {sessions[k] : k \in ks}
    /\ idle' = idle \ {sessions[k] : k \in ks}
    /\ gauge' = gauge - Cardinality(ks)
    /\ UNCHANGED perIp
RemoveSilently(ks) ==
    /\ sessions' = [k \in Keys |-> IF k \in ks THEN None ELSE sessions[k]]
    /\ perIp' = [ip \in IPs |-> perIp[ip] - Cardinality({k \in ks : k[1] = ip})]
    /\ gauge' = gauge - Cardinality(ks)
    /\ idle' = idle \ {sessions[k] : k \in ks}
    /\ UNCHANGED done
Remove(ks) ==
    /\ sessions' = [k \in Keys |-> IF k \in ks THEN None ELSE sessions[k]]
    /\ done' = done \cup {sessions[k] : k \in ks}
    /\ idle' = idle \ {sessions[k] : k \in ks}
    /\ perIp' = [ip \in IPs |-> perIp[ip] - Cardinality({k \in ks : k[1] = ip})]
    /\ gauge' = gauge - Cardinality(ks)

\* The target resolves and the send succeeds; or resolve_target fails, which
\* returns before the send and leaves the session where it is.
ForwardDone(f) ==
    /\ fwd[f].stage = "sending"
    /\ fwd' = [fwd EXCEPT ![f] = NoForward]
    /\ UNCHANGED <<ipOf, alive, tableVars, idle, taskVars, user, misrouted>>

\* send_to fails: remove_session(&key) removes whatever session is under the key
\* by now, if any.
SendFails(f) ==
    /\ fwd[f].stage = "sending"
    /\ Remove({KeyOf(fwd[f].tunnel, fwd[f].sid)} \cap Present)
    /\ fwd' = [fwd EXCEPT ![f] = NoForward]
    /\ UNCHANGED <<ipOf, alive, taskVars, user, misrouted>>

----------------------------------------------------------------------------
(* The sweep, the reply tasks, and the tunnels *)

\* More than SESSION_TIMEOUT passes without a datagram from the client.
GrowsIdle(n) ==
    /\ n \in Live \ idle
    /\ idle' = idle \cup {n}
    /\ UNCHANGED <<ipOf, alive, tableVars, taskVars, fwd, user, misrouted>>

\* One turn of sweep_loop that finds stale sessions.  The mutant leaves those
\* whose reply task is gone.
SweepServed ==
    LET stale == {k \in Present : sessions[k] \in idle \cap replying} IN
    /\ stale # {}
    /\ Remove(stale)
    /\ UNCHANGED <<ipOf, alive, taskVars, fwd, user, misrouted>>
Sweep ==
    LET stale == {k \in Present : sessions[k] \in idle} IN
    /\ stale # {}
    /\ Remove(stale)
    /\ UNCHANGED <<ipOf, alive, taskVars, fwd, user, misrouted>>

\* The socket of session n receives a packet, and the tunnel takes it.
Reply(n) ==
    /\ n \in replying /\ upstream[n] \in alive
    /\ misrouted' = (misrouted \/ user[n] # upstream[n])
    /\ UNCHANGED <<ipOf, alive, tableVars, idle, taskVars, fwd, user>>

\* The tunnel does not: send_datagram fails when the connection is gone, and on
\* QUIC when the packet is larger than a datagram.  Or recv_from fails.
ReplyTaskFails(n) ==
    /\ n \in replying
    /\ replying' = replying \ {n}
    /\ UNCHANGED <<ipOf, alive, tableVars, idle, created, upstream, fwd, user, misrouted>>

\* The reply task sees done.
ReplyTaskStops(n) ==
    /\ n \in replying \cap done
    /\ replying' = replying \ {n}
    /\ UNCHANGED <<ipOf, alive, tableVars, idle, created, upstream, fwd, user, misrouted>>

TunnelCloses(t) ==
    /\ t \in alive
    /\ alive' = alive \ {t}
    /\ UNCHANGED <<ipOf, tableVars, idle, taskVars, fwd, user, misrouted>>

Next ==
    \/ \E f \in Forwards :
        \/ \E t \in Tunnels, sid \in Sids : DatagramArrives(f, t, sid)
        \/ ForwardExisting(f) \/ ForwardNew(f) \/ ForwardRefused(f)
        \/ ForwardDone(f) \/ SendFails(f)
    \/ Sweep
    \/ \E n \in Incarnations :
        GrowsIdle(n) \/ Reply(n) \/ ReplyTaskFails(n) \/ ReplyTaskStops(n)
    \/ \E t \in Tunnels : TunnelCloses(t)

Spec == Init /\ [][Next]_vars

\* The sweep's timer ticks for ever, and a task that can go on does.
Fairness ==
    /\ WF_vars(Sweep)
    /\ \A n \in Incarnations : WF_vars(ReplyTaskStops(n))
FairSpec == Spec /\ Fairness

----------------------------------------------------------------------------
TypeOK ==
    /\ ipOf \in [Tunnels -> IPs]
    /\ alive \subseteq Tunnels
    /\ sessions \in [Keys -> Incarnations \cup {None}]
    /\ idle \subseteq Incarnations
    /\ perIp \in [IPs -> Nat]
    /\ gauge \in Nat
    /\ created \in 0..MaxCreated
    /\ done \subseteq Incarnations
    /\ upstream \in [Incarnations -> Tunnels \cup {None}]
    /\ replying \subseteq Incarnations
    /\ fwd \in [Forwards -> {NoForward} \cup
                [stage : {"spawned", "sending"}, tunnel : Tunnels, sid : Sids,
                 session : Incarnations \cup {None}]]
    /\ user \in [Incarnations -> Tunnels \cup {None}]
    /\ misrouted \in BOOLEAN

\* per_ip duplicates the table and the gauge counts it: both agree with it after
\* any mixture of creations, failed sends and sweeps.
CountersExact ==
    /\ \A ip \in IPs : perIp[ip] = Cardinality(OfIp(ip))
    /\ gauge = Cardinality(Present)

\* Neither the table nor one address's share of it exceeds its cap.
CapsRespected ==
    /\ Cardinality(Present) <= MaxSessions
    /\ \A ip \in IPs : Cardinality(OfIp(ip)) <= MaxPerIp

\* CHANGELOG.md: sessions are keyed by (owner_ip, session_id), so a client of
\* another address cannot take a session over: whoever uses a session has the
\* address of the tunnel its replies go to.
OwnerOnly ==
    \A n \in Incarnations : user[n] # None => ipOf[user[n]] = ipOf[upstream[n]]

\* The reply task of a session that was removed ends, and with it the socket.
SocketsReleased == \A n \in Incarnations : n \in replying \ Live ~> n \notin replying

\* Idle sessions do not pile up, whatever became of their reply tasks: again and
\* again there is a moment when the table holds none.
IdleRemoved == []<>(Live \cap idle = {})

\* Comment of SessionKey: with (owner_ip, session_id) as the key one client does
\* not get hold of another's socket.  Every reply goes to the tunnel whose
\* datagrams its session takes.
RepliesReachUser == ~misrouted
=============================================================================
