----------------------------- MODULE Admission -----------------------------
(***************************************************************************)
(* How the server admits a connection (crates/hydr-server/src/lib.rs):     *)
(*                                                                         *)
(*   accept loop   run_quic_endpoint and run_ws_listener, one task each:   *)
(*                 rate_allow by IP, then a task per connection;           *)
(*   handshake     the transport handshake, which calls validate (nonce    *)
(*                 cache) and hands the tunnel over, whatever validate     *)
(*                 answered; the WS handshake has a timeout;               *)
(*   tunnel        handle_tunnel: a permit, the next hop if one is         *)
(*                 configured, the event loop, the release of the permit;  *)
(*   run           of a WS connection (crates/hydr-transport/src/ws.rs):   *)
(*                 answers every AUTH_REQUEST for as long as the socket is *)
(*                 up, also when nobody holds the tunnel: an "orphan".     *)
(*                                                                         *)
(* rate_allow reads the clock before it takes its lock, so it is two       *)
(* steps; NonceCache::insert reads it under the lock and is one.           *)
(* Time is a counter.  The version, nonce length and proof tests of        *)
(* validate are one nondeterministic outcome; what they refuse never       *)
(* reaches the cache.                                                      *)
(***************************************************************************)
EXTENDS Integers, Sequences, FiniteSets

CONSTANTS
    Conns,       \* connections that may arrive
    IPs,         \* client addresses
    Nonces,      \* client nonces
    AuthWindow,  \* AUTH_WINDOW
    AuthMax,     \* AUTH_MAX_PER_IP
    CacheMax,    \* REPLAY_CACHE_MAX
    ReplayTtl,   \* REPLAY_TTL
    MaxConns,    \* ServerConfig.max_conns
    NoConn,      \* no connection, or nothing in a slot
    NextHop,     \* ServerConfig.next_hop is configured
    MaxRepeats,  \* bound: AUTH_REQUESTs besides those of the handshakes
    MaxDelay,    \* bound: a call of rate_allow takes its lock within this time
    MaxTime      \* bound on the clock

ASSUME AdmissionAssumption ==
    /\ IsFiniteSet(Conns) /\ NoConn \notin Conns
    /\ AuthWindow \in Nat \ {0} /\ AuthMax \in Nat \ {0}
    /\ CacheMax \in Nat \ {0} /\ ReplayTtl \in Nat \ {0}
    /\ MaxConns \in Nat \ {0} /\ NextHop \in BOOLEAN
    /\ MaxRepeats \in Nat /\ MaxDelay \in Nat /\ MaxTime \in Nat

Listeners == {"quic", "ws"}

VARIABLES
    now,        \* the monotonic clock
    accepting,  \* the connection an accept loop has in hand, with the stamp
                \* rate_allow took for it
    attempts,   \* auth_attempts: the attempts allowed, with their stamps, per IP
    conn,       \* control point of each connection
    via,        \* the listener each connection came in by
    order,      \* NonceCache.order
    set,        \* NonceCache.set
    verdict,    \* what validate answered in the handshake
    permits,    \* conn_permits: available permits
    active,     \* conns_active
    downstream, \* Server.downstream: whose next-hop tunnel is in the slot
    allowed,    \* history: when rate_allow returned true, per IP
    granted,    \* history: nonces accepted as fresh, with the time
    repeats     \* AUTH_REQUESTs besides those of the handshakes, so far

rateVars == <<accepting, attempts, allowed>>
cacheVars == <<order, set, granted>>
nonceVars == <<cacheVars, verdict, repeats>>
slotVars == <<permits, active, downstream>>
vars == <<now, accepting, attempts, conn, via, order, set, verdict,
          permits, active, downstream, allowed, granted, repeats>>

Free == [conn |-> NoConn, ip |-> NoConn, stamp |-> 0]

Init ==
    /\ now = 0
    /\ accepting = [l \in Listeners |-> Free]
    /\ attempts = [ip \in IPs |-> {}]
    /\ conn = [c \in Conns |-> "outside"]
    /\ via = [c \in Conns |-> "quic"]
    /\ order = <<>>
    /\ set = {}
    /\ verdict = [c \in Conns |-> "none"]
    /\ permits = MaxConns
    /\ active = 0
    /\ downstream = NoConn
    /\ allowed = [ip \in IPs |-> {}]
    /\ granted = <<>>
    /\ repeats = 0

Tick ==
    /\ now < MaxTime
    /\ \A l \in Listeners : accepting[l].conn # NoConn => now - accepting[l].stamp < MaxDelay
    /\ now' = now + 1
    /\ UNCHANGED <<rateVars, conn, via, nonceVars, slotVars>>

----------------------------------------------------------------------------
(* The accept loops and the rate limiter *)

\* accept returns a connection; rate_allow reads the clock.
Accept(l, c, ip) ==
    /\ accepting[l].conn = NoConn
    /\ conn[c] = "outside"
    /\ accepting' = [accepting EXCEPT ![l] = [conn |-> c, ip |-> ip, stamp |-> now]]
    /\ conn' = [conn EXCEPT ![c] = "limiter"]
    /\ via' = [via EXCEPT ![c] = l]
    /\ UNCHANGED <<now, attempts, allowed, nonceVars, slotVars>>

\* The retain of rate_allow: duration_since saturates, so a stamp of the
\* future is kept.  The mutant drops a stamp one tick too early.
RecentTight(tried, t) == {x \in tried : t - x.stamp < AuthWindow - 1}
Recent(tried, t) == {x \in tried : t - x.stamp < AuthWindow}

\* rate_allow under its lock; a connection over the limit is dropped.  The
\* attempts of an address are numbered, so that two of one instant are two.
RateAllow(l) ==
    LET a == accepting[l]
        recent == Recent(attempts[a.ip], a.stamp)
        ok == Cardinality(recent) < AuthMax
        n == Cardinality(allowed[a.ip])
    IN
    /\ a.conn # NoConn
    /\ accepting' = [accepting EXCEPT ![l] = Free]
    /\ attempts' = [attempts EXCEPT ![a.ip] = recent \cup
                      IF ok THEN {[n |-> n, stamp |-> a.stamp]} ELSE {}]
    /\ allowed' = [allowed EXCEPT ![a.ip] =
                     @ \cup IF ok THEN {[n |-> n, at |-> now]} ELSE {}]
    /\ conn' = [conn EXCEPT ![a.conn] = IF ok THEN "handshake" ELSE "closed"]
    /\ UNCHANGED <<now, via, nonceVars, slotVars>>

----------------------------------------------------------------------------
(* The handshake and the nonce cache *)

Remembered(q) == {q[i].nonce : i \in DOMAIN q}
Expired(e) == now - e.at >= ReplayTtl

\* evict_expired: entries leave from the front, the oldest, while expired.
\* The mutant leaves them in the set.
ExpiredFront(q) == {i \in DOMAIN q : \A j \in 1..i : Expired(q[j])}
EvictExpired(q) == SubSeq(q, Cardinality(ExpiredFront(q)) + 1, Len(q))
SetAfterEvictionKept(q) == set
SetAfterEviction(q) == set \ (Remembered(order) \ Remembered(q))

\* The trailing loop of insert: what leaves the cache when it is over its
\* capacity.  The mutant clears it, as the code once did.
OverflowClears(q) == IF Len(q) > CacheMax THEN <<q[Len(q)]>> ELSE q
Overflow(q) == IF Len(q) > CacheMax THEN Tail(q) ELSE q

\* NonceCache::insert of a nonce that is not in the cache.
InsertFresh(n) ==
    LET kept == EvictExpired(order)
        grown == Append(kept, [nonce |-> n, at |-> now])
    IN
    /\ n \notin SetAfterEviction(kept)
    /\ order' = Overflow(grown)
    /\ set' = (SetAfterEviction(kept) \cup {n}) \ (Remembered(grown) \ Remembered(order'))
    /\ granted' = Append(granted, [nonce |-> n, at |-> now])

\* NonceCache::insert of a nonce that is: the eviction has happened.
InsertReplayed(n) ==
    LET kept == EvictExpired(order) IN
    /\ n \in SetAfterEviction(kept)
    /\ order' = kept
    /\ set' = SetAfterEviction(kept)
    /\ UNCHANGED granted

\* ServerValidator: what validate answers to one request.
Validates(answer) ==
    \/ answer = "ok" /\ \E n \in Nonces : InsertFresh(n)
    \/ answer = "refused" /\ \E n \in Nonces : InsertReplayed(n)
    \/ answer = "refused" /\ UNCHANGED cacheVars

\* The handshake reads the AuthRequest, validates it, answers, and returns the
\* tunnel: server_handshake and the AUTH_REQUEST arm of handle_frame do so
\* whatever the answer is.
Validate(c) ==
    /\ conn[c] = "handshake"
    /\ \E answer \in {"ok", "refused"} :
         /\ Validates(answer)
         /\ verdict' = [verdict EXCEPT ![c] = answer]
    /\ conn' = [conn EXCEPT ![c] = "validated"]
    /\ UNCHANGED <<now, rateVars, via, slotVars, repeats>>

\* The AUTH_REQUEST arm on any other frame: one of a session, before or after
\* the handshake, or one more of stream 0.
Revalidate(c) ==
    /\ via[c] = "ws"
    /\ conn[c] \in {"handshake", "validated", "hop", "open", "orphan"}
    /\ repeats < MaxRepeats
    /\ repeats' = repeats + 1
    /\ \E answer \in {"ok", "refused"} : Validates(answer)
    /\ UNCHANGED <<now, rateVars, conn, via, verdict, slotVars>>

\* The handshake fails, or the connection is lost during it.
HandshakeFails(c) ==
    /\ conn[c] = "handshake"
    /\ conn' = [conn EXCEPT ![c] = "closed"]
    /\ UNCHANGED <<now, rateVars, via, nonceVars, slotVars>>

\* WS_HANDSHAKE_TIMEOUT drops the accept: during the upgrade that ends the
\* connection, afterwards the run task goes on.  It may strike after validate has
\* spent the nonce.
HandshakeTimeout(c) ==
    /\ via[c] = "ws"
    /\ \/ conn[c] = "handshake" /\ conn' = [conn EXCEPT ![c] = "closed"]
       \/ conn[c] \in {"handshake", "validated"} /\ conn' = [conn EXCEPT ![c] = "orphan"]
    /\ UNCHANGED <<now, rateVars, via, nonceVars, slotVars>>

\* What becomes of a connection whose tunnel is dropped: on QUIC it is closed; on
\* WS the run task does not notice, and tunnel.close closes stream 0 only.
Dropped(c) == IF via[c] = "ws" THEN "orphan" ELSE "closed"

\* The client hangs up; or the run task finds that nobody takes its events.
OrphanEnds(c) ==
    /\ conn[c] = "orphan"
    /\ conn' = [conn EXCEPT ![c] = "closed"]
    /\ UNCHANGED <<now, rateVars, via, nonceVars, slotVars>>

----------------------------------------------------------------------------
(* handle_tunnel *)

\* try_take_conn succeeds.
TakePermit(c) ==
    /\ conn[c] = "validated"
    /\ permits > 0
    /\ permits' = permits - 1
    /\ active' = active + 1
    /\ conn' = [conn EXCEPT ![c] = IF NextHop THEN "hop" ELSE "open"]
    /\ UNCHANGED <<now, rateVars, via, nonceVars, downstream>>

\* try_take_conn fails, and handle_tunnel returns.
NoPermit(c) ==
    /\ conn[c] = "validated"
    /\ permits = 0
    /\ conn' = [conn EXCEPT ![c] = Dropped(c)]
    /\ UNCHANGED <<now, rateVars, via, nonceVars, slotVars>>

\* release_conn.
Release ==
    /\ active' = active - 1
    /\ permits' = permits + 1

\* connect_next_hop succeeds: the one downstream slot now holds this tunnel's.
HopConnects(c) ==
    /\ conn[c] = "hop"
    /\ downstream' = c
    /\ conn' = [conn EXCEPT ![c] = "open"]
    /\ UNCHANGED <<now, rateVars, via, nonceVars, permits, active>>

\* A mutant that returns without release_conn.
HopFailsLeaks(c) ==
    /\ conn[c] = "hop"
    /\ conn' = [conn EXCEPT ![c] = Dropped(c)]
    /\ UNCHANGED <<now, rateVars, via, nonceVars, slotVars>>
HopFails(c) ==
    /\ conn[c] = "hop"
    /\ Release
    /\ conn' = [conn EXCEPT ![c] = Dropped(c)]
    /\ UNCHANGED <<now, rateVars, via, nonceVars, downstream>>

\* next_event fails; the downstream slot is left as it is.
TunnelEnds(c) ==
    /\ conn[c] = "open"
    /\ Release
    /\ conn' = [conn EXCEPT ![c] = "closed"]
    /\ UNCHANGED <<now, rateVars, via, nonceVars, downstream>>

Next ==
    \/ Tick
    \/ \E l \in Listeners : RateAllow(l) \/ \E c \in Conns, ip \in IPs : Accept(l, c, ip)
    \/ \E c \in Conns :
        \/ Validate(c) \/ Revalidate(c) \/ HandshakeFails(c) \/ HandshakeTimeout(c) \/ OrphanEnds(c)
        \/ TakePermit(c) \/ NoPermit(c)
        \/ HopConnects(c) \/ HopFails(c) \/ TunnelEnds(c)

Spec == Init /\ [][Next]_vars

----------------------------------------------------------------------------
Stages == {"outside", "limiter", "handshake", "validated", "hop", "open", "orphan", "closed"}
Entries == [nonce : Nonces, at : 0..MaxTime]

TypeOK ==
    /\ now \in 0..MaxTime
    /\ accepting \in [Listeners -> [conn : Conns, ip : IPs, stamp : 0..MaxTime] \cup {Free}]
    /\ attempts \in [IPs -> SUBSET [n : Nat, stamp : 0..MaxTime]]
    /\ conn \in [Conns -> Stages]
    /\ via \in [Conns -> Listeners]
    /\ order \in Seq(Entries)
    /\ set \subseteq Nonces
    /\ verdict \in [Conns -> {"none", "ok", "refused"}]
    /\ permits \in 0..MaxConns
    /\ active \in 0..MaxConns
    /\ downstream \in Conns \cup {NoConn}
    /\ allowed \in [IPs -> SUBSET [n : Nat, at : 0..MaxTime]]
    /\ granted \in Seq(Entries)
    /\ repeats \in 0..MaxRepeats

\* rate_allow lets at most AUTH_MAX_PER_IP connections of an address begin a
\* handshake in any window.  The clock is read before the lock is taken, so two
\* accept loops may record their stamps out of order: what is guaranteed is a
\* window shorter by the time a call may take, and nothing more is lost.  (Its
\* comment speaks of attempts to authenticate; but a WS connection that was let in
\* may call validate again and again, which nothing limits: see Revalidate.)
HandshakesBounded ==
    \A ip \in IPs : \A t \in 0..MaxTime :
        Cardinality({a \in allowed[ip] : a.at \in (t - (AuthWindow - MaxDelay) + 1)..t}) <= AuthMax

\* A nonce is accepted a second time only when its record has expired, or when
\* a whole cache of other nonces came after it: an overflow costs one entry,
\* never the recent ones.
ReplayRefused ==
    \A i, j \in DOMAIN granted :
        i < j /\ granted[i].nonce = granted[j].nonce =>
            \/ granted[j].at - granted[i].at >= ReplayTtl
            \/ j - i > CacheMax

\* The set and the queue of the cache remember the same nonces, each once, and
\* never more than the capacity, however insertions, expiry and overflow mix.
CacheConsistent ==
    /\ set = Remembered(order)
    /\ Cardinality(set) = Len(order)
    /\ Len(order) <= CacheMax

\* Every permit is available or held by a tunnel being set up or served, and
\* conns_active counts the latter: no exit of handle_tunnel leaks one.
Serving == {c \in Conns : conn[c] \in {"hop", "open"}}
SlotsConserved ==
    /\ permits + Cardinality(Serving) = MaxConns
    /\ active = Cardinality(Serving)

\* PROTOCOL.md: "If authentication fails the server MUST close the tunnel."
\* No connection whose request was refused is ever served as a tunnel.
FailedAuthCloses == \A c \in Conns : verdict[c] = "refused" => c \notin Serving
=============================================================================
