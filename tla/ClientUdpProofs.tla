--------------------------- MODULE ClientUdpProofs ---------------------------
(***************************************************************************)
(* Proofs about ClientReconnect, for any number of requests and of tunnels *)
(* that die: reconnect_lock and the second look at tunnel_gen are enough   *)
(* to keep requests from replacing a tunnel twice, although                *)
(* serve_datagrams counts generations without the lock.  And about         *)
(* ClientUdp, for any number of associations and applications: the client  *)
(* with its relay is a client of ClientReconnect, and the task of an       *)
(* association always finds its entry.                                     *)
(***************************************************************************)
EXTENDS ClientUdp, FiniteSetTheorems, TLAPS

----------------------------------------------------------------------------
(* Reconnections *)

\* The types of what the argument is about.
SyncTypes ==
    /\ pc \in [Tasks -> Points]
    /\ tunnel_gen \in Nat
    /\ reconnLock \in Seq(Requests)
    /\ seen \in [Tasks -> Nat]
    /\ replaced \subseteq Requests \X Nat

\* Where a request is between the look at tunnel_gen and the release of the lock.
Working(r) == pc[r] \in {"connect", "install", "publish", "count"}

\* Who is queued for reconnect_lock waits for it or works under it; a request
\* is queued once; and only the head works.
QueueInv ==
    /\ \A i \in 1..Len(reconnLock) : pc[reconnLock[i]] = "waiting" \/ Working(reconnLock[i])
    /\ \A i, j \in 1..Len(reconnLock) : reconnLock[i] = reconnLock[j] => i = j
    /\ \A r \in Requests : Working(r) => Holds(reconnLock, r)

\* A generation was loaded when it was the current one, or has passed.
SeenInv == \A r \in Requests : seen[r] <= tunnel_gen

\* A generation that was reacted to has passed, or who did so is about to count.
PastInv ==
    \A x \in replaced :
        \/ x[2] < tunnel_gen
        \/ pc[x[1]] \in {"publish", "count"} /\ seen[x[1]] = x[2]

\* Who is about to install a tunnel is the first to react to the generation.
FirstInv ==
    \A r \in Requests : pc[r] \in {"connect", "install"} => \A x \in replaced : x[2] # seen[r]

IInv == SyncTypes /\ QueueInv /\ SeenInv /\ PastInv /\ FirstInv /\ OncePerGeneration

----------------------------------------------------------------------------
\* At the start nobody is queued and nothing has been replaced.
LEMMA InitInv == ReconnectInit => IInv
BY ReconnectAssumption
   DEF ReconnectInit, IInv, SyncTypes, QueueInv, SeenInv, PastInv, FirstInv, OncePerGeneration,
       Points, Tasks, Working, Holds

\* A task moves; the serve task is none of the requests.
LEMMA MovesTask ==
    ASSUME SyncTypes, NEW t \in Tasks, NEW from, NEW to \in Points, Advances(t, from, to)
    PROVE  /\ pc' \in [Tasks -> Points]
           /\ pc[t] = from /\ pc'[t] = to
           /\ \A u \in Tasks : u # t => pc'[u] = pc[u]
BY DEF SyncTypes, Advances

\* Two requests do not work under the lock at the same time.
LEMMA Alone ==
    ASSUME QueueInv, NEW r \in Requests, NEW q \in Requests,
           Holds(reconnLock, r), Working(q)
    PROVE  q = r
BY DEF QueueInv, Holds

\* The release of the lock by its holder r, which stops working: the others move
\* up, and none of them is r.
LEMMA Released ==
    ASSUME SyncTypes, QueueInv, NEW r \in Requests, Holds(reconnLock, r),
           pc'[r] \in Points, ~Working(r)',
           \A u \in Tasks : u # r => pc'[u] = pc[u],
           reconnLock' = Tail(reconnLock)
    PROVE  reconnLock' \in Seq(Requests) /\ QueueInv'
<1> USE DEF SyncTypes
<1>1. reconnLock # <<>> /\ Len(reconnLock) \in Nat /\ Len(reconnLock) >= 1
  BY DEF Holds
<1>2. reconnLock[1] = r
  BY <1>1 DEF Holds
<1>3. /\ reconnLock' \in Seq(Requests)
      /\ Len(reconnLock') = Len(reconnLock) - 1
      /\ \A i \in 1..Len(reconnLock') : /\ reconnLock'[i] = reconnLock[i + 1]
                                        /\ i + 1 \in 1..Len(reconnLock)
  BY <1>1
<1>4. ASSUME NEW i \in 1..Len(reconnLock')
      PROVE  reconnLock'[i] \in Requests /\ reconnLock'[i] # r
  BY <1>1, <1>2, <1>3 DEF QueueInv
<1>5. ASSUME NEW i \in 1..Len(reconnLock')
      PROVE  (pc[reconnLock[i]] = "waiting" \/ Working(reconnLock[i]))'
  BY <1>3, <1>4 DEF QueueInv, Working, Tasks
<1>6. ASSUME NEW i \in 1..Len(reconnLock'), NEW j \in 1..Len(reconnLock'),
             reconnLock'[i] = reconnLock'[j]
      PROVE  i = j
  BY <1>3, <1>6 DEF QueueInv
<1>7. ASSUME NEW q \in Requests, Working(q)' PROVE FALSE
  <2>1. q # r
    BY <1>7
  <2>2. Working(q)
    BY <1>7, <2>1 DEF Working, Tasks
  <2>3. QED
    BY <2>1, <2>2, Alone
<1>8. QED
  BY <1>3, <1>5, <1>6, <1>7 DEF QueueInv

----------------------------------------------------------------------------
\* A step that leaves the lock and what was loaded and replaced alone, and moves
\* no request into or out of its work: most of them, and all of serve_datagrams,
\* which may count a generation.
LEMMA QuietStep ==
    ASSUME IInv, NEW t \in Tasks, pc' \in [Tasks -> Points],
           \A u \in Tasks : u # t => pc'[u] = pc[u],
           tunnel_gen' \in Nat, tunnel_gen' >= tunnel_gen,
           UNCHANGED <<reconnLock, seen, replaced>>,
           t \in Requests =>
               /\ pc[t] = "waiting" => pc'[t] = "waiting"
               /\ Working(t) <=> Working(t)'
               /\ pc[t] \in {"publish", "count"} => pc'[t] \in {"publish", "count"}
    PROVE  IInv'
<1> USE DEF IInv, Tasks
<1>1. SyncTypes'
  BY DEF SyncTypes
<1>2. \A r \in Requests : /\ pc[r] = "waiting" => pc'[r] = "waiting"
                          /\ Working(r) <=> Working(r)'
                          /\ pc[r] \in {"publish", "count"} => pc'[r] \in {"publish", "count"}
  BY DEF Working
<1>3. QueueInv'
  <2>1. \A i \in 1..Len(reconnLock) : reconnLock[i] \in Requests
    BY DEF SyncTypes
  <2>2. QED
    BY <1>2, <2>1 DEF QueueInv, Holds, Working
<1>4. SeenInv'
  BY DEF SeenInv, SyncTypes
<1>5. PastInv'
  <2> SUFFICES ASSUME NEW x \in replaced
               PROVE  \/ x[2] < tunnel_gen'
                      \/ pc'[x[1]] \in {"publish", "count"} /\ seen[x[1]] = x[2]
    BY DEF PastInv
  <2>1. x[1] \in Requests /\ x[2] \in Nat
    BY DEF SyncTypes
  <2>2. CASE x[2] < tunnel_gen
    BY <2>1, <2>2 DEF SyncTypes
  <2>3. CASE pc[x[1]] \in {"publish", "count"} /\ seen[x[1]] = x[2]
    BY <2>1, <2>3, <1>2
  <2>4. QED
    BY <2>2, <2>3 DEF PastInv
<1>6. FirstInv'
  BY <1>2 DEF FirstInv, Working
<1>7. QED
  BY <1>1, <1>3, <1>4, <1>5, <1>6 DEF OncePerGeneration

\* What a request that stops working leaves behind: it had replaced nothing, or
\* the generation is counted.
LEMMA ReleaseStep ==
    ASSUME IInv, NEW r \in Requests, NEW to \in Points,
           Advances(r, pc[r], to), to \in {"retry", "failed"},
           Holds(reconnLock, r), reconnLock' = Tail(reconnLock),
           UNCHANGED <<seen, replaced>>,
           \/ tunnel_gen' = tunnel_gen /\ pc[r] \notin {"publish", "count"}
           \/ tunnel_gen' = tunnel_gen + 1
    PROVE  IInv'
<1> USE DEF IInv
<1>1. /\ pc' \in [Tasks -> Points] /\ pc'[r] = to
      /\ \A u \in Tasks : u # r => pc'[u] = pc[u]
  BY MovesTask DEF Tasks
<1>2. ~Working(r)'
  BY <1>1 DEF Working
<1>3. reconnLock' \in Seq(Requests) /\ QueueInv'
  BY <1>1, <1>2, Released
<1>4. tunnel_gen' \in Nat /\ tunnel_gen' >= tunnel_gen
  BY DEF SyncTypes
<1>5. SyncTypes'
  BY <1>1, <1>3, <1>4 DEF SyncTypes
<1>6. SeenInv'
  BY <1>4 DEF SeenInv, SyncTypes, Tasks
<1>7. PastInv'
  <2> SUFFICES ASSUME NEW x \in replaced
               PROVE  \/ x[2] < tunnel_gen'
                      \/ pc'[x[1]] \in {"publish", "count"} /\ seen[x[1]] = x[2]
    BY DEF PastInv
  <2>1. x[1] \in Requests /\ x[2] \in Nat
    BY DEF SyncTypes
  <2>2. CASE x[2] < tunnel_gen
    BY <2>1, <2>2, <1>4 DEF SyncTypes
  <2>3. CASE pc[x[1]] \in {"publish", "count"} /\ seen[x[1]] = x[2]
    <3>1. x[1] = r
      BY <2>1, <2>3, Alone DEF Working
    <3>2. tunnel_gen' = tunnel_gen + 1
      BY <2>3, <3>1
    <3>3. seen[r] <= tunnel_gen /\ seen[r] = x[2]
      BY <2>3, <3>1 DEF SeenInv
    <3>4. QED
      BY <2>1, <3>2, <3>3 DEF SyncTypes
  <2>4. QED
    BY <2>2, <2>3 DEF PastInv
<1>8. FirstInv'
  BY <1>1 DEF FirstInv, Tasks
<1>9. QED
  BY <1>3, <1>5, <1>6, <1>7, <1>8 DEF OncePerGeneration

\* A request installs its tunnel: nobody had reacted to its generation.
LEMMA InstallStep ==
    ASSUME IInv, NEW r \in Requests, Install(r)
    PROVE  IInv'
<1> USE DEF IInv
<1> DEFINE new == <<r, seen[r]>>
<1>1. /\ pc' \in [Tasks -> Points] /\ pc[r] = "install" /\ pc'[r] = "publish"
      /\ \A u \in Tasks : u # r => pc'[u] = pc[u]
  BY MovesTask DEF Install, Tasks, Points
<1>2. replaced' = replaced \cup {new} /\ UNCHANGED <<reconnLock, seen, tunnel_gen>>
  BY ReconnectAssumption DEF Install
<1>3. seen[r] \in Nat
  BY DEF SyncTypes, Tasks
<1>4. SyncTypes'
  BY <1>1, <1>2, <1>3 DEF SyncTypes
<1>5. QueueInv'
  <2>1. \A i \in 1..Len(reconnLock) : reconnLock[i] \in Requests
    BY DEF SyncTypes
  <2>2. \A q \in Requests : /\ pc[q] = "waiting" => pc'[q] = "waiting"
                            /\ Working(q) <=> Working(q)'
    BY <1>1 DEF Working, Tasks
  <2>3. QED
    BY <1>2, <2>1, <2>2 DEF QueueInv, Holds, Working
<1>6. SeenInv'
  BY <1>2 DEF SeenInv
<1>7. PastInv'
  <2> SUFFICES ASSUME NEW x \in replaced'
               PROVE  \/ x[2] < tunnel_gen
                      \/ pc'[x[1]] \in {"publish", "count"} /\ seen[x[1]] = x[2]
    BY <1>2 DEF PastInv
  <2>1. CASE x = new
    BY <1>1, <2>1
  <2>2. CASE x \in replaced
    BY <1>1, <2>2 DEF PastInv, SyncTypes, Tasks
  <2>3. QED
    BY <1>2, <2>1, <2>2
<1>8. FirstInv'
  <2> SUFFICES ASSUME NEW q \in Requests, pc'[q] \in {"connect", "install"}, NEW x \in replaced'
               PROVE  x[2] # seen[q]
    BY <1>2 DEF FirstInv
  <2>1. q # r
    BY <1>1
  <2>2. pc[q] = pc'[q]
    BY <1>1, <2>1 DEF Tasks
  <2>3. Working(q) /\ Working(r)
    BY <1>1, <2>2 DEF Working
  <2>4. Holds(reconnLock, r)
    BY <2>3 DEF QueueInv
  <2>5. QED
    BY <2>1, <2>3, <2>4, Alone
<1>9. OncePerGeneration'
  <2>1. \A x \in replaced : x[2] # seen[r]
    BY <1>1 DEF FirstInv
  <2>2. QED
    BY <1>2, <2>1 DEF OncePerGeneration
<1>10. QED
  BY <1>4, <1>5, <1>6, <1>7, <1>8, <1>9

\* A request loads the generation and queues: it was not queued before.
LEMMA LoadSeenStep ==
    ASSUME IInv, NEW r \in Requests, LoadSeen(r)
    PROVE  IInv'
<1> USE DEF IInv
<1>1. /\ pc' \in [Tasks -> Points] /\ pc[r] = "stale" /\ pc'[r] = "waiting"
      /\ \A u \in Tasks : u # r => pc'[u] = pc[u]
  BY MovesTask DEF LoadSeen, Tasks, Points
<1>2. UNCHANGED <<replaced, tunnel_gen>>
  BY DEF LoadSeen, clientVars
<1>3. /\ seen' \in [Tasks -> Nat] /\ seen'[r] = tunnel_gen
      /\ \A u \in Tasks : u # r => seen'[u] = seen[u]
  BY DEF LoadSeen, SyncTypes, Tasks
<1>4. /\ reconnLock' \in Seq(Requests) /\ Len(reconnLock') = Len(reconnLock) + 1
      /\ reconnLock'[Len(reconnLock) + 1] = r
      /\ \A i \in 1..Len(reconnLock) : /\ reconnLock'[i] = reconnLock[i]
                                       /\ reconnLock[i] \in Requests
  BY DEF LoadSeen, SyncTypes
<1>5. SyncTypes'
  BY <1>1, <1>2, <1>3, <1>4 DEF SyncTypes
<1>6. Len(reconnLock) \in Nat
  BY DEF SyncTypes
<1>7. \A i \in 1..Len(reconnLock) : reconnLock[i] # r
  BY <1>1 DEF QueueInv, Working
<1>8. QueueInv'
  <2>1. ASSUME NEW i \in 1..Len(reconnLock')
        PROVE  (pc[reconnLock[i]] = "waiting" \/ Working(reconnLock[i]))'
    <3>1. CASE i \in 1..Len(reconnLock)
      BY <1>1, <1>4, <1>7, <3>1 DEF QueueInv, Working, Tasks
    <3>2. CASE i = Len(reconnLock) + 1
      BY <1>1, <1>4, <3>2
    <3>3. QED
      BY <1>4, <1>6, <3>1, <3>2
  <2>2. ASSUME NEW i \in 1..Len(reconnLock'), NEW j \in 1..Len(reconnLock'),
               reconnLock'[i] = reconnLock'[j]
        PROVE  i = j
    BY <1>4, <1>6, <1>7, <2>2 DEF QueueInv
  <2>3. ASSUME NEW q \in Requests, Working(q)' PROVE Holds(reconnLock, q)'
    <3>1. Working(q) /\ q # r
      BY <1>1, <2>3 DEF Working, Tasks
    <3>2. Holds(reconnLock, q)
      BY <3>1 DEF QueueInv
    <3>3. Len(reconnLock) >= 1 /\ reconnLock[1] = q
      BY <3>2, <1>6 DEF Holds, SyncTypes
    <3>4. reconnLock' # <<>> /\ reconnLock'[1] = q
      BY <1>4, <1>6, <3>3
    <3>5. QED
      BY <3>4 DEF Holds
  <2>4. QED
    BY <2>1, <2>2, <2>3 DEF QueueInv
<1>9. SeenInv'
  <2> SUFFICES ASSUME NEW q \in Requests PROVE seen'[q] <= tunnel_gen
    BY <1>2 DEF SeenInv
  <2>1. CASE q = r
    BY <1>3, <2>1 DEF SyncTypes
  <2>2. CASE q # r
    BY <1>3, <2>2 DEF SeenInv, Tasks
  <2>3. QED
    BY <2>1, <2>2
<1>10. PastInv'
  <2> SUFFICES ASSUME NEW x \in replaced
               PROVE  \/ x[2] < tunnel_gen
                      \/ pc'[x[1]] \in {"publish", "count"} /\ seen'[x[1]] = x[2]
    BY <1>2 DEF PastInv
  <2>1. x[1] \in Requests
    BY DEF SyncTypes
  <2>2. QED
    BY <1>1, <1>3, <2>1 DEF PastInv, Tasks
<1>11. FirstInv'
  BY <1>1, <1>2, <1>3 DEF FirstInv, Tasks
<1>12. OncePerGeneration'
  BY <1>2 DEF OncePerGeneration
<1>13. QED
  BY <1>5, <1>8, <1>9, <1>10, <1>11, <1>12

\* A request has the lock and finds its generation current: whoever reacted to
\* it has counted, or would be working under the lock.
LEMMA StartStep ==
    ASSUME IInv, NEW r \in Requests, StartReconnect(r)
    PROVE  IInv'
<1> USE DEF IInv
<1>1. /\ pc' \in [Tasks -> Points] /\ pc[r] = "waiting" /\ pc'[r] = "connect"
      /\ \A u \in Tasks : u # r => pc'[u] = pc[u]
  BY MovesTask DEF StartReconnect, Tasks, Points
<1>2. UNCHANGED <<replaced, tunnel_gen, seen, reconnLock>>
  BY DEF StartReconnect, clientVars, lockVars
<1>3. Holds(reconnLock, r) /\ tunnel_gen = seen[r]
  BY DEF StartReconnect
<1>4. SyncTypes'
  BY <1>1, <1>2 DEF SyncTypes
<1>5. QueueInv'
  <2>1. \A i \in 1..Len(reconnLock) : reconnLock[i] \in Requests
    BY DEF SyncTypes
  <2>2. QED
    BY <1>1, <1>2, <1>3, <2>1 DEF QueueInv, Working, Tasks
<1>6. SeenInv'
  BY <1>2 DEF SeenInv
<1>7. PastInv'
  BY <1>1, <1>2 DEF PastInv, SyncTypes, Tasks
<1>8. FirstInv'
  <2> SUFFICES ASSUME NEW q \in Requests, pc'[q] \in {"connect", "install"}, NEW x \in replaced
               PROVE  x[2] # seen[q]
    BY <1>2 DEF FirstInv
  <2>1. CASE q # r
    BY <1>1, <2>1 DEF FirstInv, Tasks
  <2>2. CASE q = r
    <3>1. x[1] \in Requests /\ x[2] \in Nat
      BY DEF SyncTypes
    <3>2. pc[x[1]] \notin {"publish", "count"}
      BY <1>1, <1>3, <3>1, Alone DEF Working
    <3>3. x[2] < tunnel_gen
      BY <3>2 DEF PastInv
    <3>4. QED
      BY <1>3, <2>2, <3>1, <3>3 DEF SyncTypes
  <2>3. QED
    BY <2>1, <2>2
<1>9. OncePerGeneration'
  BY <1>2 DEF OncePerGeneration
<1>10. QED
  BY <1>4, <1>5, <1>6, <1>7, <1>8, <1>9

----------------------------------------------------------------------------
\* The steps of Client::reconnect, by a request or by serve_datagrams.
LEMMA ReconnectingInv == ASSUME IInv, NEW t \in Tasks, Reconnecting(t) PROVE IInv'
<1> USE DEF IInv
<1>1. CASE ConnectOk(t)
  <2>1. /\ pc' \in [Tasks -> Points] /\ pc[t] = "connect" /\ pc'[t] = "install"
        /\ \A u \in Tasks : u # t => pc'[u] = pc[u]
    BY <1>1, MovesTask DEF ConnectOk, Points
  <2>2. UNCHANGED <<tunnel_gen, reconnLock, seen, replaced>>
    BY <1>1 DEF ConnectOk, clientVars
  <2>3. QED
    BY <2>1, <2>2, QuietStep DEF Working, SyncTypes
<1>2. CASE ConnectFails(t)
  <2>1. UNCHANGED <<tunnel_gen, seen, replaced>> /\ pc[t] = "connect"
    BY <1>2 DEF ConnectFails, clientVars, Advances
  <2>2. CASE t = Serve
    <3>1. /\ pc' \in [Tasks -> Points]
          /\ \A u \in Tasks : u # t => pc'[u] = pc[u]
      BY <1>2, <2>2, MovesTask DEF ConnectFails, Points
    <3>2. UNCHANGED reconnLock
      BY <1>2, <2>2 DEF ConnectFails, Unlock
    <3>3. QED
      BY <2>1, <2>2, <3>1, <3>2, QuietStep, ReconnectAssumption DEF SyncTypes
  <2>3. CASE t # Serve
    <3>1. t \in Requests /\ Holds(reconnLock, t)
      BY <2>1, <2>3 DEF Tasks, QueueInv, Working
    <3>2. Advances(t, pc[t], "failed") /\ reconnLock' = Tail(reconnLock)
      BY <1>2, <2>1, <2>3 DEF ConnectFails, Unlock, Advances
    <3>3. QED
      BY <2>1, <3>1, <3>2, ReleaseStep DEF Points
  <2>4. QED
    BY <2>2, <2>3
<1>3. CASE Install(t)
  <2>1. CASE t = Serve
    <3>1. /\ pc' \in [Tasks -> Points]
          /\ \A u \in Tasks : u # t => pc'[u] = pc[u]
      BY <1>3, MovesTask DEF Install, Points
    <3>2. UNCHANGED <<tunnel_gen, reconnLock, seen, replaced>>
      BY <1>3, <2>1 DEF Install
    <3>3. QED
      BY <2>1, <3>1, <3>2, QuietStep, ReconnectAssumption DEF SyncTypes
  <2>2. QED
    BY <1>3, <2>1, InstallStep DEF Tasks
<1>4. CASE Publish(t)
  <2>1. /\ pc' \in [Tasks -> Points] /\ pc[t] = "publish" /\ pc'[t] = "count"
        /\ \A u \in Tasks : u # t => pc'[u] = pc[u]
    BY <1>4, MovesTask DEF Publish, Points
  <2>2. UNCHANGED <<tunnel_gen, reconnLock, seen, replaced>>
    BY <1>4 DEF Publish, lockVars
  <2>3. QED
    BY <2>1, <2>2, QuietStep DEF Working, SyncTypes
<1>5. CASE Count(t)
  <2>1. /\ UNCHANGED <<seen, replaced>> /\ pc[t] = "count"
        /\ tunnel_gen' = tunnel_gen + 1
    BY <1>5 DEF Count, Advances
  <2>2. CASE t = Serve
    <3>1. /\ pc' \in [Tasks -> Points]
          /\ \A u \in Tasks : u # t => pc'[u] = pc[u]
      BY <1>5, <2>2, MovesTask DEF Count, After, Points
    <3>2. UNCHANGED reconnLock
      BY <1>5, <2>2 DEF Count, Unlock
    <3>3. tunnel_gen' \in Nat /\ tunnel_gen' >= tunnel_gen
      BY <2>1 DEF SyncTypes
    <3>4. QED
      BY <2>1, <2>2, <3>1, <3>2, <3>3, QuietStep, ReconnectAssumption
  <2>3. CASE t # Serve
    <3>1. t \in Requests /\ Holds(reconnLock, t)
      BY <2>1, <2>3 DEF Tasks, QueueInv, Working
    <3>2. Advances(t, pc[t], "retry") /\ reconnLock' = Tail(reconnLock)
      BY <1>5, <2>1, <2>3 DEF Count, After, Unlock, Advances
    <3>3. QED
      BY <2>1, <3>1, <3>2, ReleaseStep DEF Points
  <2>4. QED
    BY <2>2, <2>3
<1>6. QED
  BY <1>1, <1>2, <1>3, <1>4, <1>5 DEF Reconnecting

\* The steps of open_stream_resilient.
LEMMA RequestingInv == ASSUME IInv, NEW r \in Requests, Requesting(r) PROVE IInv'
<1> USE DEF IInv
<1>1. CASE ReadHandle(r) \/ OpenAnswered(r) \/ OpenFails(r) \/ OpenDropped(r)
  <2>1. UNCHANGED <<tunnel_gen, reconnLock, seen, replaced>>
    BY <1>1 DEF ReadHandle, OpenAnswered, OpenFails, OpenDropped, 
       clientVars, lockVars
  <2>2. PICK from \in {"new", "retry", "open", "reopen"},
             to \in {"open", "reopen", "done", "stale", "failed"} : Advances(r, from, to)
    BY <1>1 DEF ReadHandle, OpenAnswered, OpenFails, OpenDropped
  <2>3. /\ pc' \in [Tasks -> Points] /\ pc[r] = from /\ pc'[r] = to
        /\ \A u \in Tasks : u # r => pc'[u] = pc[u]
    BY <2>2, MovesTask DEF Points, Tasks
  <2>4. /\ pc[r] # "waiting" /\ pc[r] \notin {"publish", "count"}
        /\ ~Working(r) /\ ~Working(r)'
    BY <2>3 DEF Working
  <2>5. r \in Tasks /\ tunnel_gen' \in Nat /\ tunnel_gen' >= tunnel_gen
    BY <2>1 DEF SyncTypes, Tasks
  <2>6. QED
    BY <2>1, <2>3, <2>4, <2>5, QuietStep
<1>2. CASE LoadSeen(r)
  BY <1>2, LoadSeenStep
<1>3. CASE SkipReconnect(r)
  <2>1. /\ Advances(r, "waiting", "retry") /\ Holds(reconnLock, r)
        /\ UNCHANGED <<tunnel_gen, seen, replaced>>
    BY <1>3 DEF SkipReconnect, clientVars
  <2>2. pc[r] = "waiting" /\ Advances(r, pc[r], "retry")
    BY <2>1 DEF Advances
  <2>3. reconnLock' = Tail(reconnLock)
    BY <1>3, ReconnectAssumption DEF SkipReconnect, Unlock
  <2>4. QED
    BY <2>1, <2>2, <2>3, ReleaseStep DEF Points
<1>4. CASE StartReconnect(r)
  BY <1>4, StartStep
<1>5. QED
  BY <1>1, <1>2, <1>3, <1>4 DEF Requesting

\* The steps of serve_datagrams outside reconnect.
LEMMA ServingInv ==
    ASSUME IInv, LockTunnel \/ Receive \/ ReceiveFails \/ ReceiveGarbage PROVE IInv'
<1> USE DEF IInv
<1>1. UNCHANGED <<tunnel_gen, reconnLock, seen, replaced>>
  BY DEF LockTunnel, Receive, ReceiveFails, ReceiveGarbage, clientVars
<1>2. Serve \in Tasks /\ Serve \notin Requests
  BY ReconnectAssumption DEF Tasks
<1>3. PICK from \in {"loop", "recv"}, to \in {"loop", "recv", "connect"} : Advances(Serve, from, to)
  BY DEF LockTunnel, Receive, ReceiveFails, ReceiveGarbage
<1>4. /\ pc' \in [Tasks -> Points]
      /\ \A u \in Tasks : u # Serve => pc'[u] = pc[u]
  BY <1>2, <1>3, MovesTask DEF Points
<1>5. QED
  BY <1>1, <1>2, <1>4, QuietStep DEF SyncTypes

\* A step in which the tasks stand still.
LEMMA StillInv == ASSUME IInv, UNCHANGED <<pc, tunnel_gen, reconnLock, seen, replaced>> PROVE IInv'
BY DEF IInv, SyncTypes, QueueInv, SeenInv, PastInv, FirstInv, OncePerGeneration, Working, Holds

\* Every step of the client keeps the invariant.
LEMMA NextInv == IInv /\ [ReconnectNext]_reconnectVars => IInv'
<1> SUFFICES ASSUME IInv, [ReconnectNext]_reconnectVars PROVE IInv'
  OBVIOUS
<1>1. ASSUME NEW t \in Tasks, Reconnecting(t) PROVE IInv'
  BY <1>1, ReconnectingInv
<1>2. ASSUME NEW r \in Requests, Requesting(r) PROVE IInv'
  BY <1>2, RequestingInv
<1>3. CASE LockTunnel \/ Receive \/ ReceiveFails \/ ReceiveGarbage
  BY <1>3, ServingInv
<1>4. CASE TunnelDies \/ ForceClose
  BY <1>4, StillInv DEF TunnelDies, ForceClose, Loses, clientVars, lockVars
<1>5. CASE UNCHANGED reconnectVars
  BY <1>5, StillInv DEF reconnectVars
<1>6. QED
  BY <1>1, <1>2, <1>3, <1>4, <1>5 DEF ReconnectNext

\* In every behaviour of the client two requests that reacted to the same
\* generation never both replace the tunnel (reconnect_sync).
THEOREM RequestsReplaceOnce == ReconnectSpec => []OncePerGeneration
<1>1. IInv => OncePerGeneration
  BY DEF IInv
<1>2. QED
  BY <1>1, InitInv, NextInv, PTL DEF ReconnectSpec

\* reconnect_lock is a mutex, although serve_datagrams reconnects without it:
\* only the request at the head of its queue is inside Client::reconnect.
THEOREM OneRequestReconnects ==
    ReconnectSpec => [](\A r, q \in Requests : Working(r) /\ Working(q) => r = q)
<1>1. IInv => \A r, q \in Requests : Working(r) /\ Working(q) => r = q
  BY DEF IInv, QueueInv, Holds
<1>2. QED
  BY <1>1, InitInv, NextInv, PTL DEF ReconnectSpec

----------------------------------------------------------------------------
\* The types of what the argument above does not need.
WorldTypes ==
    /\ made \in Nat /\ deaths \in 0..MaxDeaths
    /\ tunnel \in 0..made /\ handle \in 0..made /\ alive \subseteq 0..made
    /\ mine \in [Tasks -> 0..made]
    /\ tunnelLock \in Seq(Tasks)

\* The mutex of the tunnel is passed on by its holder.
LEMMA PassedOn ==
    ASSUME NEW t, Holds(tunnelLock, t), tunnelLock \in Seq(Tasks)
    PROVE  Tail(tunnelLock) \in Seq(Tasks)
BY DEF Holds

\* Every step keeps the types of the tunnels, the handles and the mutex.
LEMMA WorldTypesStep == WorldTypes /\ [ReconnectNext]_reconnectVars => WorldTypes'
<1> SUFFICES ASSUME WorldTypes, [ReconnectNext]_reconnectVars PROVE WorldTypes'
  OBVIOUS
<1> USE ReconnectAssumption DEF WorldTypes, clientVars, lockVars, worldVars
<1>1. ASSUME NEW t \in Tasks, ConnectOk(t) PROVE WorldTypes'
  <2>1. made' = made + 1 /\ made' \in Nat /\ 0..made \subseteq 0..made' /\ made' \in 0..made'
    BY <1>1 DEF ConnectOk
  <2>2. alive' \subseteq 0..made' /\ tunnel' \in 0..made' /\ handle' \in 0..made'
    BY <1>1, <2>1 DEF ConnectOk
  <2>3. mine' \in [Tasks -> 0..made']
    BY <1>1, <2>1 DEF ConnectOk
  <2>4. tunnelLock' \in Seq(Tasks)
    BY <1>1 DEF ConnectOk
  <2>5. deaths' \in 0..MaxDeaths
    BY <1>1 DEF ConnectOk
  <2>6. QED
    BY <2>1, <2>2, <2>3, <2>4, <2>5
<1>2. ASSUME NEW t \in Tasks, Install(t) PROVE WorldTypes'
  <2>1. tunnelLock' \in Seq(Tasks)
    BY <1>2, PassedOn DEF Install
  <2>2. QED
    BY <1>2, <2>1 DEF Install
<1>3. ASSUME NEW t \in Tasks, ConnectFails(t) \/ Publish(t) \/ Count(t) PROVE WorldTypes'
  BY <1>3 DEF ConnectFails, Publish, Count
<1>4. ASSUME NEW r \in Requests, ReadHandle(r) PROVE WorldTypes'
  BY <1>4 DEF ReadHandle, Tasks
<1>5. ASSUME NEW r \in Requests,
             \/ OpenAnswered(r) \/ OpenFails(r) \/ OpenDropped(r)
             \/ LoadSeen(r) \/ SkipReconnect(r) \/ StartReconnect(r)
      PROVE  WorldTypes'
  BY <1>5 DEF OpenAnswered, OpenFails, OpenDropped, LoadSeen, SkipReconnect, StartReconnect
<1>6. CASE LockTunnel
  BY <1>6 DEF LockTunnel, Tasks
<1>7. CASE Receive \/ ReceiveFails \/ ReceiveGarbage
  <2>1. tunnelLock' \in Seq(Tasks)
    BY <1>7, PassedOn DEF Receive, ReceiveFails, ReceiveGarbage
  <2>2. UNCHANGED <<made, tunnel, handle, alive, mine>>
    BY <1>7 DEF Receive, ReceiveFails, ReceiveGarbage
  <2>3. deaths' \in 0..MaxDeaths
    <3>1. CASE ReceiveGarbage
      BY <3>1 DEF ReceiveGarbage
    <3>2. CASE UNCHANGED deaths
      BY <3>2
    <3>3. QED
      BY <1>7, <3>1, <3>2 DEF Receive, ReceiveFails
  <2>4. QED
    BY <2>1, <2>2, <2>3
<1>8. ASSUME NEW t, Loses(t) PROVE WorldTypes'
  BY <1>8 DEF Loses
<1>9. CASE UNCHANGED reconnectVars
  BY <1>9 DEF reconnectVars
<1>10. ASSUME NEW t \in Tasks, Reconnecting(t) PROVE WorldTypes'
  BY <1>10, <1>1, <1>2, <1>3 DEF Reconnecting
<1>11. ASSUME NEW r \in Requests, Requesting(r) PROVE WorldTypes'
  BY <1>11, <1>4, <1>5 DEF Requesting
<1>12. CASE TunnelDies \/ ForceClose
  BY <1>12, <1>8 DEF TunnelDies, ForceClose
<1> HIDE DEF WorldTypes
<1>13. QED
  BY <1>6, <1>7, <1>9, <1>10, <1>11, <1>12 DEF ReconnectNext

\* The type invariant of the client's reconnections.
THEOREM TypeCorrect == ReconnectSpec => []ReconnectTypeOK
<1>1. ReconnectInit => WorldTypes
  BY ReconnectAssumption DEF ReconnectInit, WorldTypes, Tasks
<1>2. IInv /\ WorldTypes => ReconnectTypeOK
  BY DEF IInv, SyncTypes, WorldTypes, ReconnectTypeOK
<1>3. QED
  BY InitInv, NextInv, WorldTypesStep, <1>1, <1>2, PTL DEF ReconnectSpec

----------------------------------------------------------------------------
(* The relay adds nothing to the reconnections *)

LEMMA ClientStepIsStep == [ClientNext]_allVars => [ReconnectNext]_reconnectVars
<1> SUFFICES ASSUME [ClientNext]_allVars PROVE [ReconnectNext]_reconnectVars
  OBVIOUS
<1>1. ASSUME NEW t \in Tasks, Reconnection(t) PROVE ReconnectNext
  BY <1>1 DEF Reconnection, InstallTunnel, ReconnectNext, Reconnecting
<1>2. ASSUME NEW r \in Requests, Request(r) PROVE ReconnectNext
  BY <1>2 DEF Request, ReconnectNext
<1>3. CASE ServeLocks \/ ServeFails \/ ServeGivesUp \/ ConnectionLost \/ ReceiveReply
  BY <1>3 DEF ServeLocks, ServeFails, ServeGivesUp, ConnectionLost, ReceiveReply, ReconnectNext
<1>4. ASSUME NEW a \in Assocs,
             \/ Associate(a) \/ Spawn(a) \/ Relaying(a)
             \/ \E app \in Apps : TakePacket(a, app)
      PROVE  UNCHANGED reconnectVars
  BY <1>4 DEF Associate, Spawn, Relaying, SendDatagram, RelayEnds, Unlist, TakePacket
<1>5. ASSUME NEW s \in Sids, ReplyArrives(s) \/ ServerForgets(s) PROVE UNCHANGED reconnectVars
  BY <1>5 DEF ReplyArrives, ServerForgets
<1>6. CASE RouteReply
  BY <1>6 DEF RouteReply
<1>7. CASE UNCHANGED allVars
  BY <1>7 DEF allVars
<1>8. QED
  BY <1>1, <1>2, <1>3, <1>4, <1>5, <1>6, <1>7 DEF ClientNext

\* Whatever the associations do, the reconnections are those of ClientReconnect,
\* and what is proved of those holds.
THEOREM ClientImplementsReconnect == ClientSpec => ReconnectSpec
<1>1. ClientInit => ReconnectInit
  BY DEF ClientInit
<1>2. QED
  BY <1>1, ClientStepIsStep, PTL DEF ClientSpec, ReconnectSpec

\* Requests replace a tunnel once per generation, next to the relay as well.
THEOREM ClientReplacesOnce == ClientSpec => []OncePerGeneration
BY ClientImplementsReconnect, RequestsReplaceOnce, PTL

----------------------------------------------------------------------------
(* The entries of the associations *)

AssocStages == {"none", "listed", "abandoned", "relaying", "sending", "ending", "gone"}
Begun == {a \in Assocs : task[a] # "none"}

EntryTypes ==
    /\ task \in [Assocs -> AssocStages]
    /\ sid \in [Assocs -> Sids \cup {NoSession}]
    /\ next_session \in 1..(Cardinality(Assocs) + 1)
    /\ DOMAIN sessions \subseteq Sids
    /\ sessions \in [DOMAIN sessions -> Apps \cup {NoAddr}]
    /\ first \in [Sids -> Apps \cup {NoAddr}]

\* The ids are handed out in order, each to one association, and nobody has sent
\* on the ids that are to come.
SidInv ==
    /\ next_session = Cardinality(Begun) + 1
    /\ \A a \in Assocs : task[a] # "none" => sid[a] \in 1..(next_session - 1)
    /\ \A a, b \in Begun : sid[a] = sid[b] => a = b
    /\ \A s \in Sids : s >= next_session => first[s] = NoAddr

\* An entry stays until its own association removes it.
EntryInv ==
    \A a \in Assocs : task[a] \notin {"none", "gone"} =>
        sid[a] \in DOMAIN sessions /\ sessions[sid[a]] = first[sid[a]]

AssocInv == EntryTypes /\ SidInv /\ EntryInv

LEMMA AssocsAreCounted ==
    /\ Cardinality(Assocs) \in Nat
    /\ IsFiniteSet(Begun) /\ Cardinality(Begun) \in Nat
    /\ Cardinality(Begun) <= Cardinality(Assocs)
<1>1. IsFiniteSet(Assocs) /\ Begun \in SUBSET Assocs
  BY RelayAssumption DEF Begun
<1>2. QED
  BY <1>1, FS_Subset, FS_CardinalityType

\* A step of an association that has its id moves it on and takes no id.
LEMMA LaterStage ==
    ASSUME AssocInv, NEW a \in Assocs, NEW to \in AssocStages \ {"none"},
           task[a] # "none", task' = [task EXCEPT ![a] = to],
           UNCHANGED <<sid, next_session>>,
           \A s \in Sids : s >= next_session => first'[s] = first[s]
    PROVE  SidInv' /\ task' \in [Assocs -> AssocStages]
<1>1. task \in [Assocs -> AssocStages]
  BY DEF AssocInv, EntryTypes
<1>2. \A b \in Assocs : (task'[b] # "none") <=> (task[b] # "none")
  BY <1>1
<1>3. Begun' = Begun
  BY <1>2 DEF Begun
<1>4. QED
  BY <1>1, <1>2, <1>3 DEF AssocInv, SidInv

\* associate: a new id and a new entry.
LEMMA AssociateKeepsInv ==
    ASSUME AssocInv, NEW a \in Assocs, Associate(a) PROVE AssocInv'
<1> USE DEF AssocInv, EntryTypes, Associate, Moves, NoSession
<1>1. /\ task[a] = "none" /\ task' \in [Assocs -> AssocStages] /\ task'[a] = "listed"
      /\ \A b \in Assocs : b # a => task'[b] = task[b]
  BY DEF AssocStages
<1>2. Begun' = Begun \cup {a} /\ a \notin Begun
  BY <1>1 DEF Begun
<1>3. Cardinality(Begun') = Cardinality(Begun) + 1
  BY <1>2, AssocsAreCounted, FS_AddElement
<1>4. IsFiniteSet(Begun') /\ Cardinality(Begun') <= Cardinality(Assocs)
  <2>1. IsFiniteSet(Assocs) /\ Begun' \in SUBSET Assocs
    BY RelayAssumption DEF Begun
  <2>2. QED
    BY <2>1, FS_Subset
<1>5. /\ next_session \in Sids /\ next_session \in Nat
      /\ next_session' = next_session + 1
      /\ next_session' = Cardinality(Begun') + 1
      /\ next_session' \in 1..(Cardinality(Assocs) + 1)
  BY <1>3, <1>4, AssocsAreCounted DEF SidInv, Sids
<1>6. /\ sid' \in [Assocs -> Sids \cup {NoSession}] /\ sid'[a] = next_session
      /\ \A b \in Assocs : b # a => sid'[b] = sid[b]
  BY <1>5
<1>7. /\ DOMAIN sessions' = DOMAIN sessions \cup {next_session}
      /\ sessions'[next_session] = NoAddr
      /\ \A s \in DOMAIN sessions : s # next_session => sessions'[s] = sessions[s]
      /\ sessions' \in [DOMAIN sessions' -> Apps \cup {NoAddr}]
  BY DEF With
<1>8. first' = first /\ first[next_session] = NoAddr
  BY <1>5 DEF SidInv
<1>9. \A b \in Assocs : b # a /\ task'[b] # "none" =>
          sid'[b] \in 1..(next_session - 1) /\ sid'[b] # next_session
  BY <1>1, <1>5, <1>6 DEF SidInv
<1>10. SidInv'
  <2>1. \A b \in Assocs : task'[b] # "none" => sid'[b] \in 1..(next_session' - 1)
    BY <1>5, <1>6, <1>9 DEF Sids
  <2>2. ASSUME NEW b \in Begun', NEW c \in Begun', sid'[b] = sid'[c] PROVE b = c
    BY <1>1, <1>2, <1>6, <1>9, <2>2 DEF SidInv, Begun
  <2>3. \A s \in Sids : s >= next_session' => first'[s] = NoAddr
    BY <1>5, <1>8 DEF SidInv, Sids
  <2>4. QED
    BY <1>5, <2>1, <2>2, <2>3 DEF SidInv
<1>11. EntryInv'
  <2> SUFFICES ASSUME NEW b \in Assocs, task'[b] \notin {"none", "gone"}
               PROVE  sid'[b] \in DOMAIN sessions' /\ sessions'[sid'[b]] = first'[sid'[b]]
    BY DEF EntryInv
  <2>1. CASE b = a
    BY <1>6, <1>7, <1>8, <2>1
  <2>2. CASE b # a
    BY <1>1, <1>6, <1>7, <1>8, <1>9, <2>2 DEF EntryInv
  <2>3. QED
    BY <2>1, <2>2
<1>12. EntryTypes'
  BY <1>1, <1>5, <1>6, <1>7, <1>8
<1>13. QED
  BY <1>10, <1>11, <1>12

\* The first packet sets the address in the entry and in the history.
LEMMA TakePacketKeepsInv ==
    ASSUME AssocInv, NEW a \in Assocs, NEW app \in Apps, TakePacket(a, app)
    PROVE  AssocInv'
<1> USE DEF AssocInv, EntryTypes, TakePacket, Moves
<1> DEFINE s == sid[a]
<1>1. task[a] = "relaying" /\ task' = [task EXCEPT ![a] = "sending"]
  OBVIOUS
<1>2. s \in 1..(next_session - 1) /\ s \in DOMAIN sessions /\ s \in Sids
      /\ sessions[s] = first[s]
  BY <1>1 DEF SidInv, EntryInv
<1>3. /\ first' \in [Sids -> Apps \cup {NoAddr}]
      /\ \A x \in Sids : x # s => first'[x] = first[x]
      /\ first'[s] = IF first[s] = NoAddr THEN app ELSE first[s]
  BY <1>2
<1>4. /\ DOMAIN sessions' = DOMAIN sessions
      /\ sessions' \in [DOMAIN sessions -> Apps \cup {NoAddr}]
      /\ \A x \in DOMAIN sessions : x # s => sessions'[x] = sessions[x]
      /\ sessions'[s] = IF sessions[s] = NoAddr THEN app ELSE sessions[s]
  BY <1>2
<1>5. SidInv' /\ task' \in [Assocs -> AssocStages]
  <2>1. \A x \in Sids : x >= next_session => first'[x] = first[x]
    BY <1>2, <1>3 DEF Sids
  <2>2. QED
    BY <1>1, <2>1, LaterStage DEF AssocStages
<1>6. EntryInv'
  <2> SUFFICES ASSUME NEW b \in Assocs, task'[b] \notin {"none", "gone"}
               PROVE  sid[b] \in DOMAIN sessions' /\ sessions'[sid[b]] = first'[sid[b]]
    BY DEF EntryInv
  <2>1. task[b] \notin {"none", "gone"}
    BY <1>1
  <2>2. sid[b] \in DOMAIN sessions /\ sessions[sid[b]] = first[sid[b]] /\ sid[b] \in Sids
    BY <2>1 DEF EntryInv
  <2>3. CASE sid[b] = s
    BY <1>2, <1>3, <1>4, <2>3
  <2>4. CASE sid[b] # s
    BY <1>3, <1>4, <2>2, <2>4
  <2>5. QED
    BY <2>3, <2>4
<1>7. QED
  BY <1>3, <1>4, <1>5, <1>6

\* The end of an association takes away its own entry only.
LEMMA UnlistKeepsInv ==
    ASSUME AssocInv, NEW a \in Assocs, Unlist(a) PROVE AssocInv'
<1> USE DEF AssocInv, EntryTypes, Unlist, Moves
<1>1. task[a] = "ending" /\ task' = [task EXCEPT ![a] = "gone"] /\ first' = first
  OBVIOUS
<1>2. SidInv' /\ task' \in [Assocs -> AssocStages]
  BY <1>1, LaterStage DEF AssocStages
<1>3. /\ DOMAIN sessions' = DOMAIN sessions \ {sid[a]}
      /\ \A x \in DOMAIN sessions' : sessions'[x] = sessions[x]
      /\ sessions' \in [DOMAIN sessions' -> Apps \cup {NoAddr}]
  BY DEF Without
<1>4. EntryInv'
  <2> SUFFICES ASSUME NEW b \in Assocs, task'[b] \notin {"none", "gone"}
               PROVE  sid[b] \in DOMAIN sessions' /\ sessions'[sid[b]] = first[sid[b]]
    BY <1>1 DEF EntryInv
  <2>1. b # a /\ task[b] = task'[b]
    BY <1>1
  <2>2. a \in Begun /\ b \in Begun
    BY <1>1, <2>1 DEF Begun
  <2>3. sid[b] # sid[a]
    BY <2>1, <2>2 DEF SidInv
  <2>4. sid[b] \in DOMAIN sessions /\ sessions[sid[b]] = first[sid[b]]
    BY <2>1 DEF EntryInv
  <2>5. QED
    BY <1>3, <2>3, <2>4
<1>5. QED
  BY <1>1, <1>2, <1>3, <1>4

\* The other steps of an association move it on.
LEMMA MoveKeepsInv ==
    ASSUME AssocInv, NEW a \in Assocs, Spawn(a) \/ SendDatagram(a) \/ RelayEnds(a)
    PROVE  AssocInv'
<1>1. PICK to \in {"relaying", "abandoned", "ending"} :
          /\ task[a] \notin {"none", "gone"} /\ task' = [task EXCEPT ![a] = to]
          /\ UNCHANGED <<sid, next_session, sessions, first>>
  BY DEF Spawn, SendDatagram, RelayEnds, Moves
<1>2. SidInv' /\ task' \in [Assocs -> AssocStages]
  BY <1>1, LaterStage DEF AssocStages
<1>3. EntryTypes'
  BY <1>1, <1>2 DEF AssocInv, EntryTypes
<1>4. EntryInv'
  BY <1>1 DEF AssocInv, EntryTypes, EntryInv
<1>5. QED
  BY <1>2, <1>3, <1>4 DEF AssocInv

\* Nothing else touches the associations.
LEMMA AssocStep == AssocInv /\ [ClientNext]_allVars => AssocInv'
<1> SUFFICES ASSUME AssocInv, [ClientNext]_allVars PROVE AssocInv'
  OBVIOUS
<1>1. CASE UNCHANGED <<assocVars, sessions, first>>
  <2>1. UNCHANGED <<task, sid, next_session, sessions, first>>
    BY <1>1 DEF assocVars
  <2>2. Begun' = Begun
    BY <2>1 DEF Begun
  <2>3. QED
    BY <2>1, <2>2 DEF AssocInv, EntryTypes, SidInv, EntryInv
<1>2. ASSUME NEW t \in Tasks, Reconnection(t) PROVE AssocInv'
  BY <1>1, <1>2 DEF Reconnection, InstallTunnel, relayVars
<1>3. ASSUME NEW r \in Requests, Request(r) PROVE AssocInv'
  BY <1>1, <1>3 DEF Request, relayVars
<1>4. CASE \/ ServeLocks \/ ServeFails \/ ServeGivesUp \/ ConnectionLost
           \/ ReceiveReply \/ RouteReply
  BY <1>1, <1>4 DEF ServeLocks, ServeFails, ServeGivesUp, ConnectionLost, ReceiveReply, RouteReply,
                    relayVars
<1>5. ASSUME NEW s \in Sids, ReplyArrives(s) \/ ServerForgets(s) PROVE AssocInv'
  BY <1>1, <1>5 DEF ReplyArrives, ServerForgets
<1>6. ASSUME NEW a \in Assocs,
             \/ Associate(a) \/ Spawn(a) \/ Relaying(a)
             \/ \E app \in Apps : TakePacket(a, app)
      PROVE  AssocInv'
  BY <1>6, AssociateKeepsInv, TakePacketKeepsInv, UnlistKeepsInv, MoveKeepsInv DEF Relaying
<1>7. CASE UNCHANGED allVars
  BY <1>1, <1>7 DEF allVars, relayVars
<1>8. QED
  BY <1>2, <1>3, <1>4, <1>5, <1>6, <1>7 DEF ClientNext

LEMMA AssocsAtStart == ClientInit => AssocInv
<1> SUFFICES ASSUME ClientInit PROVE AssocInv
  OBVIOUS
<1>1. Begun = {}
  BY DEF ClientInit, Begun
<1>2. Cardinality(Begun) = 0
  BY <1>1, FS_EmptySet
<1>3. next_session \in 1..(Cardinality(Assocs) + 1)
  BY AssocsAreCounted DEF ClientInit
<1>4. DOMAIN sessions = {} /\ sessions \in [DOMAIN sessions -> Apps \cup {NoAddr}]
  BY DEF ClientInit
<1>5. EntryTypes
  BY <1>3, <1>4 DEF ClientInit, EntryTypes, AssocStages
<1>6. SidInv
  BY <1>1, <1>2 DEF ClientInit, SidInv
<1>7. EntryInv
  BY DEF ClientInit, EntryInv
<1>8. QED
  BY <1>5, <1>6, <1>7 DEF AssocInv

\* A relaying task finds its entry, with the address of its first sender: the
\* index of guard[&sid] never panics.
THEOREM EntriesAreKept == ClientSpec => []EntryKept
<1>1. AssocInv => EntryKept
  BY DEF AssocInv, EntryTypes, EntryInv, EntryKept, Listed
<1>2. QED
  BY <1>1, AssocStep, AssocsAtStart, PTL DEF ClientSpec

----------------------------------------------------------------------------
(* The types *)

ReplyTypes ==
    /\ load \in Loads
    /\ inbox \in Seq(Sids)
    /\ routing \in Sids \cup {NoSession}
    /\ server \in [Sids -> 0..made \cup {NoTunnel}]

LEMMA ReplyTypesStep ==
    /\ ReplyTypes /\ ReconnectTypeOK /\ ReconnectTypeOK' /\ AssocInv
    /\ [ClientNext]_allVars
    => ReplyTypes'
<1> SUFFICES ASSUME ReplyTypes, ReconnectTypeOK, ReconnectTypeOK', AssocInv, [ClientNext]_allVars
             PROVE  ReplyTypes'
  OBVIOUS
<1> USE DEF ReplyTypes
<1>1. CASE UNCHANGED <<load, inbox, routing, server, made>>
  BY <1>1
<1>2. ASSUME NEW t \in Tasks, Reconnection(t) PROVE ReplyTypes'
  <2>1. CASE ConnectOk(t) /\ UNCHANGED <<load, relayVars>>
    <3>1. made \in Nat /\ made' = made + 1
      BY <2>1 DEF ConnectOk, ReconnectTypeOK
    <3>2. 0..made \subseteq 0..made'
      BY <3>1
    <3>3. UNCHANGED <<load, inbox, routing, server>>
      BY <2>1 DEF relayVars
    <3>4. QED
      BY <3>2, <3>3
  <2>2. CASE InstallTunnel(t)
    <3>1. UNCHANGED <<load, routing, server, made>> /\ inbox' = <<>>
      BY <2>2 DEF InstallTunnel, Install, worldVars
    <3>2. QED
      BY <3>1
  <2>3. CASE (ConnectFails(t) \/ Publish(t) \/ Count(t)) /\ UNCHANGED <<load, relayVars>>
    BY <1>1, <2>3 DEF ConnectFails, Publish, Count, worldVars, relayVars
  <2>4. QED
    BY <1>2, <2>1, <2>2, <2>3 DEF Reconnection
<1>3. ASSUME NEW r \in Requests, Request(r) PROVE ReplyTypes'
  BY <1>1, <1>3 DEF Request, Requesting, ReadHandle, OpenAnswered, OpenFails, OpenDropped, LoadSeen,
                    SkipReconnect, StartReconnect, worldVars, relayVars
<1>4. CASE ServeLocks \/ ServeFails \/ ServeGivesUp \/ ConnectionLost
  BY <1>1, <1>4 DEF ServeLocks, LockTunnel, ServeFails, ReceiveFails, ServeGivesUp,
                    ReceiveGarbage, ConnectionLost, TunnelDies,
                    ForceClose, Loses, worldVars, relayVars
<1>5. CASE ReceiveReply
  <2>1. UNCHANGED <<load, server, made>>
    BY <1>5 DEF ReceiveReply, Receive, worldVars
  <2>2. inbox' \in Seq(Sids) /\ routing' \in Sids
    BY <1>5 DEF ReceiveReply
  <2>3. QED
    BY <2>1, <2>2
<1>6. CASE RouteReply
  BY <1>6 DEF RouteReply, reconnectVars
<1>7. ASSUME NEW s \in Sids, ReplyArrives(s) PROVE ReplyTypes'
  BY <1>7 DEF ReplyArrives, reconnectVars
<1>8. ASSUME NEW s \in Sids, ServerForgets(s) PROVE ReplyTypes'
  BY <1>8 DEF ServerForgets, reconnectVars
<1>9. ASSUME NEW a \in Assocs, SendDatagram(a) PROVE ReplyTypes'
  <2>1. handle \in 0..made /\ UNCHANGED <<load, inbox, routing, made>>
    BY <1>9 DEF SendDatagram, reconnectVars, ReconnectTypeOK
  <2>2. \/ server' = server
        \/ server' = [server EXCEPT ![sid[a]] = IF @ = NoTunnel THEN handle ELSE @]
    BY <1>9 DEF SendDatagram
  <2>3. QED
    BY <2>1, <2>2
<1>10. ASSUME NEW a \in Assocs,
              \/ Associate(a) \/ Spawn(a) \/ RelayEnds(a) \/ Unlist(a)
              \/ \E app \in Apps : TakePacket(a, app)
       PROVE  ReplyTypes'
  BY <1>1, <1>10 DEF Associate, Spawn, RelayEnds, Unlist, TakePacket, reconnectVars
<1>11. CASE UNCHANGED allVars
  BY <1>1, <1>11 DEF allVars, relayVars, reconnectVars
<1>12. QED
  BY <1>2, <1>3, <1>4, <1>5, <1>6, <1>7, <1>8, <1>9, <1>10, <1>11 DEF ClientNext, Relaying

\* Every variable of the relay keeps its type; the ids never run out.
THEOREM ClientTypeCorrect == ClientSpec => []ClientTypeOK
<1>1. ClientInit => ReplyTypes
  <2>1. ClientInit => load \in Loads /\ inbox \in Seq(Sids) /\ routing \in Sids \cup {NoSession}
    BY DEF ClientInit
  <2>2. ClientInit => server \in [Sids -> 0..made \cup {NoTunnel}]
    BY DEF ClientInit
  <2>3. QED
    BY <2>1, <2>2 DEF ReplyTypes
<1>2. ReconnectTypeOK /\ AssocInv /\ ReplyTypes => ClientTypeOK
  BY DEF AssocInv, EntryTypes, AssocStages, ReplyTypes, ClientTypeOK
<1>3. QED
  BY <1>1, <1>2, AssocStep, AssocsAtStart, ReplyTypesStep, ClientImplementsReconnect, TypeCorrect,
     PTL DEF ClientSpec
=============================================================================
