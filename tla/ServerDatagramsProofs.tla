------------------------ MODULE ServerDatagramsProofs ------------------------
(***************************************************************************)
(* Proofs about UdpSessions, for any tunnels, addresses, ids and caps: the *)
(* counters kept beside the session table agree with it, the caps hold,    *)
(* and a session never changes its client's address.  About NextHop, for   *)
(* any number of clients.  And that a server with either configuration     *)
(* keeps what UdpSessions and NextHop keep alone.                          *)
(***************************************************************************)
EXTENDS ServerDatagrams, FiniteSetTheorems, TLAPS

----------------------------------------------------------------------------
(* The UDP sessions *)

\* A session was created for a tunnel of the address in its key; whoever has
\* used it has that address; what was not created yet nobody has used.
OwnerInv ==
    /\ \A k \in Present : /\ sessions[k] <= created
                          /\ upstream[sessions[k]] \in Tunnels
                          /\ ipOf[upstream[sessions[k]]] = k[1]
    /\ \A n \in Incarnations : n > created => user[n] = None

IInv == TypeOK /\ CountersExact /\ CapsRespected /\ OwnerInv /\ OwnerOnly

----------------------------------------------------------------------------
\* The table is finite.
LEMMA TableFinite ==
    /\ IsFiniteSet(Present) /\ Cardinality(Present) \in Nat
    /\ \A ip \in IPs : IsFiniteSet(OfIp(ip)) /\ Cardinality(OfIp(ip)) \in Nat
<1>1. IsFiniteSet(Keys)
  BY UdpAssumption, FS_Product DEF Keys
<1>2. IsFiniteSet(Present)
  BY <1>1, FS_Subset DEF Present
<1>3. ASSUME NEW ip \in IPs PROVE IsFiniteSet(OfIp(ip))
  BY <1>2, FS_Subset DEF OfIp
<1>4. QED
  BY <1>2, <1>3, FS_CardinalityType

\* Taking part of a finite set away takes its cardinality away.
LEMMA DifferenceCounts ==
    ASSUME NEW S, IsFiniteSet(S), NEW T \in SUBSET S
    PROVE  /\ IsFiniteSet(T) /\ Cardinality(T) \in Nat
           /\ Cardinality(S \ T) = Cardinality(S) - Cardinality(T)
           /\ Cardinality(S \ T) \in Nat
<1>1. IsFiniteSet(T) /\ Cardinality(T) \in Nat
  BY FS_Subset, FS_CardinalityType
<1>2. S \cap T = T
  OBVIOUS
<1>3. IsFiniteSet(S \ T) /\ Cardinality(S \ T) = Cardinality(S) - Cardinality(T)
  BY <1>2, FS_Difference
<1>4. QED
  BY <1>1, <1>3, FS_CardinalityType

----------------------------------------------------------------------------
\* The server starts with an empty table.
LEMMA InitInv == Init => IInv
<1> SUFFICES ASSUME Init PROVE IInv
  OBVIOUS
<1>1. TypeOK
  <2>1. /\ sessions \in [Keys -> Incarnations \cup {None}]
        /\ upstream \in [Incarnations -> Tunnels \cup {None}]
        /\ user \in [Incarnations -> Tunnels \cup {None}]
    BY DEF Init
  <2>2. fwd \in [Forwards -> {NoForward} \cup
                    [stage : {"spawned", "sending"}, tunnel : Tunnels, sid : Sids,
                     session : Incarnations \cup {None}]]
    BY DEF Init
  <2>3. /\ perIp \in [IPs -> Nat] /\ gauge \in Nat /\ created \in 0..MaxCreated
        /\ idle \subseteq Incarnations /\ done \subseteq Incarnations
        /\ replying \subseteq Incarnations
    BY UdpAssumption DEF Init
  <2>4. QED
    BY <2>1, <2>2, <2>3 DEF Init, TypeOK
<1>2. Present = {} /\ \A ip \in IPs : OfIp(ip) = {}
  BY DEF Init, Present, OfIp
<1>3. CountersExact /\ CapsRespected
  <2>1. Cardinality({}) = 0
    BY FS_EmptySet
  <2>2. CountersExact
    BY <1>2, <2>1 DEF Init, CountersExact
  <2>3. CapsRespected
    BY <1>2, <2>1, UdpAssumption DEF CapsRespected
  <2>4. QED
    BY <2>2, <2>3
<1>4. OwnerInv /\ OwnerOnly
  BY <1>2 DEF Init, OwnerInv, OwnerOnly
<1>5. QED
  BY <1>1, <1>3, <1>4 DEF IInv

\* Sessions that are in the table leave it: what Remove does to the table, and
\* that the counters follow.
LEMMA RemoveStep ==
    ASSUME TypeOK, CountersExact, CapsRespected, NEW ks \in SUBSET Present, Remove(ks)
    PROVE  /\ sessions' \in [Keys -> Incarnations \cup {None}]
           /\ perIp' \in [IPs -> Nat] /\ gauge' \in Nat
           /\ done' \subseteq Incarnations /\ idle' \subseteq Incarnations
           /\ \A k \in Present' : k \in Present /\ sessions'[k] = sessions[k]
           /\ CountersExact' /\ CapsRespected'
<1> DEFINE ksOf(ip) == {k \in ks : k[1] = ip}
<1>1. sessions' \in [Keys -> Incarnations \cup {None}]
  BY DEF Remove, TypeOK
<1>2. Present' = Present \ ks /\ \A k \in Present' : sessions'[k] = sessions[k]
  BY DEF Remove, Present
<1>3. \A k \in ks : sessions[k] \in Incarnations
  BY DEF Present, TypeOK
<1>4. done' \subseteq Incarnations /\ idle' \subseteq Incarnations
  BY <1>3 DEF Remove, TypeOK
<1>5. /\ gauge' = Cardinality(Present') /\ gauge' \in Nat
      /\ Cardinality(Present') <= Cardinality(Present)
  <2>1. /\ Cardinality(Present \ ks) = Cardinality(Present) - Cardinality(ks)
        /\ Cardinality(Present \ ks) \in Nat /\ Cardinality(ks) \in Nat
    BY TableFinite, DifferenceCounts
  <2>2. gauge' = Cardinality(Present) - Cardinality(ks)
    BY DEF Remove, CountersExact
  <2>3. QED
    BY <1>2, <2>1, <2>2, TableFinite
<1>6. ASSUME NEW ip \in IPs
      PROVE  /\ perIp'[ip] = Cardinality(OfIp(ip)') /\ perIp'[ip] \in Nat
             /\ Cardinality(OfIp(ip)') <= Cardinality(OfIp(ip))
  <2>1. OfIp(ip)' = OfIp(ip) \ ksOf(ip) /\ ksOf(ip) \in SUBSET OfIp(ip)
    BY <1>2 DEF OfIp
  <2>2. /\ Cardinality(OfIp(ip) \ ksOf(ip)) = Cardinality(OfIp(ip)) - Cardinality(ksOf(ip))
        /\ Cardinality(OfIp(ip) \ ksOf(ip)) \in Nat /\ Cardinality(ksOf(ip)) \in Nat
    BY <2>1, TableFinite, DifferenceCounts
  <2>3. perIp'[ip] = Cardinality(OfIp(ip)) - Cardinality(ksOf(ip))
    BY DEF Remove, CountersExact
  <2>4. QED
    BY <2>1, <2>2, <2>3, TableFinite
<1>7. perIp' \in [IPs -> Nat]
  BY <1>6 DEF Remove
<1>8. CountersExact'
  BY <1>5, <1>6 DEF CountersExact
<1>9. CapsRespected'
  <2>1. Cardinality(Present') <= MaxSessions
    <3>1. Cardinality(Present') \in Nat /\ Cardinality(Present) \in Nat
      BY <1>5, TableFinite
    <3>2. QED
      BY <1>5, <3>1, UdpAssumption DEF CapsRespected
  <2>2. ASSUME NEW ip \in IPs PROVE Cardinality(OfIp(ip)') <= MaxPerIp
    <3>1. Cardinality(OfIp(ip)') \in Nat /\ Cardinality(OfIp(ip)) \in Nat
      BY <1>6, TableFinite
    <3>2. QED
      BY <1>6, <3>1, UdpAssumption DEF CapsRespected
  <2>3. QED
    BY <2>1, <2>2 DEF CapsRespected
<1>10. QED
  BY <1>1, <1>2, <1>4, <1>5, <1>7, <1>8, <1>9

\* A session of address ip enters the table under an absent key, where there is
\* room: the counters follow.
LEMMA InsertStep ==
    ASSUME TypeOK, CountersExact, CapsRespected,
           NEW ip \in IPs, NEW sid \in Sids, NEW n \in Incarnations,
           sessions[<<ip, sid>>] = None, HasRoom(ip),
           sessions' = [sessions EXCEPT ![<<ip, sid>>] = n],
           perIp' = [perIp EXCEPT ![ip] = @ + 1],
           gauge' = gauge + 1
    PROVE  /\ sessions' \in [Keys -> Incarnations \cup {None}]
           /\ perIp' \in [IPs -> Nat] /\ gauge' \in Nat
           /\ sessions'[<<ip, sid>>] = n
           /\ \A k \in Present' : \/ k = <<ip, sid>>
                                  \/ k \in Present /\ sessions'[k] = sessions[k]
           /\ CountersExact' /\ CapsRespected'
<1> DEFINE key == <<ip, sid>>
<1>1. key \in Keys /\ n # None /\ key[1] = ip
  BY DEF Keys, Incarnations, None
<1>2. /\ sessions' \in [Keys -> Incarnations \cup {None}]
      /\ sessions'[key] = n
      /\ \A k \in Keys : k # key => sessions'[k] = sessions[k]
  BY <1>1 DEF TypeOK
<1>3. Present' = Present \cup {key} /\ key \notin Present
  BY <1>1, <1>2 DEF Present
<1>4. Cardinality(Present') = Cardinality(Present) + 1
  BY <1>3, TableFinite, FS_AddElement
<1>5. OfIp(ip)' = OfIp(ip) \cup {key} /\ key \notin OfIp(ip)
  BY <1>1, <1>3 DEF OfIp
<1>6. Cardinality(OfIp(ip)') = Cardinality(OfIp(ip)) + 1
  BY <1>5, TableFinite, FS_AddElement
<1>7. \A q \in IPs : q # ip => OfIp(q)' = OfIp(q)
  BY <1>1, <1>3 DEF OfIp
<1>8. perIp' \in [IPs -> Nat] /\ gauge' \in Nat
  BY DEF TypeOK
<1>9. perIp'[ip] = perIp[ip] + 1 /\ \A q \in IPs : q # ip => perIp'[q] = perIp[q]
  BY DEF TypeOK
<1>10. CountersExact'
  BY <1>4, <1>6, <1>7, <1>9 DEF CountersExact
<1>11. CapsRespected'
  <2>1. Cardinality(Present) < MaxSessions /\ Cardinality(OfIp(ip)) < MaxPerIp
    BY DEF HasRoom, CountersExact
  <2>2. /\ Cardinality(Present') <= MaxSessions
        /\ Cardinality(OfIp(ip)') <= MaxPerIp
    BY <1>4, <1>6, <2>1, TableFinite, UdpAssumption
  <2>3. QED
    BY <1>7, <2>2 DEF CapsRespected
<1>12. QED
  BY <1>1, <1>2, <1>3, <1>8, <1>10, <1>11

----------------------------------------------------------------------------
FwdTypes == [Forwards -> {NoForward} \cup
                [stage : {"spawned", "sending"}, tunnel : Tunnels, sid : Sids,
                 session : Incarnations \cup {None}]]

\* A forward task that runs has a datagram: its tunnel and its session id.
LEMMA Forwarding ==
    ASSUME TypeOK, NEW f \in Forwards, fwd[f].stage \in {"spawned", "sending"}
    PROVE  /\ fwd[f].tunnel \in Tunnels /\ fwd[f].sid \in Sids
           /\ ipOf[fwd[f].tunnel] \in IPs
           /\ KeyOf(fwd[f].tunnel, fwd[f].sid) \in Keys
           /\ [fwd EXCEPT ![f] = NoForward] \in FwdTypes
           /\ \A n \in Incarnations :
                  [fwd EXCEPT ![f].stage = "sending", ![f].session = n] \in FwdTypes
<1>1. fwd \in FwdTypes
  BY DEF TypeOK, FwdTypes
<1>2. NoForward.stage = "none"
  BY DEF NoForward
<1>3. fwd[f] \in [stage : {"spawned", "sending"}, tunnel : Tunnels, sid : Sids,
                  session : Incarnations \cup {None}]
  BY <1>1, <1>2 DEF FwdTypes
<1>4. fwd[f].tunnel \in Tunnels /\ fwd[f].sid \in Sids
  BY <1>3
<1>5. ipOf[fwd[f].tunnel] \in IPs /\ KeyOf(fwd[f].tunnel, fwd[f].sid) \in Keys
  BY <1>4 DEF TypeOK, KeyOf, Keys
<1>6. [fwd EXCEPT ![f] = NoForward] \in FwdTypes
  BY <1>1 DEF FwdTypes
<1>7. ASSUME NEW n \in Incarnations
      PROVE  [fwd EXCEPT ![f].stage = "sending", ![f].session = n] \in FwdTypes
  <2> DEFINE g == [fwd[f] EXCEPT !.stage = "sending", !.session = n]
  <2>1. g \in [stage : {"spawned", "sending"}, tunnel : Tunnels, sid : Sids,
               session : Incarnations \cup {None}]
    BY <1>3
  <2>2. [fwd EXCEPT ![f].stage = "sending", ![f].session = n] = [fwd EXCEPT ![f] = g]
    BY <1>1, <1>3 DEF FwdTypes
  <2> HIDE DEF g
  <2>3. [fwd EXCEPT ![f] = g] \in FwdTypes
    BY <1>1, <2>1 DEF FwdTypes
  <2>4. QED
    BY <2>2, <2>3
<1>8. QED
  BY <1>4, <1>5, <1>6, <1>7

\* A step that leaves the table and who owns and uses its sessions alone.
LEMMA StillStep ==
    ASSUME IInv, TypeOK',
           UNCHANGED <<ipOf, sessions, perIp, gauge, created, upstream, user>>
    PROVE  IInv'
BY DEF IInv, CountersExact, CapsRespected, OwnerInv, OwnerOnly, Present, OfIp

\* A failed send, or the sweep, removes sessions that are in the table.
LEMMA RemovalInv ==
    ASSUME IInv, NEW ks \in SUBSET Present, Remove(ks), fwd' \in FwdTypes,
           UNCHANGED <<ipOf, alive, taskVars, user, misrouted>>
    PROVE  IInv'
<1>1. TypeOK' /\ CountersExact' /\ CapsRespected'
  BY RemoveStep DEF IInv, TypeOK, FwdTypes, taskVars
<1>2. \A k \in Present' : k \in Present /\ sessions'[k] = sessions[k]
  BY RemoveStep DEF IInv
<1>3. OwnerInv' /\ OwnerOnly'
  BY <1>2 DEF IInv, OwnerInv, OwnerOnly, taskVars
<1>4. QED
  BY <1>1, <1>3 DEF IInv

\* A datagram is sent on a session that exists: its client has the address the
\* session was created for, since the address is part of the key.
LEMMA ForwardExistingInv ==
    ASSUME IInv, NEW f \in Forwards, ForwardExisting(f)
    PROVE  IInv'
<1> DEFINE t == fwd[f].tunnel
           key == KeyOf(t, fwd[f].sid)
           n == sessions[key]
<1>1. /\ t \in Tunnels /\ key \in Keys /\ key[1] = ipOf[t]
      /\ n \in Incarnations /\ key \in Present
      /\ fwd' = [fwd EXCEPT ![f].stage = "sending", ![f].session = n]
  BY Forwarding DEF ForwardExisting, Uses, IInv, TypeOK, Present, KeyOf
<1>2. /\ user' = [user EXCEPT ![n] = t] /\ idle' = idle \ {n}
      /\ UNCHANGED <<ipOf, alive, sessions, perIp, gauge, done, created, upstream,
                     replying, misrouted>>
  BY DEF ForwardExisting, Uses, tableVars, taskVars
<1>3. fwd' \in FwdTypes
  BY <1>1, Forwarding DEF ForwardExisting, IInv
<1>4. user' \in [Incarnations -> Tunnels \cup {None}]
  BY <1>1, <1>2 DEF IInv, TypeOK
<1>5. TypeOK'
  BY <1>2, <1>3, <1>4 DEF IInv, TypeOK, FwdTypes
<1>6. CountersExact' /\ CapsRespected'
  BY <1>2 DEF IInv, CountersExact, CapsRespected, Present, OfIp
<1>7. n <= created /\ ipOf[upstream[n]] = ipOf[t]
  BY <1>1 DEF IInv, OwnerInv
<1>8. OwnerInv'
  <2>1. \A k \in Present' : /\ sessions'[k] <= created'
                            /\ upstream'[sessions'[k]] \in Tunnels
                            /\ ipOf'[upstream'[sessions'[k]]] = k[1]
    BY <1>2 DEF IInv, OwnerInv, Present
  <2>2. ASSUME NEW m \in Incarnations, m > created PROVE user'[m] = None
    <3>1. m # n
      BY <1>1, <1>7, <2>2 DEF IInv, TypeOK, Incarnations
    <3>2. QED
      BY <1>2, <2>2, <3>1 DEF IInv, OwnerInv, TypeOK
  <2>3. QED
    BY <1>2, <2>1, <2>2 DEF OwnerInv
<1>9. OwnerOnly'
  BY <1>1, <1>2, <1>7 DEF IInv, OwnerOnly, TypeOK
<1>10. QED
  BY <1>5, <1>6, <1>8, <1>9 DEF IInv

\* A datagram creates a session, for its own tunnel.
LEMMA ForwardNewInv ==
    ASSUME IInv, NEW f \in Forwards, ForwardNew(f)
    PROVE  IInv'
<1> DEFINE t == fwd[f].tunnel
           sid == fwd[f].sid
           key == KeyOf(t, sid)
           n == created + 1
<1>1. /\ t \in Tunnels /\ sid \in Sids /\ ipOf[t] \in IPs
      /\ key = <<ipOf[t], sid>> /\ key[1] = ipOf[t]
  BY Forwarding DEF ForwardNew, IInv, KeyOf
<1>2. n \in Incarnations /\ n \in 0..MaxCreated /\ created \in Nat
  BY UdpAssumption DEF ForwardNew, IInv, TypeOK, Incarnations
<1>3. /\ created' = n /\ upstream' = [upstream EXCEPT ![n] = t]
      /\ replying' = replying \cup {n} /\ user' = [user EXCEPT ![n] = t]
      /\ fwd' = [fwd EXCEPT ![f].stage = "sending", ![f].session = n]
      /\ UNCHANGED <<ipOf, alive, idle, done, misrouted>>
  BY DEF ForwardNew, Uses
<1>4. /\ sessions[<<ipOf[t], sid>>] = None /\ HasRoom(ipOf[t])
      /\ sessions' = [sessions EXCEPT ![<<ipOf[t], sid>>] = n]
      /\ perIp' = [perIp EXCEPT ![ipOf[t]] = @ + 1] /\ gauge' = gauge + 1
  BY <1>1 DEF ForwardNew
<1> HIDE DEF n, t, sid, key
<1>5. /\ sessions' \in [Keys -> Incarnations \cup {None}]
      /\ perIp' \in [IPs -> Nat] /\ gauge' \in Nat
      /\ sessions'[key] = n
      /\ \A k \in Present' : k = key \/ (k \in Present /\ sessions'[k] = sessions[k])
      /\ CountersExact' /\ CapsRespected'
  <2>1. TypeOK /\ CountersExact /\ CapsRespected
    BY DEF IInv
  <2> DEFINE ip == ipOf[t]
  <2>2. /\ ip \in IPs /\ key = <<ip, sid>>
        /\ sessions[<<ip, sid>>] = None /\ HasRoom(ip)
        /\ sessions' = [sessions EXCEPT ![<<ip, sid>>] = n]
        /\ perIp' = [perIp EXCEPT ![ip] = @ + 1] /\ gauge' = gauge + 1
    BY <1>1, <1>4
  <2> HIDE DEF ip
  <2>3. /\ sessions' \in [Keys -> Incarnations \cup {None}]
        /\ perIp' \in [IPs -> Nat] /\ gauge' \in Nat
        /\ sessions'[<<ip, sid>>] = n
        /\ \A k \in Present' : \/ k = <<ip, sid>>
                               \/ k \in Present /\ sessions'[k] = sessions[k]
        /\ CountersExact' /\ CapsRespected'
    <3>1. sid \in Sids /\ n \in Incarnations
      BY <1>1, <1>2
    <3>2. QED
      BY <2>1, <2>2, <3>1, InsertStep
  <2>4. QED
    BY <2>2, <2>3
<1>6. fwd' \in FwdTypes
  BY <1>2, <1>3, Forwarding DEF ForwardNew, IInv
<1>7. /\ upstream' \in [Incarnations -> Tunnels \cup {None}] /\ upstream'[n] = t
      /\ user' \in [Incarnations -> Tunnels \cup {None}] /\ user'[n] = t
      /\ \A m \in Incarnations : m # n => upstream'[m] = upstream[m] /\ user'[m] = user[m]
  BY <1>1, <1>2, <1>3 DEF IInv, TypeOK
<1>8. TypeOK'
  BY <1>2, <1>3, <1>5, <1>6, <1>7 DEF IInv, TypeOK, FwdTypes
<1>9. \A m \in Incarnations : m <= created => m # n /\ m <= created'
  BY <1>2, <1>3 DEF n, Incarnations
<1>10. OwnerInv'
  <2>1. ASSUME NEW k \in Present'
        PROVE  /\ sessions'[k] <= created'
               /\ upstream'[sessions'[k]] \in Tunnels
               /\ ipOf'[upstream'[sessions'[k]]] = k[1]
    <3>1. CASE k = key
      BY <1>1, <1>2, <1>3, <1>5, <1>7, <3>1 DEF Incarnations
    <3>2. CASE k \in Present /\ sessions'[k] = sessions[k]
      <4>1. sessions[k] \in Incarnations /\ sessions[k] <= created
        BY <3>2 DEF IInv, TypeOK, Present, OwnerInv
      <4>2. QED
        BY <1>3, <1>7, <1>9, <3>2, <4>1 DEF IInv, OwnerInv
    <3>3. QED
      BY <1>5, <3>1, <3>2
  <2>2. ASSUME NEW m \in Incarnations, m > created' PROVE user'[m] = None
    <3>1. m > created /\ m # n
      BY <1>2, <1>3, <2>2 DEF n, Incarnations
    <3>2. QED
      BY <1>7, <3>1 DEF IInv, OwnerInv
  <2>3. QED
    BY <2>1, <2>2 DEF OwnerInv
<1>11. OwnerOnly'
  BY <1>2, <1>3, <1>7 DEF IInv, OwnerOnly
<1>12. QED
  BY <1>5, <1>8, <1>10, <1>11 DEF IInv

----------------------------------------------------------------------------
\* The forward tasks keep the invariant.
LEMMA ForwardInv ==
    ASSUME IInv, NEW f \in Forwards,
           \/ \E t \in Tunnels, sid \in Sids : DatagramArrives(f, t, sid)
           \/ ForwardExisting(f) \/ ForwardNew(f) \/ ForwardRefused(f)
           \/ ForwardDone(f) \/ SendFails(f)
    PROVE  IInv'
<1>1. ASSUME NEW t \in Tunnels, NEW sid \in Sids, DatagramArrives(f, t, sid) PROVE IInv'
  <2>1. fwd' \in FwdTypes
    BY <1>1 DEF DatagramArrives, IInv, TypeOK, FwdTypes
  <2>2. UNCHANGED <<ipOf, alive, sessions, perIp, gauge, done, idle, created, upstream,
                    replying, user, misrouted>>
    BY <1>1 DEF DatagramArrives, tableVars, taskVars
  <2>3. TypeOK'
    BY <2>1, <2>2 DEF IInv, TypeOK, FwdTypes
  <2>4. QED
    BY <2>2, <2>3, StillStep
<1>2. CASE ForwardExisting(f)
  BY <1>2, ForwardExistingInv
<1>3. CASE ForwardNew(f)
  BY <1>3, ForwardNewInv
<1>4. CASE ForwardRefused(f) \/ ForwardDone(f)
  <2>1. fwd' \in FwdTypes
    BY <1>4, Forwarding DEF ForwardRefused, ForwardDone, IInv
  <2>2. UNCHANGED <<ipOf, alive, sessions, perIp, gauge, done, idle, created, upstream,
                    replying, user, misrouted>>
    BY <1>4 DEF ForwardRefused, ForwardDone, tableVars, taskVars
  <2>3. TypeOK'
    BY <2>1, <2>2 DEF IInv, TypeOK, FwdTypes
  <2>4. QED
    BY <2>2, <2>3, StillStep
<1>5. CASE SendFails(f)
  <2> DEFINE ks == {KeyOf(fwd[f].tunnel, fwd[f].sid)} \cap Present
  <2>1. fwd' \in FwdTypes
    BY <1>5, Forwarding DEF SendFails, IInv
  <2>2. Remove(ks) /\ UNCHANGED <<ipOf, alive, taskVars, user, misrouted>>
    BY <1>5 DEF SendFails
  <2>3. ks \in SUBSET Present
    OBVIOUS
  <2> HIDE DEF ks
  <2>4. QED
    BY <2>1, <2>2, <2>3, RemovalInv
<1>6. QED
  BY <1>1, <1>2, <1>3, <1>4, <1>5

\* The sweep keeps the invariant.
LEMMA SweepInv == ASSUME IInv, Sweep PROVE IInv'
<1> DEFINE stale == {k \in Present : sessions[k] \in idle}
<1>1. Remove(stale) /\ UNCHANGED <<ipOf, alive, taskVars, fwd, user, misrouted>>
  BY DEF Sweep
<1>2. stale \in SUBSET Present
  OBVIOUS
<1>3. fwd' \in FwdTypes
  BY <1>1 DEF IInv, TypeOK, FwdTypes
<1> HIDE DEF stale
<1>4. QED
  BY <1>1, <1>2, <1>3, RemovalInv

\* Time, the reply tasks and the tunnels keep the invariant.
LEMMA OthersInv ==
    ASSUME IInv, \/ \E n \in Incarnations :
                        GrowsIdle(n) \/ Reply(n) \/ ReplyTaskFails(n) \/ ReplyTaskStops(n)
                 \/ \E t \in Tunnels : TunnelCloses(t)
                 \/ UNCHANGED vars
    PROVE  IInv'
<1>1. UNCHANGED <<ipOf, sessions, perIp, gauge, done, created, upstream, fwd, user>>
  BY DEF GrowsIdle, Reply, ReplyTaskFails, ReplyTaskStops, TunnelCloses, vars, tableVars, taskVars
<1>2. /\ alive' \subseteq Tunnels /\ idle' \subseteq Incarnations
      /\ replying' \subseteq Incarnations /\ misrouted' \in BOOLEAN
  BY DEF GrowsIdle, Reply, ReplyTaskFails, ReplyTaskStops, TunnelCloses, vars, taskVars,
         IInv, TypeOK
<1>3. TypeOK'
  BY <1>1, <1>2 DEF IInv, TypeOK
<1>4. QED
  BY <1>1, <1>3, StillStep

\* Every step of the server's UDP side keeps the invariant.
LEMMA NextInv == IInv /\ [Next]_vars => IInv'
BY ForwardInv, SweepInv, OthersInv DEF Next

\* The type invariant of the session table and its tasks.
THEOREM TypeCorrect == Spec => []TypeOK
<1>1. IInv => TypeOK
  BY DEF IInv
<1>2. QED
  BY <1>1, InitInv, NextInv, PTL DEF Spec

\* per_ip and the gauge agree with the table, whatever mixture of creations,
\* failed sends (remove_session) and sweeps led to it.
THEOREM CountersAgree == Spec => []CountersExact
<1>1. IInv => CountersExact
  BY DEF IInv
<1>2. QED
  BY <1>1, InitInv, NextInv, PTL DEF Spec

\* Neither max_sessions nor max_per_ip is ever exceeded, for any caps.
THEOREM CapsHold == Spec => []CapsRespected
<1>1. IInv => CapsRespected
  BY DEF IInv
<1>2. QED
  BY <1>1, InitInv, NextInv, PTL DEF Spec

\* No client takes over the session of a client with another address (the key of
\* forward is (owner_ip, session_id)).
THEOREM SessionsKeepOwner == Spec => []OwnerOnly
<1>1. IInv => OwnerOnly
  BY DEF IInv
<1>2. QED
  BY <1>1, InitInv, NextInv, PTL DEF Spec

----------------------------------------------------------------------------
(* The slot of the next hop *)

\* Once a client is served the slot is filled, and nobody else has anything to
\* send.
SlotInv ==
    /\ \A t \in Clients : stage[t] = "serving" => slot # NoHop
    /\ SlotFilled

HopInv == HopTypeOK /\ SlotInv

----------------------------------------------------------------------------
\* A step of one tunnel or of one hop keeps the invariant.
LEMMA ServingKeepsInv ==
    ASSUME HopInv, NEW t \in Clients, ServingHop(t) PROVE HopInv'
<1> USE HopAssumption DEF HopInv, HopTypeOK, SlotInv, SlotFilled, Enters
<1>1. CASE HopConnected(t)
  BY <1>1 DEF HopConnected
<1>2. CASE HopRefused(t)
  BY <1>2 DEF HopRefused
<1>3. CASE FillSlot(t)
  BY <1>3 DEF FillSlot
<1>4. CASE Handle(t)
  BY <1>4 DEF Handle
<1>5. CASE SendOnSlot(t)
  BY <1>5 DEF SendOnSlot
<1>6. CASE RelayEnds(t)
  BY <1>6 DEF RelayEnds
<1>7. CASE TunnelEnds(t)
  BY <1>7 DEF TunnelEnds
<1>8. CASE HopLost(t)
  BY <1>8 DEF HopLost
<1>9. QED
  BY <1>1, <1>2, <1>3, <1>4, <1>5, <1>6, <1>7, <1>8 DEF ServingHop

\* HopInv is an inductive invariant of a server with a next hop.
THEOREM HopInvariance == HopSpec => []HopInv
<1>1. HopInit => HopInv
  BY HopAssumption DEF HopInit, HopInv, HopTypeOK, SlotInv, SlotFilled
<1>2. HopInv /\ [HopNext]_hopVars => HopInv'
  <2> SUFFICES ASSUME HopInv, [HopNext]_hopVars PROVE HopInv'
    OBVIOUS
  <2>1. CASE HopNext
    BY <2>1, ServingKeepsInv DEF HopNext
  <2>2. CASE UNCHANGED hopVars
    BY <2>2 DEF hopVars, HopInv, HopTypeOK, SlotInv, SlotFilled
  <2>3. QED
    BY <2>1, <2>2
<1>3. QED
  BY <1>1, <1>2, PTL DEF HopSpec

\* A task with something to send never finds the slot empty, however the tunnels
\* come and go.
THEOREM SlotIsFilled == HopSpec => []SlotFilled
<1>1. HopInv => SlotFilled
  BY DEF HopInv, SlotInv
<1>2. QED
  BY HopInvariance, <1>1, PTL

----------------------------------------------------------------------------
\* What a server does with datagrams is what one of the two modules says, and
\* nothing happens in the other one.
THEOREM ServerImplementsParts == ServerSpec => Spec /\ HopSpec
<1>1. ServerInit => Init /\ HopInit
  BY DEF ServerInit
<1>2. [HandleDatagrams]_serverVars => [Next]_vars
  BY DEF HandleDatagrams, serverVars
<1>3. [HandleDatagrams]_serverVars => [HopNext]_hopVars
  BY DEF HandleDatagrams, serverVars
<1>4. QED
  BY <1>1, <1>2, <1>3, PTL DEF ServerSpec, Spec, HopSpec

\* The safety of the session table and of the slot holds of the whole.
THEOREM ServerSafe ==
    ServerSpec => [](CountersExact /\ CapsRespected /\ OwnerOnly /\ SlotFilled)
BY ServerImplementsParts, CountersAgree, CapsHold, SessionsKeepOwner, SlotIsFilled,
   PTL
=============================================================================
