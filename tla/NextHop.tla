------------------------------- MODULE NextHop -------------------------------
(***************************************************************************)
(* A server with next_hop (crates/hydr-server/src/lib.rs): every tunnel of *)
(* a client connects a tunnel of its own to the next server, puts a handle *)
(* of it in the slot Server.downstream, which all tunnels share, and       *)
(* spawns a relay task that sends what this hop receives to its own        *)
(* client.  Datagrams and streams of every client go out on the hop that   *)
(* is in the slot when they are handled.                                   *)
(*                                                                         *)
(* A hop is named by the tunnel that connected it.  Which hop a reply      *)
(* comes back on is for the next server to say: it keeps its sessions by   *)
(* (address, session id), and all hops have one address.  It may be any    *)
(* hop, whoever's datagram is answered.                                    *)
(***************************************************************************)

CONSTANTS
    Clients,  \* tunnels of clients, each accepted once
    NoHop     \* an empty slot

ASSUME HopAssumption == NoHop \notin Clients

VARIABLES
    stage,     \* how far handle_tunnel is with each tunnel
    slot,      \* Server.downstream
    hopUp,     \* hops whose connection is up
    relaying,  \* hops whose relay task is running
    handling   \* clients with a datagram or stream task that has not run yet

hopVars == <<stage, slot, hopUp, relaying, handling>>

HopInit ==
    /\ stage = [t \in Clients |-> "accepted"]
    /\ slot = NoHop
    /\ hopUp = {} /\ relaying = {} /\ handling = {}

Enters(t, source, target) == stage[t] = source /\ stage' = [stage EXCEPT ![t] = target]

----------------------------------------------------------------------------
\* connect_next_hop succeeds.
HopConnected(t) ==
    /\ Enters(t, "accepted", "linked")
    /\ hopUp' = hopUp \cup {t}
    /\ UNCHANGED <<slot, relaying, handling>>

\* It fails: handle_tunnel returns.
HopRefused(t) ==
    /\ Enters(t, "accepted", "ended")
    /\ UNCHANGED <<slot, hopUp, relaying, handling>>

\* The slot is set, whoever's hop was in it, and the relay task spawned, before
\* the loop of the tunnel starts.
FillSlot(t) ==
    /\ Enters(t, "linked", "serving")
    /\ slot' = t
    /\ relaying' = relaying \cup {t}
    /\ UNCHANGED <<hopUp, handling>>

\* next_event returns a datagram (or a stream), and a task is spawned for it.
Handle(t) ==
    /\ stage[t] = "serving"
    /\ handling' = handling \cup {t}
    /\ UNCHANGED <<stage, slot, hopUp, relaying>>

\* handle_datagram: a clone of the handle in the slot, and send_datagram on it;
\* connect_peer opens its stream on it.  It fails if that hop is down.
SendOnSlot(t) ==
    /\ t \in handling
    /\ slot # NoHop
    /\ handling' = handling \ {t}
    /\ UNCHANGED <<stage, slot, hopUp, relaying>>

\* A reply comes on a hop, and its relay task sends it to the client of that hop.
\* Or that client's tunnel does not take it: the task ends, and the hop is not read
\* any more.
RelayEnds(h) ==
    /\ h \in hopUp \cap relaying
    /\ relaying' = relaying \ {h}
    /\ UNCHANGED <<stage, slot, hopUp, handling>>

\* The loop of handle_tunnel ends.  The slot and the relay task stay.  The mutant
\* clears the slot of a hop that is its own.
TunnelEndsClearing(t) ==
    /\ Enters(t, "serving", "ended")
    /\ slot' = IF slot = t THEN NoHop ELSE slot
    /\ UNCHANGED <<hopUp, relaying, handling>>
TunnelEnds(t) ==
    /\ Enters(t, "serving", "ended")
    /\ UNCHANGED <<slot, hopUp, relaying, handling>>

\* The connection of a hop is lost, and its relay task ends.
HopLost(h) ==
    /\ h \in hopUp
    /\ hopUp' = hopUp \ {h}
    /\ relaying' = relaying \ {h}
    /\ UNCHANGED <<stage, slot, handling>>

ServingHop(t) ==
    \/ HopConnected(t) \/ HopRefused(t) \/ FillSlot(t) \/ Handle(t) \/ SendOnSlot(t)
    \/ RelayEnds(t) \/ TunnelEnds(t) \/ HopLost(t)

HopNext == \E t \in Clients : ServingHop(t)

HopSpec == HopInit /\ [][HopNext]_hopVars

----------------------------------------------------------------------------
HopTypeOK ==
    /\ stage \in [Clients -> {"accepted", "linked", "serving", "ended"}]
    /\ slot \in Clients \cup {NoHop}
    /\ hopUp \subseteq Clients /\ relaying \subseteq Clients
    /\ handling \subseteq Clients

\* handle_datagram and connect_peer have an error "no next hop" for an empty
\* slot.  The slot is written by one task and read by tasks that may outlive
\* their tunnel: they never find it empty.
SlotFilled == handling # {} => slot # NoHop
=============================================================================
