--------------------------- MODULE ServerDatagrams ---------------------------
(***************************************************************************)
(* What a server does with the datagrams of its tunnels depends on its     *)
(* configuration (handle_datagram, crates/hydr-server/src/lib.rs): with    *)
(* next_hop they are relayed to the next server, without it they go to the *)
(* UDP sessions.                                                           *)
(***************************************************************************)
EXTENDS UdpSessions, NextHop

VARIABLE next_hop  \* config.next_hop.is_some()

serverVars == <<vars, hopVars, next_hop>>

ServerInit == next_hop \in BOOLEAN /\ Init /\ HopInit

HandleDatagrams ==
    \/ next_hop /\ HopNext /\ UNCHANGED <<vars, next_hop>>
    \/ ~next_hop /\ Next /\ UNCHANGED <<hopVars, next_hop>>

\* As in UdpSessions.
ServerSpec ==
    /\ ServerInit /\ [][HandleDatagrams]_serverVars
    /\ ~next_hop => Fairness
=============================================================================
