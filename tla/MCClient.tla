------------------------------ MODULE MCClient ------------------------------
(***************************************************************************)
(* Two things a client does, for TLC: it sends with flow control           *)
(* (WsFlowControl), and replaces dead tunnels under its requests and       *)
(* associations (ClientUdp).  The models share nothing, so that it is      *)
(* enough to let one of them move in each behaviour.                       *)
(***************************************************************************)
EXTENDS WsFlowControl, ClientUdp

VARIABLE subject  \* which of the two moves

\* One load is enough when the tunnels do not move.
MCInit ==
    /\ subject \in {"flow", "tunnels"}
    /\ FlowInit /\ ClientInit
    /\ subject # "tunnels" => load = CHOOSE l \in Loads : TRUE

MCNext ==
    /\ UNCHANGED subject
    /\ \/ subject = "flow" /\ FlowNext /\ UNCHANGED allVars
       \/ subject = "tunnels" /\ ClientNext /\ UNCHANGED flowVars

MCSpec ==
    /\ MCInit /\ [][MCNext]_<<flowVars, allVars, subject>>
    /\ subject = "flow" => FlowFairness
    /\ subject = "tunnels" => ClientFairness
=============================================================================
