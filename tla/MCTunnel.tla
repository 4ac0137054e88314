------------------------------ MODULE MCTunnel ------------------------------
(***************************************************************************)
(* MuxTunnel for TLC: its workloads.                                       *)
(***************************************************************************)
EXTENDS MuxTunnel

Load(ofClient, ofServer) == [p \in Peers |-> IF p = "client" THEN ofClient ELSE ofServer]

\* More data than the window in one direction; little of it with sessions; and
\* datagrams both ways, enough of them to fill the queues of both peers.
MCWorkloads == {Load(0, 3), Load(0, 1), Load(1, 0)}
MCSessionLoads == {Load(0, 1)}
MCDatagrams == [w \in MCWorkloads |-> IF w = Load(1, 0) THEN Load(1, 2) ELSE Load(0, 0)]

\* Both peers write.
MCBothWays == {Load(3, 3)}
MCNoDatagrams == [w \in MCBothWays |-> Load(0, 0)]
=============================================================================
