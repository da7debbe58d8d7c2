----------------------- MODULE MCNetworkReceiveQueue -----------------------
(***************************************************************************)
(* Instances of NetworkReceiveQueue for TLC: two messages that collide in   *)
(* std::hash, two peers, and capacities that both the count and *)
(* the byte limit can reach.                                               *)
(***************************************************************************)
EXTENDS NetworkReceiveQueue, TLC

CONSTANTS m1, m2, p1, p2

MCMessages == {m1, m2}
MCPeers == {p1, p2}
MCMessageSize == (m1 :> 1) @@ (m2 :> 2)
MCPeerSize == (p1 :> 1) @@ (p2 :> 2)
MCHash == (m1 :> 0) @@ (m2 :> 0)
=============================================================================
