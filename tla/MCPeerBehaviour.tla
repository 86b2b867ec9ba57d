-------------------------- MODULE MCPeerBehaviour --------------------------
(***************************************************************************)
(* Three connections of p1, two of them dialed to the same address, and    *)
(* one of p2.                                                              *)
(***************************************************************************)
EXTENDS PeerBehaviour, TLC

CONSTANTS c1, c2, c3, c4, p1, p2, x1, x2

PeerOfConn     == (c1 :> p1) @@ (c2 :> p1) @@ (c3 :> p1) @@ (c4 :> p2)
EndpointOfConn == (c1 :> x1) @@ (c2 :> x1) @@ (c3 :> x2) @@ (c4 :> x2)
=============================================================================
