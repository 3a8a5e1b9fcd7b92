------------------------------ MODULE MCPeerSync ------------------------------
(* Instance of PeerSync: three entries, the second of them the node itself.    *)
EXTENDS PeerSync, TLC
CONSTANTS p1, p2, p3
MCPeerList == <<p1, p2, p3>>
==============================================================================
