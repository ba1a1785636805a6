----------------------------- MODULE MCHandOver -----------------------------
(* The systems of MCPeers, with the history of who asks alone.             *)
EXTENDS MCPeers, PeerHandOver
=============================================================================
