------------------------------ MODULE MCPeers ------------------------------
\* Two peers that may be closed from aside, or that nobody closes.
EXTENDS Peers

Nobody == {}
Anybody == {"client", "host"}
============================================================================
