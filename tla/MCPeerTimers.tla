---------------------------- MODULE MCPeerTimers ----------------------------
EXTENDS PeerTimers
=============================================================================
