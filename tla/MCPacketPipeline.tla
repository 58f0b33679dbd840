-------------------------- MODULE MCPacketPipeline --------------------------
(***************************************************************************)
(* TLC instance of PacketPipeline: two peers, two processors producing,    *)
(* two workers, a ring of one entry, one packet per round.                 *)
(***************************************************************************)
EXTENDS PacketPipeline

CONSTANTS peerA, peerB, p1, p2, q1

MCPackets == {p1, p2, q1}

MCPeerOf == [k \in MCPackets |-> IF k = q1 THEN peerB ELSE peerA]

MCRxCalls == {<<q1, p1>>, <<p2>>}

MCTxCalls == {<<p1>>, <<p2>>}
=============================================================================
