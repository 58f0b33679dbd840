------------------------- MODULE MCRatelimiterSelftest -------------------------
(***************************************************************************)
(* RatelimiterSelftest with two packets to the burst and 18 entries.  The    *)
(* clock stops short of PACKET_COST, so that nobody can earn a token: what   *)
(* the test meets is the burst, the collector, and not a slow processor.     *)
(***************************************************************************)
EXTENDS RatelimiterSelftest

(* Two buckets; <<4, 0>> is in the second one. *)
MCTable == <<({4} \X (1..18)) \cup ({6} \X (0..8)), {<<4, 0>>}>>
MCEntries == 1..18

Spec == SelftestInit /\ [][SelftestNext]_<<rlVars, test>>
=============================================================================
