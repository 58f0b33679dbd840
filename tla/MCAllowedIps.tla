---------------------------- MODULE MCAllowedIps ----------------------------
(***************************************************************************)
(* TLC instance of AllowedIps: addresses of two bits, three nodes, three   *)
(* prefixes that nest and collide, two peers and a reader.                 *)
(***************************************************************************)
EXTENDS AllowedIps

MCGiven == {<<2, 0>>, <<0, 2>>, <<1, 2>>}

MCAllowedIpsSpec == AllowedIpsInit /\ [][AllowedIpsNext]_aipVars
=============================================================================
