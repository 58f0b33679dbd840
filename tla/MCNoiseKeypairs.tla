--------------------------- MODULE MCNoiseKeypairs --------------------------
(***************************************************************************)
(* TLC instance of NoiseKeypairs: two workers, a data packet and three     *)
(* keypairs, so that all three slots fill and a keypair is rotated out.    *)
(***************************************************************************)
EXTENDS NoiseKeypairs, TLC

CONSTANTS t1, t2, d1, k1, k2, k3

MCThreads == {t1, t2}
MCPackets == {d1}
MCKeypairs == {k1, k2, k3}

Symmetry == Permutations(MCThreads) \cup Permutations(MCKeypairs)
=============================================================================
