------------------------------- MODULE MCKeys -------------------------------
(***************************************************************************)
(* TLC instance of a session's keypair slots, of its replay window and of  *)
(* the primitives of the timers that renew it.  They do not interact here, *)
(* so a behaviour moves one of them, chosen at the start.                  *)
(*                                                                         *)
(*   keypairs: two workers, a data packet and three keypairs, so that all  *)
(*     three slots fill and a keypair is rotated out;                      *)
(*   replay window: a ring of two words of two bits (window of two) in a   *)
(*     counter space in which the ring is lapped before the message limit, *)
(*     seven, is reached;                                                  *)
(*   timers: one timer, two callers and one processor beside theirs.       *)
(*                                                                         *)
(* Workers, packet buffers and callers of the three are the same two       *)
(* values, so that one permutation is a symmetry of them all.              *)
(***************************************************************************)
EXTENDS NoiseKeypairs, ReplayCounter, TimerPrimitives, TLC

CONSTANTS Parts, t1, t2, k1, k2, k3

VARIABLE part

MCThreads == {t1, t2}
MCKeypairs == {k1, k2, k3}

Symmetry == Permutations(MCThreads) \cup Permutations(MCKeypairs)

\* Of the initial states of the timers, the parts that stand still take one.
MCInit ==
    /\ part \in Parts
    /\ Init /\ ReplayInit /\ TimerInit
    /\ part # "timers" => isUp

MCNext ==
    /\ UNCHANGED part
    /\ IF part = "keypairs" THEN Next ELSE UNCHANGED vars
    /\ IF part = "replay window" THEN ReplayNext ELSE UNCHANGED replayVars
    /\ IF part = "timers" THEN TimerNext ELSE UNCHANGED timerVars

MCSpec == MCInit /\ [][MCNext]_<<part, vars, replayVars, timerVars>>
=============================================================================
