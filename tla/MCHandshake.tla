---------------------------- MODULE MCHandshake -----------------------------
(***************************************************************************)
(* TLC instance of Handshake: two ends with two workers between them, of   *)
(* which one end makes two initiations and the other one.                  *)
(***************************************************************************)
EXTENDS Handshake

MCMaxInitiations == [e \in Ends |-> IF e = "a" THEN 2 ELSE 1]
=============================================================================
