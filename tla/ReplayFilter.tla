---------------------------- MODULE ReplayFilter ----------------------------
(***************************************************************************)
(* What the receive side of a keypair promises about message counters: a   *)
(* counter is delivered at most once, and it is delivered whenever it is   *)
(* below the message limit, not delivered before, and not more than        *)
(* Window behind the highest delivered counter.                            *)
(* ReplayCounter, the sliding bitmap of receive.c, implements this.        *)
(***************************************************************************)
EXTENDS Integers

CONSTANTS
    Nonces,   \* the message counters a packet can carry
    Limit,    \* first counter that is never delivered
    Window,   \* how far behind the highest delivered counter is still fresh
    None      \* no decision yet

VARIABLES
    accepted, \* counters delivered so far
    verdict   \* the last decision: counter and answer; turn flips each time

Fresh(n) ==
    /\ n < Limit
    /\ n \notin accepted
    /\ \A m \in accepted : m <= n + Window

Init ==
    /\ accepted = {}
    /\ verdict = [nonce |-> None, ok |-> FALSE, turn |-> 0]

Decide(n) ==
    /\ verdict' = [nonce |-> n, ok |-> Fresh(n), turn |-> 1 - verdict.turn]
    /\ accepted' = IF Fresh(n) THEN accepted \cup {n} ELSE accepted

Next == \E n \in Nonces : Decide(n)

Spec == Init /\ [][Next]_<<accepted, verdict>>
=============================================================================
