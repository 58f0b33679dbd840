----------------------------- MODULE PacketFifo -----------------------------
(***************************************************************************)
(* What a PREV_QUEUE promises its users: a bounded first-in first-out      *)
(* queue with many producers and one consumer.  A producer takes its place *)
(* in one step and links its packet in a later one.  A peek may answer     *)
(* "empty" although the queue is not, but only if some producer was        *)
(* between these two steps while the peek ran; and the packet it returns   *)
(* is always the oldest one.                                               *)
(***************************************************************************)
EXTENDS Sequences, Naturals

CONSTANTS
    Packets,    \* net buffer lists
    Capacity,   \* MAX_QUEUED_PACKETS
    NULL        \* no packet

VARIABLES
    queued,     \* packets in the order in which they took their place
    unlinked,   \* packets whose producer has not linked them yet
    peeking,    \* a peek is running
    disturbed,  \* some packet was unlinked while the running peek ran
    Peeked      \* the packet the consumer holds

vars == <<queued, unlinked, peeking, disturbed, Peeked>>

Init ==
    /\ queued = <<>>
    /\ unlinked = {}
    /\ peeking = FALSE
    /\ disturbed = FALSE
    /\ Peeked = NULL

Enqueue(k) ==
    /\ Len(queued) < Capacity
    /\ Peeked # k /\ \A i \in DOMAIN queued : queued[i] # k
    /\ queued' = Append(queued, k)
    /\ unlinked' = unlinked \cup {k}
    /\ disturbed' = peeking
    /\ UNCHANGED <<peeking, Peeked>>

Link(k) ==
    /\ k \in unlinked
    /\ unlinked' = unlinked \ {k}
    /\ UNCHANGED <<queued, peeking, disturbed, Peeked>>

StartPeek ==
    /\ ~peeking /\ Peeked = NULL
    /\ peeking' = TRUE
    /\ disturbed' = (unlinked # {})
    /\ UNCHANGED <<queued, unlinked, Peeked>>

PeekOldest ==
    /\ peeking /\ queued # <<>>
    /\ Head(queued) \notin unlinked
    /\ Peeked' = Head(queued)
    /\ queued' = Tail(queued)
    /\ peeking' = FALSE /\ disturbed' = FALSE
    /\ UNCHANGED unlinked

PeekNothing ==
    /\ peeking /\ (queued = <<>> \/ disturbed)
    /\ peeking' = FALSE /\ disturbed' = FALSE
    /\ UNCHANGED <<queued, unlinked, Peeked>>

Drop ==
    /\ Peeked # NULL
    /\ Peeked' = NULL
    /\ UNCHANGED <<queued, unlinked, peeking, disturbed>>

Next ==
    \/ \E k \in Packets : Enqueue(k) \/ Link(k)
    \/ StartPeek \/ PeekOldest \/ PeekNothing \/ Drop

Spec == Init /\ [][Next]_vars
=============================================================================
