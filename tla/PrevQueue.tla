----------------------------- MODULE PrevQueue ------------------------------
(***************************************************************************)
(* The lock-free per-peer packet queue of driver/queueing.c (PREV_QUEUE):  *)
(* a singly linked list with a stub node, many producers, one consumer.    *)
(*                                                                         *)
(* Producers are send and receive paths on different processors; each      *)
(* interlocked or plain access to shared memory is one step.  The consumer *)
(* is whichever worker thread holds the peer (PacketPipeline shows that    *)
(* there is at most one).  Packets are recycled: a dropped one may be      *)
(* queued again at once.                                                   *)
(*                                                                         *)
(* Steps are sequentially consistent: what a weakly ordered processor may  *)
(* reorder around the release exchange is outside the model.               *)
(***************************************************************************)
EXTENDS Integers, Sequences, SequencesExt, FiniteSets

CONSTANTS
    Enqueuers,           \* processors that enqueue
    Nbls,                \* net buffer lists
    MaxQueued,           \* MAX_QUEUED_PACKETS
    Stub,                \* Queue->Empty
    NULL

ASSUME PrevQueueAssumption ==
    /\ IsFiniteSet(Enqueuers)
    /\ MaxQueued \in Nat \ {0}
    /\ Stub \notin Nbls /\ NULL \notin Nbls /\ Stub # NULL

Nodes == Nbls \cup {Stub}

VARIABLES
    head,    \* Queue->Head: where producers append
    tail,    \* Queue->Tail: where the consumer takes
    link,    \* NET_BUFFER_LIST_PER_PEER_LIST_LINK of every node
    count,   \* Queue->Count
    Peeked,  \* Queue->Peeked
    pstate,  \* per producer: where it is in PrevQueueEnqueue
    pnode,   \* per producer: the packet it is enqueuing
    pprev,   \* per producer: what its exchange of Head returned
    cstate,  \* where the consumer is in PrevQueueDequeue
    cprev,   \* what the consumer's exchange of Head returned
    queued,    \* history: packets by the order of their exchange
    disturbed  \* history: a packet was unlinked while the running peek ran

pqVars == <<head, tail, link, count, Peeked, pstate, pnode, pprev, cstate, cprev,
            queued, disturbed>>

producerVars == <<pstate, pnode, pprev>>

(* Packets nobody has queued, reserved a place for, or holds. *)
Owned ==
    {pnode[t] : t \in Enqueuers} \cup Range(queued) \cup {Peeked}

unlinked == {pnode[t] : t \in {u \in Enqueuers : pstate[u] = "link"}}

PrevQueueInit ==
    /\ head = Stub /\ tail = Stub
    /\ link = [n \in Nodes |-> NULL]
    /\ count = 0
    /\ Peeked = NULL
    /\ pstate = [t \in Enqueuers |-> "idle"]
    /\ pnode = [t \in Enqueuers |-> NULL]
    /\ pprev = [t \in Enqueuers |-> NULL]
    /\ cstate = "idle"
    /\ cprev = NULL
    /\ queued = <<>>
    /\ disturbed = FALSE

-----------------------------------------------------------------------------
(* PrevQueueEnqueue: InterlockedIncrementUnless reserves a place.  A full
   queue refuses the packet and changes nothing.                            *)
Reserve(t, k) ==
    /\ pstate[t] = "idle" /\ k \notin Owned
    /\ count # MaxQueued
    /\ count' = count + 1
    /\ pstate' = [pstate EXCEPT ![t] = "exchange"]
    /\ pnode' = [pnode EXCEPT ![t] = k]
    /\ UNCHANGED <<head, tail, link, Peeked, pprev, cstate, cprev, queued, disturbed>>

(* __PrevQueueEnqueue, first statement and exchange.  The node is still
   private when its link is cleared.                                        *)
Exchange(t) ==
    /\ pstate[t] = "exchange"
    /\ link' = [link EXCEPT ![pnode[t]] = NULL]
    /\ pprev' = [pprev EXCEPT ![t] = head]
    /\ head' = pnode[t]
    /\ pstate' = [pstate EXCEPT ![t] = "link"]
    /\ queued' = Append(queued, pnode[t])
    /\ disturbed' = (cstate # "idle")
    /\ UNCHANGED <<tail, count, Peeked, pnode, cstate, cprev>>

(* __PrevQueueEnqueue: the store that makes the packet reachable. *)
LinkPrevious(t) ==
    /\ pstate[t] = "link"
    /\ link' = [link EXCEPT ![pprev[t]] = pnode[t]]
    /\ pstate' = [pstate EXCEPT ![t] = "idle"]
    /\ pnode' = [pnode EXCEPT ![t] = NULL]
    /\ pprev' = [pprev EXCEPT ![t] = NULL]
    /\ UNCHANGED <<head, tail, count, Peeked, cstate, cprev, queued, disturbed>>

-----------------------------------------------------------------------------
(* PrevQueuePeek enters PrevQueueDequeue only when nothing is peeked. *)
StartPeek ==
    /\ cstate = "idle" /\ Peeked = NULL
    /\ cstate' = "first"
    /\ disturbed' = (unlinked # {})
    /\ UNCHANGED <<head, tail, link, count, Peeked, producerVars, cprev, queued>>

(* return Tail, after Queue->Tail = Next and the decrement of Count. *)
ReturnTail(node, next) ==
    /\ tail' = next
    /\ count' = count - 1
    /\ Peeked' = node
    /\ queued' = Tail(queued)
    /\ cstate' = "idle" /\ cprev' = NULL /\ disturbed' = FALSE
    /\ UNCHANGED <<head, link, producerVars>>

ReturnNull ==
    /\ cstate' = "idle" /\ cprev' = NULL /\ disturbed' = FALSE
    /\ UNCHANGED <<head, tail, link, count, Peeked, producerVars, queued>>

ConsumerGoto(label) ==
    /\ cstate' = label
    /\ UNCHANGED <<head, link, count, Peeked, producerVars, cprev, queued, disturbed>>

(* The first read of NEXT(Tail): skip the stub, take Tail if it has a
   successor, or go on to compare it with Head.                             *)
ReadFirst ==
    /\ cstate = "first"
    /\ LET next == link[tail] IN
        \/ tail = Stub /\ next = NULL /\ ReturnNull
        \/ tail = Stub /\ next # NULL /\ tail' = next /\ ConsumerGoto("second")
        \/ tail # Stub /\ next # NULL /\ ReturnTail(tail, next)
        \/ tail # Stub /\ next = NULL /\ ConsumerGoto("compare") /\ UNCHANGED tail

(* The read of NEXT after the stub was skipped. *)
ReadSecond ==
    /\ cstate = "second"
    /\ LET next == link[tail] IN
        \/ next # NULL /\ ReturnTail(tail, next)
        \/ next = NULL /\ ConsumerGoto("compare") /\ UNCHANGED tail

\* Mutant: the last packet is never released by pushing the stub behind it.
NeverPushStub ==
    /\ cstate = "compare"
    /\ ReturnNull

(* Tail != Head: a producer is between its exchange and its link. *)
CompareHead ==
    /\ cstate = "compare"
    /\ \/ tail # head /\ ReturnNull
       \/ tail = head /\ ConsumerGoto("clearStub") /\ UNCHANGED tail

(* __PrevQueueEnqueue(Queue, STUB(Queue)), in its three accesses. *)
ClearStub ==
    /\ cstate = "clearStub"
    /\ link' = [link EXCEPT ![Stub] = NULL]
    /\ cstate' = "exchangeStub"
    /\ UNCHANGED <<head, tail, count, Peeked, producerVars, cprev, queued, disturbed>>

ExchangeStub ==
    /\ cstate = "exchangeStub"
    /\ cprev' = head
    /\ head' = Stub
    /\ cstate' = "linkStub"
    /\ UNCHANGED <<tail, link, count, Peeked, producerVars, queued, disturbed>>

\* Mutant: the stub is linked behind Tail, not behind what the exchange returned.
LinkStubToTail ==
    /\ cstate = "linkStub"
    /\ link' = [link EXCEPT ![tail] = Stub]
    /\ cstate' = "last"
    /\ UNCHANGED <<head, tail, count, Peeked, producerVars, cprev, queued, disturbed>>

LinkStub ==
    /\ cstate = "linkStub"
    /\ link' = [link EXCEPT ![cprev] = Stub]
    /\ cstate' = "last"
    /\ UNCHANGED <<head, tail, count, Peeked, producerVars, cprev, queued, disturbed>>

ReadLast ==
    /\ cstate = "last"
    /\ LET next == link[tail] IN
        \/ next # NULL /\ ReturnTail(tail, next)
        \/ next = NULL /\ ReturnNull

(* PrevQueueDropPeeked; the packet is freed and may be used again. *)
DropPeeked ==
    /\ cstate = "idle" /\ Peeked # NULL
    /\ Peeked' = NULL
    /\ UNCHANGED <<head, tail, link, count, producerVars, cstate, cprev, queued, disturbed>>

Dequeue ==
    \/ ReadFirst \/ ReadSecond \/ CompareHead
    \/ ClearStub \/ ExchangeStub \/ LinkStub \/ ReadLast

Consumer == StartPeek \/ Dequeue \/ DropPeeked

PrevQueueNext ==
    \/ \E t \in Enqueuers :
        \/ \E k \in Nbls : Reserve(t, k)
        \/ Exchange(t)
        \/ LinkPrevious(t)
    \/ Consumer

(* A worker keeps polling as long as the peer has work, and a processor that
   has begun an enqueue (at raised IRQL) completes it.                      *)
PrevQueueFairness ==
    /\ WF_pqVars(Consumer)
    /\ \A t \in Enqueuers : WF_pqVars(Exchange(t) \/ LinkPrevious(t))

PrevQueueSpec == PrevQueueInit /\ [][PrevQueueNext]_pqVars

PrevQueueFairSpec == PrevQueueSpec /\ PrevQueueFairness

-----------------------------------------------------------------------------
ConsumerStates ==
    {"idle", "first", "second", "compare", "clearStub", "exchangeStub", "linkStub", "last"}

QueueTypeOK ==
    /\ head \in Nodes /\ tail \in Nodes
    /\ link \in [Nodes -> Nodes \cup {NULL}]
    /\ count \in 0 .. MaxQueued
    /\ Peeked \in Nbls \cup {NULL}
    /\ pstate \in [Enqueuers -> {"idle", "exchange", "link"}]
    /\ pnode \in [Enqueuers -> Nbls \cup {NULL}]
    /\ pprev \in [Enqueuers -> Nodes \cup {NULL}]
    /\ cstate \in ConsumerStates
    /\ cprev \in Nodes \cup {NULL}
    /\ queued \in Seq(Nbls)
    /\ disturbed \in BOOLEAN

(* PrevQueueEnqueue and PrevQueueDequeue together are a first-in first-out
   queue: no packet is lost, duplicated or overtaken, and "empty" is only
   answered for a non-empty queue while a producer was in mid-enqueue.       *)
Fifo == INSTANCE PacketFifo WITH
    Packets <- Nbls, Capacity <- MaxQueued, peeking <- cstate # "idle"

ImplementsFifo == Fifo!Spec

(* Every packet that took its place in the queue reaches the consumer. *)
EveryPacketPeeked ==
    \A k \in Nbls : k \in Range(queued) ~> Peeked = k
=============================================================================
