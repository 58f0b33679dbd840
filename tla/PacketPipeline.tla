--------------------------- MODULE PacketPipeline ---------------------------
(***************************************************************************)
(* The parallel data path of driver/receive.c, driver/send.c and           *)
(* driver/queueing.[ch]: packets are put on their peer's FIFO and, in      *)
(* parallel, on the device ring; worker threads take them off the ring in  *)
(* any order, decrypt or encrypt them, and hand the peer to whichever      *)
(* worker dequeues it from the serial list.  That worker delivers the      *)
(* peer's packets in FIFO order while it holds the peer.  PeerRemove runs  *)
(* against all of it.                                                      *)
(*                                                                         *)
(* The two directions share this control.  `dir' is fixed by Init: "rx" is *)
(* PacketConsumeData and PacketDecryptWorker, where one ring entry is a    *)
(* list of packets of several peers and packets are indicated upwards      *)
(* after the loop; "tx" is PacketCreateData and PacketEncryptWorker, where *)
(* a ring entry is one chain of one peer, sent inside the loop.            *)
(*                                                                         *)
(* A PREV_QUEUE is used by the contract PacketFifo, which module PrevQueue *)
(* is shown to implement.  Keys are left out: whether a lookup finds a     *)
(* keypair, a packet decrypts and its counter is fresh is a free choice.   *)
(***************************************************************************)
EXTENDS Integers, Sequences, FiniteSets

CONSTANTS
    Peers,
    Removable,     \* peers the configuration may remove
    Packets,
    PeerOf,        \* NET_BUFFER_LIST_PEER of every packet
    RxCalls,       \* lists of packets the socket may pass to PacketConsumeData
    TxCalls,       \* one-element lists: the chains passed to PacketCreateData
    Producers,     \* processors on which these calls run
    Workers,       \* threads of the MULTICORE_WORKQUEUE
    MAX_QUEUED_PACKETS,
    RingSize,      \* Ring->Size
    RingBatch,     \* Ring->Batch: consumed slots are cleared in batches
    PEER_XMIT_PACKETS_PER_ROUND,
    Nil

ASSUME PipelineAssumption ==
    /\ PeerOf \in [Packets -> Peers]
    /\ Removable \subseteq Peers
    /\ RxCalls \subseteq Seq(Packets) \ {<<>>}
    /\ TxCalls \subseteq Seq(Packets) \ {<<>>}
    /\ Producers \cap Workers = {}
    /\ MAX_QUEUED_PACKETS \in Nat \ {0}
    /\ RingSize \in Nat \ {0} /\ RingBatch \in 1 .. RingSize
    /\ PEER_XMIT_PACKETS_PER_ROUND \in Nat \ {0}
    /\ Nil \notin Packets /\ Nil \notin Peers

(* NDIS and the socket own a packet until they pass it on, and pass it on once;
   there is memory for so many of them.                                     *)
ASSUME PacketsAssumption ==
    /\ IsFiniteSet(Packets) /\ IsFiniteSet(Producers) /\ IsFiniteSet(Workers)
    /\ \A calls1 \in {RxCalls, TxCalls} : \A c, d \in calls1 :
         \A i \in DOMAIN c, j \in DOMAIN d : c[i] = d[j] => c = d /\ i = j

Threads == Producers \cup Workers

VARIABLES
    dir,       \* the direction this behaviour is about
    calls,     \* calls still to come
    pc,        \* per thread: where it is
    list,      \* per thread: packets of its call or ring entry still to treat
    device,    \* per producer: FirstForDevice
    state,     \* NET_BUFFER_LIST_CRYPT_STATE
    fifo,      \* per peer: RxQueue or TxQueue, without the peeked packet
    peeked,    \* per peer: Queue->Peeked
    linking,   \* packets between exchange and link in __PrevQueueEnqueue
    ring,      \* DecryptQueue or EncryptQueue
    newWork,   \* the synchronization event NewWork
    serial,    \* the PEER_SERIAL list
    busy,      \* peers whose serial entry has a non-null Next
    requeue,   \* peers whose serial entry has Requeue set
    held,      \* per worker: the peer it dequeued from the serial list
    packet,    \* per worker: the packet it peeked (Nbl, First)
    budget,    \* per worker: Budget
    more,      \* per worker: MoreProcessing
    last,      \* per worker: in the ProcessPerPeerWork after the ring ran dry?
    pending,   \* per worker: the list First .. of packets to indicate
    ref,       \* per peer: Refcount
    inUse,     \* per peer: holders of InUse rundown protection
    removal,   \* per peer: how far PeerRemove and RcuRelease have come
    inserted,  \* history: per peer, packets by the order they were queued
    delivered  \* history: per peer, packets by the order they were delivered

threadVars == <<pc, list, device>>
queueVars == <<fifo, peeked, linking, inserted>>
serialVars == <<serial, busy, requeue>>
workVars == <<held, packet, budget, more, last, pending>>
peerVars == <<ref, inUse, removal>>
vars == <<dir, calls, threadVars, state, queueVars, ring, newWork, serialVars,
          workVars, peerVars, delivered>>

Init ==
    /\ dir \in {"rx", "tx"}
    /\ calls = (IF dir = "rx" THEN RxCalls ELSE TxCalls)
    /\ pc = [t \in Threads |-> IF t \in Workers THEN "wait" ELSE "idle"]
    /\ list = [t \in Threads |-> <<>>]
    /\ device = [t \in Producers |-> <<>>]
    /\ state = [k \in Packets |-> "UNCRYPTED"]
    /\ fifo = [p \in Peers |-> <<>>]
    /\ peeked = [p \in Peers |-> Nil]
    /\ linking = {}
    /\ ring = <<>>
    /\ newWork = FALSE
    /\ serial = <<>> /\ busy = {} /\ requeue = {}
    /\ held = [w \in Workers |-> Nil]
    /\ packet = [w \in Workers |-> Nil]
    /\ budget = [w \in Workers |-> 0]
    /\ more = [w \in Workers |-> FALSE]
    /\ last = [w \in Workers |-> FALSE]
    /\ pending = [w \in Workers |-> <<>>]
    /\ ref = [p \in Peers |-> 1]
    /\ inUse = [p \in Peers |-> 0]
    /\ removal = [p \in Peers |-> "no"]
    /\ inserted = [p \in Peers |-> <<>>]
    /\ delivered = [p \in Peers |-> <<>>]

At(t, label) == pc[t] = label
Goto(t, label) == pc' = [pc EXCEPT ![t] = label]

-----------------------------------------------------------------------------
(* PacketReceive or PacketSendStagedPackets passes a list on. *)
StartCall(t) ==
    /\ At(t, "idle")
    /\ \E c \in calls :
        /\ calls' = calls \ {c}
        /\ list' = [list EXCEPT ![t] = c]
    /\ Goto(t, "lookup")
    /\ UNCHANGED <<dir, device, state, queueVars, ring, newWork, serialVars,
                   workVars, peerVars, delivered>>

(* Where a call goes after the first packet of its list is done with. *)
AfterPacket(t, forDevice) ==
    IF Len(list[t]) > 1 THEN "lookup"
    ELSE IF forDevice # <<>> THEN "produce"
    ELSE "idle"

(* The packet finds its keypair and with it a counted reference to its peer
   (PeerGetMaybeZero in IndexHashtableLookup, PeerGet in
   PacketSendStagedPackets), or it is dropped.                              *)
Lookup(t) ==
    /\ At(t, "lookup")
    /\ LET p == PeerOf[Head(list[t])] IN
        \/ /\ ref[p] > 0
           /\ ref' = [ref EXCEPT ![p] = @ + 1]
           /\ Goto(t, "insert")
           /\ UNCHANGED list
        \/ /\ list' = [list EXCEPT ![t] = Tail(@)]
           /\ Goto(t, AfterPacket(t, device[t]))
           /\ UNCHANGED ref
    /\ UNCHANGED <<dir, calls, device, state, queueVars, ring, newWork, serialVars,
                   workVars, inUse, removal, delivered>>

\* Mutant: a packet a full queue refuses keeps its rundown protection.
InsertLeaksInUse(t) ==
    /\ At(t, "insert")
    /\ LET k == Head(list[t])
           p == PeerOf[k] IN
        \/ /\ removal[p] # "no" \/ Len(fifo[p]) >= MAX_QUEUED_PACKETS
           /\ inUse' = [inUse EXCEPT ![p] = IF removal[p] = "no" THEN @ + 1 ELSE @]
           /\ Goto(t, "cleanup")
           /\ UNCHANGED <<state, queueVars>>
        \/ /\ removal[p] = "no" /\ Len(fifo[p]) < MAX_QUEUED_PACKETS
           /\ inUse' = [inUse EXCEPT ![p] = @ + 1]
           /\ state' = [state EXCEPT ![k] = "UNCRYPTED"]
           /\ fifo' = [fifo EXCEPT ![p] = Append(@, k)]
           /\ inserted' = [inserted EXCEPT ![p] = Append(@, k)]
           /\ linking' = linking \cup {k}
           /\ Goto(t, "link")
           /\ UNCHANGED peeked
    /\ UNCHANGED <<dir, calls, list, device, ring, newWork, serialVars, workVars,
                   ref, removal, delivered>>

(* ExAcquireRundownProtection, then QueueInsertPerPeer up to the exchange
   that gives the packet its place.                                         *)
Insert(t) ==
    /\ At(t, "insert")
    /\ LET k == Head(list[t])
           p == PeerOf[k] IN
        \/ /\ removal[p] # "no" \/ Len(fifo[p]) >= MAX_QUEUED_PACKETS
           /\ Goto(t, "cleanup")
           /\ UNCHANGED <<state, queueVars, inUse>>
        \/ /\ removal[p] = "no" /\ Len(fifo[p]) < MAX_QUEUED_PACKETS
           /\ inUse' = [inUse EXCEPT ![p] = @ + 1]
           /\ state' = [state EXCEPT ![k] = "UNCRYPTED"]
           /\ fifo' = [fifo EXCEPT ![p] = Append(@, k)]
           /\ inserted' = [inserted EXCEPT ![p] = Append(@, k)]
           /\ linking' = linking \cup {k}
           /\ Goto(t, "link")
           /\ UNCHANGED peeked
    /\ UNCHANGED <<dir, calls, list, device, ring, newWork, serialVars, workVars,
                   ref, removal, delivered>>

(* The end of __PrevQueueEnqueue; the packet joins the list for the device. *)
Link(t) ==
    /\ At(t, "link")
    /\ linking' = linking \ {Head(list[t])}
    /\ device' = [device EXCEPT ![t] = Append(@, Head(list[t]))]
    /\ list' = [list EXCEPT ![t] = Tail(@)]
    /\ Goto(t, AfterPacket(t, device'[t]))
    /\ UNCHANGED <<dir, calls, state, fifo, peeked, inserted, ring, newWork,
                   serialVars, workVars, peerVars, delivered>>

(* Labels cleanupInUse, cleanupKeypair and cleanup: PeerPut. *)
Cleanup(t) ==
    /\ At(t, "cleanup")
    /\ ref' = [ref EXCEPT ![PeerOf[Head(list[t])]] = @ - 1]
    /\ list' = [list EXCEPT ![t] = Tail(@)]
    /\ Goto(t, AfterPacket(t, device[t]))
    /\ UNCHANGED <<dir, calls, device, state, queueVars, ring, newWork, serialVars,
                   workVars, inUse, removal, delivered>>

(* PtrRingProduce.  Up to RingBatch - 1 slots may be consumed and not yet
   cleared, so the ring may refuse early.  A refusal sends every packet of
   the list down the dead path.                                             *)
Produce(t) ==
    /\ At(t, "produce")
    /\ \/ /\ Len(ring) < RingSize
          /\ ring' = Append(ring, device[t])
          /\ Goto(t, "bump")
          /\ UNCHANGED list
       \/ /\ Len(ring) + RingBatch > RingSize
          /\ list' = [list EXCEPT ![t] = device[t]]
          /\ Goto(t, "publish")
          /\ UNCHANGED ring
    /\ device' = [device EXCEPT ![t] = <<>>]
    /\ UNCHANGED <<dir, calls, state, queueVars, newWork, serialVars, workVars,
                   peerVars, delivered>>

(* MulticoreWorkQueueBump: KeSetEvent on an auto-reset event. *)
Bump(t) ==
    /\ At(t, "bump")
    /\ newWork' = TRUE
    /\ Goto(t, "idle")
    /\ UNCHANGED <<dir, calls, list, device, state, queueVars, ring, serialVars,
                   workVars, peerVars, delivered>>

-----------------------------------------------------------------------------
(* QueueEnqueuePerPeer, used by workers with the outcome of the cryptography
   and by producers, when the ring is full, with DEAD.  First PeerGet and
   the release of the packet's state ...                                    *)
Outcomes(t) == IF t \in Workers THEN {"CRYPTED", "DEAD"} ELSE {"DEAD"}

\* Mutant: no PeerGet around the release of the state.
PublishUnreferenced(t) ==
    /\ At(t, "publish")
    /\ LET k == Head(list[t]) IN
        /\ \E s \in Outcomes(t) : state' = [state EXCEPT ![k] = s]
    /\ Goto(t, "enqueue")
    /\ UNCHANGED <<dir, calls, list, device, queueVars, ring, newWork, serialVars,
                   workVars, ref, inUse, removal, delivered>>

Publish(t) ==
    /\ At(t, "publish")
    /\ LET k == Head(list[t]) IN
        /\ ref' = [ref EXCEPT ![PeerOf[k]] = @ + 1]
        /\ \E s \in Outcomes(t) : state' = [state EXCEPT ![k] = s]
    /\ Goto(t, "enqueue")
    /\ UNCHANGED <<dir, calls, list, device, queueVars, ring, newWork, serialVars,
                   workVars, inUse, removal, delivered>>

\* Mutant: the entry is added to the list although it is busy.
EnqueueEvenIfBusy(t) ==
    /\ At(t, "enqueue")
    /\ LET p == PeerOf[Head(list[t])] IN
        /\ busy' = busy \cup {p}
        /\ serial' = Append(serial, p)
    /\ UNCHANGED requeue
    /\ Goto(t, "put")
    /\ UNCHANGED <<dir, calls, list, device, state, queueVars, ring, newWork,
                   workVars, peerVars, delivered>>

\* Mutant: MaybeRequeue is FALSE.
EnqueueWithoutRequeue(t) ==
    /\ At(t, "enqueue")
    /\ LET p == PeerOf[Head(list[t])] IN
        \/ /\ p \in busy
           /\ UNCHANGED serialVars
        \/ /\ p \notin busy
           /\ busy' = busy \cup {p}
           /\ serial' = Append(serial, p)
           /\ UNCHANGED requeue
    /\ Goto(t, "put")
    /\ UNCHANGED <<dir, calls, list, device, state, queueVars, ring, newWork,
                   workVars, peerVars, delivered>>

(* ... then PeerSerialEnqueueIfNotBusy with MaybeRequeue ... *)
PeerSerialEnqueueIfNotBusy(t) ==
    /\ At(t, "enqueue")
    /\ LET p == PeerOf[Head(list[t])] IN
        \/ /\ p \in busy
           /\ requeue' = requeue \cup {p}
           /\ UNCHANGED <<serial, busy>>
        \/ /\ p \notin busy
           /\ busy' = busy \cup {p}
           /\ serial' = Append(serial, p)
           /\ UNCHANGED requeue
    /\ Goto(t, "put")
    /\ UNCHANGED <<dir, calls, list, device, state, queueVars, ring, newWork,
                   workVars, peerVars, delivered>>

(* ... and PeerPut.  After the last packet a producer bumps the workers, a
   worker goes on to ProcessPerPeerWork.                                    *)
Put(t) ==
    /\ At(t, "put")
    /\ ref' = [ref EXCEPT ![PeerOf[Head(list[t])]] = @ - 1]
    /\ list' = [list EXCEPT ![t] = Tail(@)]
    /\ Goto(t, IF Len(list[t]) > 1 THEN "publish"
               ELSE IF t \in Workers THEN "dequeue"
               ELSE "bump")
    /\ UNCHANGED <<dir, calls, device, state, queueVars, ring, newWork, serialVars,
                   workVars, inUse, removal, delivered>>

-----------------------------------------------------------------------------
(* WorkerThread: the wait takes the event. *)
Wake(w) ==
    /\ At(w, "wait") /\ newWork
    /\ newWork' = FALSE
    /\ Goto(w, "consume")
    /\ UNCHANGED <<dir, calls, list, device, state, queueVars, ring, serialVars,
                   workVars, peerVars, delivered>>

(* PtrRingConsume in the workers' loop. *)
Consume(w) ==
    /\ At(w, "consume")
    /\ \/ /\ ring # <<>>
          /\ list' = [list EXCEPT ![w] = Head(ring)]
          /\ ring' = Tail(ring)
          /\ Goto(w, "publish")
          /\ UNCHANGED last
       \/ /\ ring = <<>>
          /\ last' = [last EXCEPT ![w] = TRUE]
          /\ Goto(w, "dequeue")
          /\ UNCHANGED <<list, ring>>
    /\ UNCHANGED <<dir, calls, device, state, queueVars, newWork, serialVars, held,
                   packet, budget, more, pending, peerVars, delivered>>

(* ProcessPerPeerWork: PeerSerialDequeue. *)
PeerSerialDequeue(w) ==
    /\ At(w, "dequeue")
    /\ \/ /\ serial # <<>>
          /\ held' = [held EXCEPT ![w] = Head(serial)]
          /\ serial' = Tail(serial)
          /\ budget' = [budget EXCEPT ![w] = PEER_XMIT_PACKETS_PER_ROUND]
          /\ Goto(w, "peek")
          /\ UNCHANGED last
       \/ /\ serial = <<>>
          /\ last' = [last EXCEPT ![w] = FALSE]
          /\ Goto(w, IF last[w] THEN "wait" ELSE "consume")
          /\ UNCHANGED <<held, serial, budget>>
    /\ UNCHANGED <<dir, calls, list, device, state, queueVars, ring, newWork, busy,
                   requeue, packet, more, pending, peerVars, delivered>>

LinkingOf(p) == {k \in linking : PeerOf[k] = p}

(* Where PacketPeerRxWork and PacketPeerTxWork go when their loop ends. *)
AfterLoop(w) == IF pending[w] = <<>> THEN "retire" ELSE "indicate"

(* PrevQueuePeek, by the contract of PacketFifo: it may answer NULL when the
   queue is empty or a producer is in mid-enqueue.                          *)
PrevQueuePeek(w) ==
    /\ At(w, "peek")
    /\ LET p == held[w] IN
        \/ /\ peeked[p] # Nil
           /\ packet' = [packet EXCEPT ![w] = peeked[p]]
           /\ Goto(w, "state")
           /\ UNCHANGED <<peeked, fifo>>
        \/ /\ peeked[p] = Nil /\ fifo[p] # <<>> /\ Head(fifo[p]) \notin linking
           /\ packet' = [packet EXCEPT ![w] = Head(fifo[p])]
           /\ peeked' = [peeked EXCEPT ![p] = Head(fifo[p])]
           /\ fifo' = [fifo EXCEPT ![p] = Tail(@)]
           /\ Goto(w, "state")
        \/ /\ peeked[p] = Nil
           /\ fifo[p] = <<>> \/ LinkingOf(p) # {}
           /\ Goto(w, AfterLoop(w))
           /\ UNCHANGED <<peeked, fifo, packet>>
    /\ UNCHANGED <<dir, calls, list, device, state, linking, inserted, ring, newWork,
                   serialVars, held, budget, more, last, pending, peerVars, delivered>>

(* The read of the packet's state, the budget, and PrevQueueDropPeeked. *)
ReadState(w) ==
    /\ At(w, "state")
    /\ \/ /\ state[packet[w]] = "UNCRYPTED"
          /\ packet' = [packet EXCEPT ![w] = Nil]
          /\ Goto(w, AfterLoop(w))
          /\ UNCHANGED <<more, budget, peeked>>
       \/ /\ state[packet[w]] # "UNCRYPTED" /\ budget[w] = 0
          /\ more' = [more EXCEPT ![w] = TRUE]
          /\ packet' = [packet EXCEPT ![w] = Nil]
          /\ Goto(w, AfterLoop(w))
          /\ UNCHANGED <<budget, peeked>>
       \/ /\ state[packet[w]] # "UNCRYPTED" /\ budget[w] > 0
          /\ budget' = [budget EXCEPT ![w] = @ - 1]
          /\ peeked' = [peeked EXCEPT ![held[w]] = Nil]
          /\ Goto(w, "handle")
          /\ UNCHANGED <<more, packet>>
    /\ UNCHANGED <<dir, calls, list, device, state, fifo, linking, inserted, ring,
                   newWork, serialVars, held, last, pending, peerVars, delivered>>

(* CounterValidate and PacketConsumeDataDone, or PacketCreateDataDone, or the
   freeing of a dead packet; then ExReleaseRundownProtection.  A received
   packet may still be refused; an encrypted one is sent.                   *)
Handle(w) ==
    /\ At(w, "handle")
    /\ LET k == packet[w] IN
        /\ \/ /\ dir = "rx" /\ state[k] = "CRYPTED"
              /\ pending' = [pending EXCEPT ![w] = Append(@, k)]
              /\ UNCHANGED delivered
           \/ /\ dir = "tx" /\ state[k] = "CRYPTED"
              /\ delivered' = [delivered EXCEPT ![held[w]] = Append(@, k)]
              /\ UNCHANGED pending
           \/ /\ dir = "rx" \/ state[k] = "DEAD"
              /\ UNCHANGED <<pending, delivered>>
        /\ inUse' = [inUse EXCEPT ![PeerOf[k]] = @ - 1]
    /\ Goto(w, "putPacket")
    /\ UNCHANGED <<dir, calls, list, device, state, queueVars, ring, newWork,
                   serialVars, held, packet, budget, more, last, ref, removal>>

(* PeerPut for the packet, the last statement of the loop. *)
PutPacket(w) ==
    /\ At(w, "putPacket")
    /\ ref' = [ref EXCEPT ![PeerOf[packet[w]]] = @ - 1]
    /\ packet' = [packet EXCEPT ![w] = Nil]
    /\ Goto(w, "peek")
    /\ UNCHANGED <<dir, calls, list, device, state, queueVars, ring, newWork,
                   serialVars, held, budget, more, last, pending, inUse, removal,
                   delivered>>

(* NdisMIndicateReceiveNetBufferLists. *)
Indicate(w) ==
    /\ At(w, "indicate")
    /\ delivered' = [delivered EXCEPT ![held[w]] = @ \o pending[w]]
    /\ pending' = [pending EXCEPT ![w] = <<>>]
    /\ Goto(w, "retire")
    /\ UNCHANGED <<dir, calls, list, device, state, queueVars, ring, newWork,
                   serialVars, held, packet, budget, more, last, peerVars>>

PeerSerialMaybeRetire(w) ==
    /\ At(w, "retire")
    /\ LET p == held[w] IN
        /\ \/ /\ p \in requeue \/ more[w]
              /\ serial' = Append(serial, p)
              /\ UNCHANGED busy
           \/ /\ p \notin requeue /\ ~more[w]
              /\ busy' = busy \ {p}
              /\ UNCHANGED serial
        /\ requeue' = requeue \ {p}
    /\ held' = [held EXCEPT ![w] = Nil]
    /\ more' = [more EXCEPT ![w] = FALSE]
    /\ Goto(w, "dequeue")
    /\ UNCHANGED <<dir, calls, list, device, state, queueVars, ring, newWork, packet,
                   budget, last, pending, peerVars, delivered>>

-----------------------------------------------------------------------------
(* PeerRemove up to the wait: ExWaitForRundownProtectionRelease refuses new
   holders from now on.                                                     *)
PeerRemove(p) ==
    /\ removal[p] = "no"
    /\ removal' = [removal EXCEPT ![p] = "waiting"]
    /\ UNCHANGED <<dir, calls, threadVars, state, queueVars, ring, newWork,
                   serialVars, workVars, ref, inUse, delivered>>

(* The wait ends, PeerRemove gives up the reference of PeerCreate. *)
PeerRemoveDone(p) ==
    /\ removal[p] = "waiting" /\ inUse[p] = 0
    /\ removal' = [removal EXCEPT ![p] = "removed"]
    /\ ref' = [ref EXCEPT ![p] = @ - 1]
    /\ UNCHANGED <<dir, calls, threadVars, state, queueVars, ring, newWork,
                   serialVars, workVars, inUse, delivered>>

(* RcuRelease, a grace period after KrefRelease: the peer is zeroed, its
   serial entry included, and freed.  A worker at PASSIVE_LEVEL is no RCU
   reader, so nothing keeps the memory until it is done with the peer.  Here
   it goes on as if the memory were still the peer's.                       *)
RcuRelease(p) ==
    /\ removal[p] = "removed" /\ ref[p] = 0
    /\ removal' = [removal EXCEPT ![p] = "freed"]
    /\ busy' = busy \ {p}
    /\ requeue' = requeue \ {p}
    /\ UNCHANGED <<dir, calls, threadVars, state, queueVars, ring, newWork, serial,
                   workVars, ref, inUse, delivered>>

-----------------------------------------------------------------------------
EnqueuePerPeer(t) == Publish(t) \/ PeerSerialEnqueueIfNotBusy(t) \/ Put(t)

ProducerStep(t) ==
    \/ Lookup(t) \/ Insert(t) \/ Link(t) \/ Cleanup(t) \/ Produce(t) \/ Bump(t)
    \/ EnqueuePerPeer(t)

WorkerStep(w) ==
    \/ Wake(w) \/ Consume(w) \/ EnqueuePerPeer(w) \/ PeerSerialDequeue(w)
    \/ PrevQueuePeek(w) \/ ReadState(w) \/ Handle(w) \/ PutPacket(w) \/ Indicate(w)
    \/ PeerSerialMaybeRetire(w)

Next ==
    \/ \E t \in Producers : StartCall(t) \/ ProducerStep(t)
    \/ \E w \in Workers : WorkerStep(w)
    \/ \E p \in Removable : PeerRemove(p) \/ PeerRemoveDone(p) \/ RcuRelease(p)

(* The scheduler runs every ready thread; a call that has started runs on (at
   DISPATCH_LEVEL, or in a thread of its own); grace periods end.  Packets and
   removals need not come.                                                  *)
Fairness ==
    /\ \A t \in Producers : WF_vars(ProducerStep(t))
    /\ \A w \in Workers : WF_vars(WorkerStep(w))
    /\ \A p \in Removable : WF_vars(PeerRemoveDone(p)) /\ WF_vars(RcuRelease(p))

Spec == Init /\ [][Next]_vars

FairSpec == Spec /\ Fairness

-----------------------------------------------------------------------------
ProducerStates ==
    {"idle", "lookup", "insert", "link", "cleanup", "produce", "bump", "publish",
     "enqueue", "put"}

WorkerStates ==
    {"wait", "consume", "publish", "enqueue", "put", "dequeue", "peek", "state",
     "handle", "putPacket", "indicate", "retire"}

ThreadsOK ==
    /\ pc \in [Threads -> ProducerStates \cup WorkerStates]
    /\ list \in [Threads -> Seq(Packets)]
    /\ device \in [Producers -> Seq(Packets)]
    /\ calls \subseteq Seq(Packets) \ {<<>>}

QueuesOK ==
    /\ state \in [Packets -> {"UNCRYPTED", "CRYPTED", "DEAD"}]
    /\ fifo \in [Peers -> Seq(Packets)]
    /\ \A p \in Peers : Len(fifo[p]) <= MAX_QUEUED_PACKETS
    /\ peeked \in [Peers -> Packets \cup {Nil}]
    /\ linking \subseteq Packets
    /\ inserted \in [Peers -> Seq(Packets)]

RingOK ==
    /\ ring \in Seq(Seq(Packets) \ {<<>>})
    /\ Len(ring) <= RingSize

SerialOK ==
    /\ serial \in Seq(Peers)
    /\ busy \subseteq Peers
    /\ requeue \subseteq Peers
    /\ held \in [Workers -> Peers \cup {Nil}]

WorkOK ==
    /\ packet \in [Workers -> Packets \cup {Nil}]
    /\ budget \in [Workers -> 0 .. PEER_XMIT_PACKETS_PER_ROUND]
    /\ more \in [Workers -> BOOLEAN]
    /\ last \in [Workers -> BOOLEAN]
    /\ pending \in [Workers -> Seq(Packets)]
    /\ delivered \in [Peers -> Seq(Packets)]

PeersOK ==
    /\ dir \in {"rx", "tx"}
    /\ newWork \in BOOLEAN
    /\ ref \in [Peers -> Int]
    /\ inUse \in [Peers -> Int]
    /\ removal \in [Peers -> {"no", "waiting", "removed", "freed"}]

(* Types, and the two bounds on memory: a peer's queue and the device ring. *)
TypeOK == ThreadsOK /\ QueuesOK /\ RingOK /\ SerialOK /\ WorkOK /\ PeersOK

OnSerial(p) == \E i \in DOMAIN serial : serial[i] = p
InHand(p) == \E w \in Workers : held[w] = p

Freed(p) == removal[p] = "freed"

(* "Single consumer" (queueing.h:224, :230, :242): however many workers run,
   at most one of them works on a peer's queue, and while it does nobody can
   dequeue the peer a second time, unless the peer was freed in the worker's
   hands or on the list (see NoUseAfterRelease).                            *)
SingleConsumer ==
    /\ \A v, w \in Workers : held[v] = held[w] /\ held[v] # Nil /\ ~Freed(held[v]) => v = w
    /\ \A w \in Workers : held[w] # Nil /\ ~Freed(held[w]) => ~OnSerial(held[w])

(* A peer's packets leave in the order in which they entered its queue, although
   workers decrypt and encrypt them in any order.                           *)
InOrder ==
    \A p \in Peers : \A i, j \in DOMAIN delivered[p] : i < j =>
        \E m, n \in DOMAIN inserted[p] :
            m < n /\ inserted[p][m] = delivered[p][i] /\ inserted[p][n] = delivered[p][j]

SetOf(s) == {s[i] : i \in DOMAIN s}

(* Packets of p that hold InUse, and packets that hold a reference. *)
Protected(p) ==
    SetOf(fifo[p]) \cup ({peeked[p]} \ {Nil})
        \cup {packet[w] : w \in {v \in Workers : held[v] = p /\ At(v, "handle")}}

Counted(p) ==
    Protected(p)
        \cup {packet[w] : w \in {v \in Workers : held[v] = p /\ At(v, "putPacket")}}
        \cup {Head(list[t]) : t \in {u \in Producers :
                pc[u] \in {"insert", "cleanup"} /\ PeerOf[Head(list[u])] = p}}

Publishing(p) ==
    {t \in Threads : pc[t] \in {"enqueue", "put"} /\ PeerOf[Head(list[t])] = p}

(* Every reference and every rundown protection is accounted for by a packet, a
   QueueEnqueuePerPeer in progress or PeerCreate, at every step.  So the last
   PeerPut comes when the queues are empty, as the assertion in RcuRelease
   (peer.c:116) has it, and PeerGet never revives a released peer.          *)
ReferencesExact ==
    \A p \in Peers :
        /\ inUse[p] = Cardinality(Protected(p))
        /\ ref[p] = Cardinality(Counted(p)) + Cardinality(Publishing(p))
                    + (IF removal[p] \in {"no", "waiting"} THEN 1 ELSE 0)

Queued(k) == k \in SetOf(fifo[PeerOf[k]]) \/ peeked[PeerOf[k]] = k

(* No wakeup is lost: a packet that was queued is taken off its peer's queue,
   whichever worker saw it uncrypted, ran out of budget or retired the peer. *)
EveryPacketLeaves == \A k \in Packets : Queued(k) ~> ~Queued(k)

(* PeerRemove returns and the peer is freed, whatever is in flight: "all active
   places where a peer is currently operating will eventually come to an end"
   (peer.c:66).                                                             *)
RemovalCompletes == \A p \in Removable : removal[p] = "waiting" ~> Freed(p)

(* "We take a reference, because as soon as we call WriteRelease, the peer can
   be freed from below us" (queueing.h:301): a freed peer is on no serial list
   and in no worker's hands.                                                *)
NoUseAfterRelease ==
    \A p \in Peers : Freed(p) => ~OnSerial(p) /\ ~InHand(p)
=============================================================================
