------------------------ MODULE PacketPipelineProofs ------------------------
(***************************************************************************)
(* PacketPipeline proved for every number of peers, packets, producers and *)
(* workers: the type invariant, that a peer's queue has one consumer, that *)
(* its packets are delivered in the order in which they were queued, and   *)
(* that its references are as many as its packets and its threads.         *)
(*                                                                         *)
(* SingleConsumer rests on who is busy (BusyInv) and on what the program   *)
(* counters say (ListsInv, HandsInv).  InOrder rests on it: the packets    *)
(* that left p's queue are a beginning of the history inserted[p]          *)
(* (PlaceInv), the packet in the one consumer's hand is the last of them   *)
(* (TakenInv), and what was delivered or waits to be indicated is embedded *)
(* in that beginning (EmbedInv).                                           *)
(*                                                                         *)
(* ReferencesExact counts sets of packets, and a step moves one packet     *)
(* between them.  That it was not there already is RefInv: a packet is in  *)
(* one call (FreshInv), no peer has it until its call gives it to one      *)
(* (NewInv), and it is in one place of its own peer's queue (KeptInv).     *)
(***************************************************************************)
EXTENDS PacketPipeline, TLAPS, SequenceTheorems, FiniteSetTheorems

(* The labels at which a thread has a packet at the head of its list, a
   worker has a peer, and a worker has a packet.                            *)
Listing == {"lookup", "insert", "link", "cleanup", "publish", "enqueue", "put"}
Holding == {"peek", "state", "handle", "putPacket", "indicate", "retire"}
Carrying == {"state", "handle", "putPacket"}

(* What the program counters say about lists ... *)
ListsInv ==
    /\ \A t \in Threads : pc[t] \in Listing => list[t] # <<>>
    /\ \A t \in Producers : pc[t] = "produce" => device[t] # <<>>
    /\ \A t \in Producers : pc[t] \in ProducerStates
    /\ \A w \in Workers : pc[w] \in WorkerStates

(* ... and about what a worker has in its hands. *)
HandsInv ==
    /\ \A w \in Workers : pc[w] \in Holding <=> held[w] # Nil
    /\ \A w \in Workers : pc[w] \in Carrying => packet[w] # Nil

(* Item->Next is non-null while the peer is on the list or in hand, until the
   peer is freed. *)
BusyInv ==
    /\ \A i \in DOMAIN serial : ~Freed(serial[i]) => serial[i] \in busy
    /\ \A i, j \in DOMAIN serial : serial[i] = serial[j] /\ ~Freed(serial[i]) => i = j
    /\ \A w \in Workers : held[w] # Nil /\ ~Freed(held[w]) => held[w] \in busy

IInv == TypeOK /\ ListsInv /\ HandsInv /\ BusyInv /\ SingleConsumer

LEMMA SeqFacts ==
    ASSUME NEW S, NEW s \in Seq(S), s # <<>>
    PROVE  /\ Head(s) \in S
           /\ Tail(s) \in Seq(S)
           /\ Len(s) \in Nat /\ Len(s) > 0
           /\ Len(Tail(s)) = Len(s) - 1
           /\ Len(s) > 1 => Tail(s) # <<>>
  <1>1. Head(s) \in S /\ Tail(s) \in Seq(S) /\ Len(s) \in Nat /\ Len(s) > 0
    OBVIOUS
  <1>2. Len(Tail(s)) = Len(s) - 1
    OBVIOUS
  <1>3. Len(s) > 1 => Tail(s) # <<>>
    BY <1>1, <1>2
  <1>4. QED
    BY <1>1, <1>2, <1>3

LEMMA InitInv == Init => IInv
  <1> SUFFICES ASSUME Init PROVE IInv
    OBVIOUS
  <1> USE PipelineAssumption
  <1>1. ThreadsOK /\ QueuesOK
    BY DEF Init, ThreadsOK, QueuesOK, Threads, ProducerStates, WorkerStates
  <1>2. RingOK /\ SerialOK
    BY DEF Init, RingOK, SerialOK
  <1>3. WorkOK
    BY DEF Init, WorkOK
  <1>4. PeersOK
    <2>1. newWork \in BOOLEAN
      BY DEF Init
    <2>2. dir \in {"rx", "tx"} /\ ref \in [Peers -> Int] /\ inUse \in [Peers -> Int]
      BY DEF Init
    <2>3. removal \in [Peers -> {"no", "waiting", "removed", "freed"}]
      BY DEF Init
    <2>4. QED
      BY <2>1, <2>2, <2>3 DEF PeersOK
  <1>5. ListsInv /\ HandsInv
    BY DEF Init, ListsInv, HandsInv, Threads, ProducerStates, WorkerStates, Listing,
        Holding, Carrying
  <1>6. BusyInv /\ SingleConsumer
    BY DEF Init, BusyInv, SingleConsumer, OnSerial
  <1>7. QED
    BY <1>1, <1>2, <1>3, <1>4, <1>5, <1>6 DEF IInv, TypeOK

LEMMA StartCallInv ==
    ASSUME IInv, NEW t \in Producers, StartCall(t)
    PROVE  IInv'
  <1> USE PipelineAssumption DEF At, Goto, StartCall, IInv, TypeOK, Freed, peerVars
  <1>1. ThreadsOK'
    BY DEF ThreadsOK, Threads, ProducerStates, WorkerStates
  <1>2. QueuesOK'
    BY DEF QueuesOK, queueVars
  <1>3. RingOK'
    BY DEF RingOK
  <1>4. SerialOK'
    BY DEF SerialOK, serialVars, workVars
  <1>5. WorkOK'
    BY DEF WorkOK, workVars
  <1>6. PeersOK'
    BY DEF PeersOK, peerVars
  <1>7. ListsInv'
    BY DEF ListsInv, ThreadsOK, Listing, Threads, ProducerStates, WorkerStates
  <1>8. HandsInv'
    BY DEF HandsInv, ThreadsOK, SerialOK, WorkOK, Threads, workVars, Holding, Carrying
  <1>9. BusyInv'
    BY DEF BusyInv, SerialOK, HandsInv, SingleConsumer, OnSerial, Holding, serialVars,
        workVars
  <1>10. SingleConsumer'
    BY DEF SingleConsumer, SerialOK, HandsInv, BusyInv, OnSerial, Holding, serialVars,
        workVars
  <1>11. QED
    BY <1>1, <1>2, <1>3, <1>4, <1>5, <1>6, <1>7, <1>8, <1>9, <1>10

LEMMA LookupInv ==
    ASSUME IInv, NEW t \in Producers, Lookup(t)
    PROVE  IInv'
  <1> USE PipelineAssumption DEF At, Goto, Lookup, IInv, TypeOK, Freed, peerVars
  <1>0. /\ list[t] \in Seq(Packets) /\ list[t] # <<>>
        /\ Head(list[t]) \in Packets /\ Tail(list[t]) \in Seq(Packets)
        /\ Len(list[t]) > 1 => Tail(list[t]) # <<>>
        /\ PeerOf[Head(list[t])] \in Peers
    BY SeqFacts DEF ThreadsOK, ListsInv, Listing, Threads
  <1>1. ThreadsOK'
    <2>1. pc'[t] \in ProducerStates /\ pc' = [pc EXCEPT ![t] = pc'[t]]
      BY <1>0 DEF ThreadsOK, AfterPacket, Threads, ProducerStates
    <2>2. pc' \in [Threads -> ProducerStates \cup WorkerStates]
      BY <2>1 DEF ThreadsOK
    <2>3. QED
      BY ZenonT(60), <1>0, <2>2 DEF ThreadsOK, Threads
  <1>2. QueuesOK'
    BY <1>0 DEF QueuesOK, queueVars
  <1>3. RingOK'
    BY <1>0 DEF RingOK
  <1>4. SerialOK'
    BY <1>0 DEF SerialOK, serialVars, workVars
  <1>5. WorkOK'
    BY <1>0 DEF WorkOK, workVars
  <1>6. PeersOK'
    <2>1. CASE ref' = [ref EXCEPT ![PeerOf[Head(list[t])]] = @ + 1]
      BY SMTT(30), <1>0, <2>1 DEF PeersOK
    <2>2. CASE UNCHANGED ref
      BY <2>2 DEF PeersOK
    <2>3. QED
      BY <2>1, <2>2
  <1>7. ListsInv'
    BY <1>0
    DEF ListsInv, ThreadsOK, Listing, Threads, ProducerStates, WorkerStates, AfterPacket
  <1>8. HandsInv'
    BY ZenonT(60), <1>0
    DEF HandsInv, ThreadsOK, SerialOK, WorkOK, Threads, workVars, Holding, Carrying
  <1>9. BusyInv'
    BY <1>0
    DEF BusyInv, SerialOK, HandsInv, SingleConsumer, OnSerial, Holding, serialVars,
        workVars
  <1>10. SingleConsumer'
    BY <1>0
    DEF SingleConsumer, SerialOK, HandsInv, BusyInv, OnSerial, Holding, serialVars,
        workVars
  <1>11. QED
    BY <1>1, <1>2, <1>3, <1>4, <1>5, <1>6, <1>7, <1>8, <1>9, <1>10

LEMMA InsertInv ==
    ASSUME IInv, NEW t \in Producers, Insert(t)
    PROVE  IInv'
  <1> USE PipelineAssumption DEF At, Goto, Insert, IInv, TypeOK, Freed, peerVars
  <1>0. /\ list[t] \in Seq(Packets) /\ list[t] # <<>>
        /\ Head(list[t]) \in Packets /\ Tail(list[t]) \in Seq(Packets)
        /\ Len(list[t]) > 1 => Tail(list[t]) # <<>>
        /\ PeerOf[Head(list[t])] \in Peers
    BY SeqFacts DEF ThreadsOK, ListsInv, Listing, Threads
  <1>1. ThreadsOK'
    BY <1>0 DEF ThreadsOK, Threads, ProducerStates, WorkerStates
  <1>2. QueuesOK'
    <2>1. CASE UNCHANGED <<state, queueVars>>
      BY <2>1 DEF QueuesOK, queueVars
    <2>2. CASE ~UNCHANGED <<state, queueVars>>
      <3> DEFINE k == Head(list[t])
                 p == PeerOf[Head(list[t])]
      <3>1. /\ Len(fifo[p]) < MAX_QUEUED_PACKETS
            /\ state' = [state EXCEPT ![k] = "UNCRYPTED"]
            /\ fifo' = [fifo EXCEPT ![p] = Append(@, k)]
            /\ inserted' = [inserted EXCEPT ![p] = Append(@, k)]
            /\ linking' = linking \cup {k}
            /\ peeked' = peeked
        BY <2>2
      <3>a. /\ fifo[p] \in Seq(Packets) /\ inserted[p] \in Seq(Packets)
            /\ k \in Packets
        BY <1>0 DEF QueuesOK
      <3> HIDE DEF k, p, Insert, IInv
      <3>2. Append(fifo[p], k) \in Seq(Packets) /\ Append(inserted[p], k) \in Seq(Packets)
        BY <3>a
      <3>3. Len(Append(fifo[p], k)) <= MAX_QUEUED_PACKETS
        BY <3>a, <3>1
      <3> USE DEF Insert, IInv
      <3>4. \A q \in Peers : Len(fifo'[q]) <= MAX_QUEUED_PACKETS
        BY SMTT(30), <3>1, <3>3 DEF QueuesOK
      <3>5. QED
        BY <1>0, <3>1, <3>2, <3>4 DEF QueuesOK, k, p
    <2>3. QED
      BY <2>1, <2>2
  <1>3. RingOK'
    BY <1>0 DEF RingOK
  <1>4. SerialOK'
    BY <1>0 DEF SerialOK, serialVars, workVars
  <1>5. WorkOK'
    BY <1>0 DEF WorkOK, workVars
  <1>6. PeersOK'
    <2>a. inUse \in [Peers -> Int]
      BY DEF PeersOK
    <2>b. \/ inUse' = inUse
          \/ inUse' = [inUse EXCEPT ![PeerOf[Head(list[t])]] = @ + 1]
      OBVIOUS
    <2> HIDE DEF Insert, IInv
    <2>1. inUse' \in [Peers -> Int]
      BY <1>0, <2>a, <2>b
    <2> USE DEF Insert, IInv
    <2>2. QED
      BY <2>1 DEF PeersOK
  <1>7. ListsInv'
    BY ZenonT(60), <1>0
    DEF ListsInv, ThreadsOK, Listing, Threads, ProducerStates, WorkerStates
  <1>8. HandsInv'
    BY ZenonT(60), <1>0
    DEF HandsInv, ThreadsOK, SerialOK, WorkOK, Threads, workVars, Holding, Carrying
  <1>9. BusyInv'
    BY <1>0
    DEF BusyInv, SerialOK, HandsInv, SingleConsumer, OnSerial, Holding, serialVars,
        workVars
  <1>10. SingleConsumer'
    BY <1>0
    DEF SingleConsumer, SerialOK, HandsInv, BusyInv, OnSerial, Holding, serialVars,
        workVars
  <1>11. QED
    BY <1>1, <1>2, <1>3, <1>4, <1>5, <1>6, <1>7, <1>8, <1>9, <1>10

LEMMA LinkInv ==
    ASSUME IInv, NEW t \in Producers, Link(t)
    PROVE  IInv'
  <1> USE PipelineAssumption DEF At, Goto, Link, IInv, TypeOK, Freed, peerVars
  <1>0. /\ list[t] \in Seq(Packets) /\ list[t] # <<>>
        /\ Head(list[t]) \in Packets /\ Tail(list[t]) \in Seq(Packets)
        /\ Len(list[t]) > 1 => Tail(list[t]) # <<>>
        /\ PeerOf[Head(list[t])] \in Peers
    BY SeqFacts DEF ThreadsOK, ListsInv, Listing, Threads
  <1>1. ThreadsOK'
    BY <1>0 DEF ThreadsOK, Threads, ProducerStates, WorkerStates, AfterPacket
  <1>2. QueuesOK'
    BY <1>0 DEF QueuesOK, queueVars
  <1>3. RingOK'
    BY <1>0 DEF RingOK
  <1>4. SerialOK'
    BY <1>0 DEF SerialOK, serialVars, workVars
  <1>5. WorkOK'
    BY <1>0 DEF WorkOK, workVars
  <1>6. PeersOK'
    BY <1>0 DEF PeersOK, peerVars
  <1>7. ListsInv'
    BY <1>0
    DEF ListsInv, ThreadsOK, Listing, Threads, ProducerStates, WorkerStates, AfterPacket
  <1>8. HandsInv'
    BY <1>0
    DEF HandsInv, ThreadsOK, SerialOK, WorkOK, Threads, workVars, Holding, Carrying
  <1>9. BusyInv'
    BY <1>0
    DEF BusyInv, SerialOK, HandsInv, SingleConsumer, OnSerial, Holding, serialVars,
        workVars
  <1>10. SingleConsumer'
    BY <1>0
    DEF SingleConsumer, SerialOK, HandsInv, BusyInv, OnSerial, Holding, serialVars,
        workVars
  <1>11. QED
    BY <1>1, <1>2, <1>3, <1>4, <1>5, <1>6, <1>7, <1>8, <1>9, <1>10

LEMMA CleanupInv ==
    ASSUME IInv, NEW t \in Producers, Cleanup(t)
    PROVE  IInv'
  <1> USE PipelineAssumption DEF At, Goto, Cleanup, IInv, TypeOK, Freed, peerVars
  <1>0. /\ list[t] \in Seq(Packets) /\ list[t] # <<>>
        /\ Head(list[t]) \in Packets /\ Tail(list[t]) \in Seq(Packets)
        /\ Len(list[t]) > 1 => Tail(list[t]) # <<>>
        /\ PeerOf[Head(list[t])] \in Peers
    BY SeqFacts DEF ThreadsOK, ListsInv, Listing, Threads
  <1>1. ThreadsOK'
    BY <1>0 DEF ThreadsOK, Threads, ProducerStates, WorkerStates, AfterPacket
  <1>2. QueuesOK'
    BY <1>0 DEF QueuesOK, queueVars
  <1>3. RingOK'
    BY <1>0 DEF RingOK
  <1>4. SerialOK'
    BY <1>0 DEF SerialOK, serialVars, workVars
  <1>5. WorkOK'
    BY <1>0 DEF WorkOK, workVars
  <1>6. PeersOK'
    BY <1>0 DEF PeersOK, peerVars
  <1>7. ListsInv'
    BY <1>0
    DEF ListsInv, ThreadsOK, Listing, Threads, ProducerStates, WorkerStates, AfterPacket
  <1>8. HandsInv'
    BY <1>0
    DEF HandsInv, ThreadsOK, SerialOK, WorkOK, Threads, workVars, Holding, Carrying
  <1>9. BusyInv'
    BY <1>0
    DEF BusyInv, SerialOK, HandsInv, SingleConsumer, OnSerial, Holding, serialVars,
        workVars
  <1>10. SingleConsumer'
    BY <1>0
    DEF SingleConsumer, SerialOK, HandsInv, BusyInv, OnSerial, Holding, serialVars,
        workVars
  <1>11. QED
    BY <1>1, <1>2, <1>3, <1>4, <1>5, <1>6, <1>7, <1>8, <1>9, <1>10

LEMMA ProduceInv ==
    ASSUME IInv, NEW t \in Producers, Produce(t)
    PROVE  IInv'
  <1> USE PipelineAssumption DEF At, Goto, Produce, IInv, TypeOK, Freed, peerVars
  <1>1. ThreadsOK'
    <2>1. device[t] \in Seq(Packets) /\ <<>> \in Seq(Packets)
      BY DEF ThreadsOK
    <2>2. CASE Goto(t, "bump") /\ UNCHANGED list
      BY <2>1, <2>2 DEF ThreadsOK, Threads, ProducerStates
    <2>3. CASE Goto(t, "publish") /\ list' = [list EXCEPT ![t] = device[t]]
      BY <2>1, <2>3 DEF ThreadsOK, Threads, ProducerStates
    <2>4. QED
      BY <2>2, <2>3
  <1>2. QueuesOK'
    BY DEF QueuesOK, queueVars
  <1>3. RingOK'
    <2>1. device[t] \in Seq(Packets) \ {<<>>}
      BY DEF ThreadsOK, ListsInv
    <2>2. CASE Len(ring) < RingSize /\ ring' = Append(ring, device[t])
      <3>1. ring' \in Seq(Seq(Packets) \ {<<>>})
        BY <2>1, <2>2 DEF RingOK
      <3>2. Len(ring') = Len(ring) + 1 /\ Len(ring) \in Nat
        BY <2>1, <2>2 DEF RingOK
      <3>3. QED
        BY <2>2, <3>1, <3>2 DEF RingOK
    <2>3. CASE UNCHANGED ring
      BY <2>3 DEF RingOK
    <2>4. QED
      BY <2>2, <2>3
  <1>4. SerialOK'
    BY DEF SerialOK, serialVars, workVars
  <1>5. WorkOK'
    BY DEF WorkOK, workVars
  <1>6. PeersOK'
    BY DEF PeersOK, peerVars
  <1>7. ListsInv'
    BY DEF ListsInv, ThreadsOK, Listing, Threads, ProducerStates, WorkerStates
  <1>8. HandsInv'
    BY DEF HandsInv, ThreadsOK, SerialOK, WorkOK, Threads, workVars, Holding, Carrying
  <1>9. BusyInv'
    BY DEF BusyInv, SerialOK, HandsInv, SingleConsumer, OnSerial, Holding, serialVars,
        workVars
  <1>10. SingleConsumer'
    BY DEF SingleConsumer, SerialOK, HandsInv, BusyInv, OnSerial, Holding, serialVars,
        workVars
  <1>11. QED
    BY <1>1, <1>2, <1>3, <1>4, <1>5, <1>6, <1>7, <1>8, <1>9, <1>10

LEMMA BumpInv ==
    ASSUME IInv, NEW t \in Producers, Bump(t)
    PROVE  IInv'
  <1> USE PipelineAssumption DEF At, Goto, Bump, IInv, TypeOK, Freed, peerVars
  <1>1. ThreadsOK'
    BY DEF ThreadsOK, Threads, ProducerStates, WorkerStates
  <1>2. QueuesOK'
    BY DEF QueuesOK, queueVars
  <1>3. RingOK'
    BY DEF RingOK
  <1>4. SerialOK'
    BY DEF SerialOK, serialVars, workVars
  <1>5. WorkOK'
    BY DEF WorkOK, workVars
  <1>6. PeersOK'
    BY DEF PeersOK, peerVars
  <1>7. ListsInv'
    BY DEF ListsInv, ThreadsOK, Listing, Threads, ProducerStates, WorkerStates
  <1>8. HandsInv'
    BY DEF HandsInv, ThreadsOK, SerialOK, WorkOK, Threads, workVars, Holding, Carrying
  <1>9. BusyInv'
    BY DEF BusyInv, SerialOK, HandsInv, SingleConsumer, OnSerial, Holding, serialVars,
        workVars
  <1>10. SingleConsumer'
    BY DEF SingleConsumer, SerialOK, HandsInv, BusyInv, OnSerial, Holding, serialVars,
        workVars
  <1>11. QED
    BY <1>1, <1>2, <1>3, <1>4, <1>5, <1>6, <1>7, <1>8, <1>9, <1>10

LEMMA PublishInv ==
    ASSUME IInv, NEW t \in Threads, Publish(t)
    PROVE  IInv'
  <1> USE PipelineAssumption DEF At, Goto, Publish, IInv, TypeOK, Freed, peerVars
  <1>0. /\ list[t] \in Seq(Packets) /\ list[t] # <<>>
        /\ Head(list[t]) \in Packets /\ Tail(list[t]) \in Seq(Packets)
        /\ Len(list[t]) > 1 => Tail(list[t]) # <<>>
        /\ PeerOf[Head(list[t])] \in Peers
    BY SeqFacts DEF ThreadsOK, ListsInv, Listing, Threads
  <1>1. ThreadsOK'
    BY <1>0 DEF ThreadsOK, Threads, ProducerStates, WorkerStates
  <1>2. QueuesOK'
    BY <1>0 DEF QueuesOK, queueVars, Outcomes
  <1>3. RingOK'
    BY <1>0 DEF RingOK
  <1>4. SerialOK'
    BY <1>0 DEF SerialOK, serialVars, workVars
  <1>5. WorkOK'
    BY <1>0 DEF WorkOK, workVars
  <1>6. PeersOK'
    BY <1>0 DEF PeersOK, peerVars
  <1>7. ListsInv'
    BY <1>0 DEF ListsInv, ThreadsOK, Listing, Threads, ProducerStates, WorkerStates
  <1>8. HandsInv'
    BY <1>0
    DEF HandsInv, ThreadsOK, SerialOK, WorkOK, Threads, workVars, Holding, Carrying
  <1>9. BusyInv'
    BY <1>0
    DEF BusyInv, SerialOK, HandsInv, SingleConsumer, OnSerial, Holding, serialVars,
        workVars
  <1>10. SingleConsumer'
    BY <1>0
    DEF SingleConsumer, SerialOK, HandsInv, BusyInv, OnSerial, Holding, serialVars,
        workVars
  <1>11. QED
    BY <1>1, <1>2, <1>3, <1>4, <1>5, <1>6, <1>7, <1>8, <1>9, <1>10

LEMMA PeerSerialEnqueueIfNotBusyInv ==
    ASSUME IInv, NEW t \in Threads, PeerSerialEnqueueIfNotBusy(t)
    PROVE  IInv'
  <1> USE PipelineAssumption DEF At, Goto, PeerSerialEnqueueIfNotBusy, IInv, TypeOK, Freed, peerVars
  <1>0. /\ list[t] \in Seq(Packets) /\ list[t] # <<>>
        /\ Head(list[t]) \in Packets /\ Tail(list[t]) \in Seq(Packets)
        /\ Len(list[t]) > 1 => Tail(list[t]) # <<>>
        /\ PeerOf[Head(list[t])] \in Peers
    BY SeqFacts DEF ThreadsOK, ListsInv, Listing, Threads
  <1>1. ThreadsOK'
    BY <1>0 DEF ThreadsOK, Threads, ProducerStates, WorkerStates
  <1>2. QueuesOK'
    BY <1>0 DEF QueuesOK, queueVars
  <1>3. RingOK'
    BY <1>0 DEF RingOK
  <1>4. SerialOK'
    <2> DEFINE p == PeerOf[Head(list[t])]
    <2>1. Append(serial, p) \in Seq(Peers)
      BY <1>0 DEF SerialOK
    <2>2. QED
      BY <1>0, <2>1 DEF SerialOK, workVars
  <1>5. WorkOK'
    BY <1>0 DEF WorkOK, workVars
  <1>6. PeersOK'
    BY <1>0 DEF PeersOK, peerVars
  <1>7. ListsInv'
    BY <1>0 DEF ListsInv, ThreadsOK, Listing, Threads, ProducerStates, WorkerStates
  <1>8. HandsInv'
    BY <1>0
    DEF HandsInv, ThreadsOK, SerialOK, WorkOK, Threads, workVars, Holding, Carrying
  <1>9. BusyInv' /\ SingleConsumer'
    <2> DEFINE p == PeerOf[Head(list[t])]
    <2>1. removal' = removal /\ held' = held
      BY DEF workVars
    <2>2. /\ \/ p \in busy /\ busy' = busy /\ serial' = serial
             \/ p \notin busy /\ busy' = busy \cup {p} /\ serial' = Append(serial, p)
          /\ BusyInv /\ SingleConsumer
          /\ serial \in Seq(Peers) /\ p \in Peers
      BY <1>0 DEF workVars, serialVars, SerialOK
    <2> HIDE DEF IInv, TypeOK, Freed, peerVars, PeerSerialEnqueueIfNotBusy, p
    <2>3. \A q : Freed(q)' <=> Freed(q)
      BY <2>1 DEF Freed
    <2>4. CASE p \in busy
      BY <2>1, <2>2, <2>3, <2>4 DEF BusyInv, SingleConsumer, OnSerial
    <2>5. CASE p \notin busy
      <3>1. busy' = busy \cup {p} /\ serial' = Append(serial, p)
        BY <2>2, <2>5
      <3>2. /\ DOMAIN serial' = 1 .. Len(serial) + 1 /\ Len(serial) \in Nat
            /\ DOMAIN serial = 1 .. Len(serial)
            /\ \A i \in 1 .. Len(serial) : serial'[i] = serial[i]
            /\ serial'[Len(serial) + 1] = p
        BY <2>2, <3>1
      <3>3. \A i \in DOMAIN serial' :
              \/ i \in DOMAIN serial /\ serial'[i] = serial[i]
              \/ i = Len(serial) + 1 /\ serial'[i] = p
        BY <3>2
      <3>4. ~Freed(p) => /\ \A i \in DOMAIN serial : serial[i] # p
                         /\ \A v \in Workers : held[v] # p
        <4>1. p # Nil
          BY <2>2
        <4>2. QED
          BY <2>2, <2>5, <4>1 DEF BusyInv
      <3>5. \A i \in DOMAIN serial' : ~Freed(serial'[i]) => serial'[i] \in busy'
        BY <2>2, <3>1, <3>3 DEF BusyInv
      <3>6. \A i, j \in DOMAIN serial' :
              serial'[i] = serial'[j] /\ ~Freed(serial'[i]) => i = j
        BY <2>2, <3>3, <3>4 DEF BusyInv
      <3>7. BusyInv'
        BY <2>1, <2>2, <2>3, <3>1, <3>5, <3>6 DEF BusyInv
      <3>8. SingleConsumer'
        BY <2>1, <2>2, <2>3, <3>3, <3>4 DEF SingleConsumer, OnSerial
      <3>9. QED
        BY <3>7, <3>8
    <2>6. QED
      BY <2>4, <2>5
  <1>10. QED
    BY <1>1, <1>2, <1>3, <1>4, <1>5, <1>6, <1>7, <1>8, <1>9

LEMMA PutInv ==
    ASSUME IInv, NEW t \in Threads, Put(t)
    PROVE  IInv'
  <1> USE PipelineAssumption DEF At, Goto, Put, IInv, TypeOK, Freed, peerVars
  <1>0. /\ list[t] \in Seq(Packets) /\ list[t] # <<>>
        /\ Head(list[t]) \in Packets /\ Tail(list[t]) \in Seq(Packets)
        /\ Len(list[t]) > 1 => Tail(list[t]) # <<>>
        /\ PeerOf[Head(list[t])] \in Peers
    BY SeqFacts DEF ThreadsOK, ListsInv, Listing, Threads
  <1>1. ThreadsOK'
    BY <1>0 DEF ThreadsOK, Threads, ProducerStates, WorkerStates
  <1>2. QueuesOK'
    BY <1>0 DEF QueuesOK, queueVars
  <1>3. RingOK'
    BY <1>0 DEF RingOK
  <1>4. SerialOK'
    BY <1>0 DEF SerialOK, serialVars, workVars
  <1>5. WorkOK'
    BY <1>0 DEF WorkOK, workVars
  <1>6. PeersOK'
    <2>1. ref' = [ref EXCEPT ![PeerOf[Head(list[t])]] = @ - 1]
      OBVIOUS
    <2>2. ref' \in [Peers -> Int]
      BY <1>0, <2>1 DEF PeersOK
    <2>3. QED
      BY <2>2 DEF PeersOK
  <1>7. ListsInv'
    BY <1>0 DEF ListsInv, ThreadsOK, Listing, Threads, ProducerStates, WorkerStates
  <1>8. HandsInv'
    BY <1>0
    DEF HandsInv, ThreadsOK, SerialOK, WorkOK, Threads, workVars, Holding, Carrying
  <1>9. BusyInv'
    BY <1>0
    DEF BusyInv, SerialOK, HandsInv, SingleConsumer, OnSerial, Holding, serialVars,
        workVars
  <1>10. SingleConsumer'
    BY <1>0
    DEF SingleConsumer, SerialOK, HandsInv, BusyInv, OnSerial, Holding, serialVars,
        workVars
  <1>11. QED
    BY <1>1, <1>2, <1>3, <1>4, <1>5, <1>6, <1>7, <1>8, <1>9, <1>10

LEMMA WakeInv ==
    ASSUME IInv, NEW w \in Workers, Wake(w)
    PROVE  IInv'
  <1> USE PipelineAssumption DEF At, Goto, Wake, IInv, TypeOK, Freed, peerVars
  <1>1. ThreadsOK'
    BY DEF ThreadsOK, Threads, ProducerStates, WorkerStates
  <1>2. QueuesOK'
    BY DEF QueuesOK, queueVars
  <1>3. RingOK'
    BY DEF RingOK
  <1>4. SerialOK'
    BY DEF SerialOK, serialVars, workVars
  <1>5. WorkOK'
    BY DEF WorkOK, workVars
  <1>6. PeersOK'
    BY DEF PeersOK, peerVars
  <1>7. ListsInv'
    BY DEF ListsInv, ThreadsOK, Listing, Threads, ProducerStates, WorkerStates
  <1>8. HandsInv'
    BY DEF HandsInv, ThreadsOK, SerialOK, WorkOK, Threads, workVars, Holding, Carrying
  <1>9. BusyInv'
    BY DEF BusyInv, SerialOK, HandsInv, SingleConsumer, OnSerial, Holding, serialVars,
        workVars
  <1>10. SingleConsumer'
    BY DEF SingleConsumer, SerialOK, HandsInv, BusyInv, OnSerial, Holding, serialVars,
        workVars
  <1>11. QED
    BY <1>1, <1>2, <1>3, <1>4, <1>5, <1>6, <1>7, <1>8, <1>9, <1>10

LEMMA ConsumeInv ==
    ASSUME IInv, NEW w \in Workers, Consume(w)
    PROVE  IInv'
  <1> USE PipelineAssumption DEF At, Goto, Consume, IInv, TypeOK, Freed, peerVars
  <1>1. ThreadsOK'
    <2>1. CASE ring # <<>>
      <3>1. Head(ring) \in Seq(Packets)
        BY <2>1, SeqFacts DEF RingOK
      <3>2. list' = [list EXCEPT ![w] = Head(ring)] /\ pc' = [pc EXCEPT ![w] = "publish"]
        BY <2>1
      <3>3. QED
        BY <3>1, <3>2 DEF ThreadsOK, Threads, WorkerStates
    <2>2. CASE ring = <<>>
      BY <2>2 DEF ThreadsOK, Threads, WorkerStates
    <2>3. QED
      BY <2>1, <2>2
  <1>2. QueuesOK'
    BY DEF QueuesOK, queueVars
  <1>3. RingOK'
    <2>1. CASE ring # <<>>
      <3>1. /\ Tail(ring) \in Seq(Seq(Packets) \ {<<>>})
            /\ Len(Tail(ring)) = Len(ring) - 1 /\ Len(ring) \in Nat
        BY <2>1, SeqFacts DEF RingOK
      <3>2. ring' = Tail(ring)
        BY <2>1
      <3>3. Len(Tail(ring)) <= RingSize
        BY <3>1 DEF RingOK
      <3>4. QED
        BY <3>1, <3>2, <3>3, Zenon DEF RingOK
    <2>2. CASE ring = <<>>
      BY <2>2 DEF RingOK
    <2>3. QED
      BY <2>1, <2>2
  <1>4. SerialOK'
    BY DEF SerialOK, serialVars, workVars
  <1>5. WorkOK'
    BY DEF WorkOK, workVars
  <1>6. PeersOK'
    BY DEF PeersOK, peerVars
  <1>7. ListsInv'
    <2>1. CASE ring # <<>>
      <3>1. Head(ring) # <<>>
        BY <2>1, SeqFacts DEF RingOK
      <3>2. list' = [list EXCEPT ![w] = Head(ring)] /\ pc' = [pc EXCEPT ![w] = "publish"]
        BY <2>1
      <3>3. \A t \in Threads : pc'[t] \in Listing => list'[t] # <<>>
        BY <3>1, <3>2 DEF ListsInv, ThreadsOK
      <3>4. QED
        BY <3>2, <3>3 DEF ListsInv, ThreadsOK, Threads, ProducerStates, WorkerStates
    <2>2. CASE ring = <<>>
      BY <2>2 DEF ListsInv, ThreadsOK, Threads, ProducerStates, WorkerStates, Listing
    <2>3. QED
      BY <2>1, <2>2
  <1>8. HandsInv'
    BY DEF HandsInv, ThreadsOK, SerialOK, WorkOK, Threads, workVars, Holding, Carrying
  <1>9. BusyInv'
    BY DEF BusyInv, SerialOK, HandsInv, SingleConsumer, OnSerial, Holding, serialVars,
        workVars
  <1>10. SingleConsumer'
    BY DEF SingleConsumer, SerialOK, HandsInv, BusyInv, OnSerial, Holding, serialVars,
        workVars
  <1>11. QED
    BY <1>1, <1>2, <1>3, <1>4, <1>5, <1>6, <1>7, <1>8, <1>9, <1>10

LEMMA PeerSerialDequeueInv ==
    ASSUME IInv, NEW w \in Workers, PeerSerialDequeue(w)
    PROVE  IInv'
  <1> USE PipelineAssumption DEF At, Goto, PeerSerialDequeue, IInv, TypeOK, Freed, peerVars
  <1>1. ThreadsOK'
    BY DEF ThreadsOK, Threads, ProducerStates, WorkerStates
  <1>2. QueuesOK'
    BY DEF QueuesOK, queueVars
  <1>3. RingOK'
    BY DEF RingOK
  <1>4. SerialOK'
    <2>1. CASE serial # <<>>
      <3>1. Head(serial) \in Peers /\ Tail(serial) \in Seq(Peers)
        BY <2>1, SeqFacts DEF SerialOK
      <3>2. QED
        BY <2>1, <3>1 DEF SerialOK
    <2>2. CASE serial = <<>>
      BY <2>2 DEF SerialOK
    <2>3. QED
      BY <2>1, <2>2
  <1>5. WorkOK'
    <2>1. budget' \in [Workers -> 0 .. PEER_XMIT_PACKETS_PER_ROUND]
      <3>1. PEER_XMIT_PACKETS_PER_ROUND \in 0 .. PEER_XMIT_PACKETS_PER_ROUND
        OBVIOUS
      <3>2. QED
        BY <3>1 DEF WorkOK
    <2>2. last' \in [Workers -> BOOLEAN]
      BY DEF WorkOK
    <2>3. QED
      BY <2>1, <2>2 DEF WorkOK
  <1>6. PeersOK'
    BY DEF PeersOK, peerVars
  <1>7. ListsInv'
    BY ZenonT(60) DEF ListsInv, ThreadsOK, Listing, Threads, ProducerStates, WorkerStates
  <1>8. HandsInv'
    <2>1. CASE serial # <<>>
      <3>1. Head(serial) \in Peers
        BY <2>1, SeqFacts DEF SerialOK
      <3>2. Head(serial) # Nil
        BY <3>1
      <3>3. held' = [held EXCEPT ![w] = Head(serial)] /\ pc' = [pc EXCEPT ![w] = "peek"] /\ packet' = packet
        BY <2>1
      <3>4. QED
        BY <3>2, <3>3 DEF HandsInv, ThreadsOK, SerialOK, Threads, Holding, Carrying
    <2>2. CASE serial = <<>>
      BY <2>2 DEF HandsInv, ThreadsOK, Threads, Holding, Carrying
    <2>3. QED
      BY <2>1, <2>2
  <1>9. BusyInv' /\ SingleConsumer'
    <2>1. /\ removal' = removal /\ busy' = busy
          /\ \/ serial = <<>> /\ serial' = serial /\ held' = held
             \/ /\ serial # <<>> /\ serial' = Tail(serial)
                /\ held' = [held EXCEPT ![w] = Head(serial)]
          /\ BusyInv /\ SingleConsumer
          /\ serial \in Seq(Peers) /\ held \in [Workers -> Peers \cup {Nil}]
      BY DEF serialVars, SerialOK
    <2> HIDE DEF IInv, TypeOK, Freed, peerVars, PeerSerialDequeue
    <2>2. \A q : Freed(q)' <=> Freed(q)
      BY <2>1 DEF Freed
    <2>3. CASE serial = <<>>
      BY <2>1, <2>2, <2>3 DEF BusyInv, SingleConsumer, OnSerial
    <2>4. CASE serial # <<>>
      <3> DEFINE h == Head(serial)
      <3>1. /\ serial' = Tail(serial) /\ held' = [held EXCEPT ![w] = h]
            /\ busy' = busy
        BY <2>1, <2>4
      <3>2. /\ DOMAIN serial = 1 .. Len(serial) /\ Len(serial) \in Nat \ {0}
            /\ DOMAIN serial' = 1 .. Len(serial) - 1
            /\ \A i \in 1 .. Len(serial) - 1 : serial'[i] = serial[i + 1]
            /\ h = serial[1] /\ h \in Peers
        BY <2>1, <2>4, <3>1
      <3> HIDE DEF h
      <3>3. \A i \in DOMAIN serial' :
              /\ i + 1 \in DOMAIN serial /\ i + 1 # 1 /\ serial'[i] = serial[i + 1]
        BY <3>2
      <3>4. 1 \in DOMAIN serial /\ serial[1] = h
        BY <3>2
      <3>5. \A i \in DOMAIN serial' : ~Freed(serial'[i]) => serial'[i] \in busy'
        BY <2>1, <3>1, <3>3 DEF BusyInv
      <3>6. \A i, j \in DOMAIN serial' :
              serial'[i] = serial'[j] /\ ~Freed(serial'[i]) => i = j
        <4> SUFFICES ASSUME NEW i \in DOMAIN serial', NEW j \in DOMAIN serial',
                            serial'[i] = serial'[j], ~Freed(serial'[i])
                     PROVE  i = j
          OBVIOUS
        <4>1. i + 1 = j + 1
          BY <2>1, <3>3 DEF BusyInv
        <4>2. i \in Int /\ j \in Int
          BY <3>2
        <4>3. QED
          BY <4>1, <4>2
      <3>7. ~Freed(h) => /\ h \in busy
                         /\ \A v \in Workers : held[v] # h
                         /\ \A i \in DOMAIN serial' : serial'[i] # h
        <4>1. ~Freed(h) => h \in busy
          BY <2>1, <3>4 DEF BusyInv
        <4>2. ~Freed(h) => \A i \in DOMAIN serial' : serial'[i] # h
          BY <2>1, <3>3, <3>4 DEF BusyInv
        <4>3. OnSerial(h)
          BY <3>4 DEF OnSerial
        <4>4. h # Nil
          BY <3>2
        <4>5. ~Freed(h) => \A v \in Workers : held[v] # h
          BY <2>1, <4>3, <4>4 DEF SingleConsumer
        <4>6. QED
          BY <4>1, <4>2, <4>5
      <3>8. /\ held'[w] = h
            /\ \A v \in Workers \ {w} : held'[v] = held[v]
        BY <2>1, <3>1
      <3>9. BusyInv'
        <4>1. \A v \in Workers : held'[v] # Nil /\ ~Freed(held'[v]) => held'[v] \in busy'
          BY <2>1, <3>1, <3>7, <3>8 DEF BusyInv
        <4>2. QED
          BY <2>2, <3>5, <3>6, <4>1 DEF BusyInv
      <3>10. \A u, v \in Workers :
               held'[u] = held'[v] /\ held'[u] # Nil /\ ~Freed(held'[u]) => u = v
        BY <2>1, <3>7, <3>8 DEF SingleConsumer
      <3>11. ASSUME NEW v \in Workers, held'[v] # Nil, ~Freed(held'[v])
             PROVE  \A i \in DOMAIN serial' : serial'[i] # held'[v]
        <4>1. CASE v = w
          BY <3>7, <3>8, <3>11, <4>1
        <4>2. CASE v # w
          <5>1. held'[v] = held[v] /\ ~OnSerial(held[v])
            BY <2>1, <3>8, <3>11, <4>2 DEF SingleConsumer
          <5>2. QED
            BY <3>3, <5>1 DEF OnSerial
        <4>3. QED
          BY <4>1, <4>2
      <3>12. SingleConsumer'
        BY <2>2, <3>10, <3>11 DEF SingleConsumer, OnSerial
      <3>13. QED
        BY <3>9, <3>12
    <2>5. QED
      BY <2>3, <2>4
  <1>10. QED
    BY <1>1, <1>2, <1>3, <1>4, <1>5, <1>6, <1>7, <1>8, <1>9

LEMMA PrevQueuePeekInv ==
    ASSUME IInv, NEW w \in Workers, PrevQueuePeek(w)
    PROVE  IInv'
  <1> USE PipelineAssumption DEF At, Goto, PrevQueuePeek, IInv, TypeOK, Freed, peerVars
  <1>0. held[w] \in Peers
    BY DEF SerialOK, HandsInv, Holding
  <1>1. ThreadsOK'
    BY <1>0 DEF ThreadsOK, Threads, ProducerStates, WorkerStates, AfterLoop
  <1>2. QueuesOK'
    <2>1. CASE UNCHANGED <<fifo, peeked>>
      BY <2>1 DEF QueuesOK
    <2>2. CASE fifo[held[w]] # <<>> /\ ~UNCHANGED <<fifo, peeked>>
      <3>1. /\ peeked' = [peeked EXCEPT ![held[w]] = Head(fifo[held[w]])]
            /\ fifo' = [fifo EXCEPT ![held[w]] = Tail(fifo[held[w]])]
            /\ UNCHANGED <<state, linking, inserted>>
        BY <2>2
      <3>2. /\ Head(fifo[held[w]]) \in Packets /\ Tail(fifo[held[w]]) \in Seq(Packets)
            /\ Len(Tail(fifo[held[w]])) <= MAX_QUEUED_PACKETS
        BY <1>0, <2>2, SeqFacts DEF QueuesOK
      <3>3. \A q \in Peers : Len(fifo'[q]) <= MAX_QUEUED_PACKETS
        BY <3>1, <3>2 DEF QueuesOK
      <3>4. QED
        BY <3>1, <3>2, <3>3 DEF QueuesOK
    <2>3. QED
      BY <2>1, <2>2
  <1>3. RingOK'
    BY <1>0 DEF RingOK
  <1>4. SerialOK'
    BY <1>0 DEF SerialOK, serialVars, workVars
  <1>5. WorkOK'
    <2>1. peeked[held[w]] # Nil => peeked[held[w]] \in Packets
      BY <1>0 DEF QueuesOK
    <2>2. fifo[held[w]] # <<>> => Head(fifo[held[w]]) \in Packets
      BY <1>0, SeqFacts DEF QueuesOK
    <2>3. packet' \in [Workers -> Packets \cup {Nil}]
      BY <2>1, <2>2 DEF WorkOK
    <2>4. QED
      BY <2>3 DEF WorkOK
  <1>6. PeersOK'
    BY <1>0 DEF PeersOK, peerVars
  <1>7. ListsInv'
    BY <1>0
    DEF ListsInv, ThreadsOK, Listing, Threads, ProducerStates, WorkerStates, AfterLoop
  <1>8. HandsInv'
    <2>1. fifo[held[w]] # <<>> => Head(fifo[held[w]]) # Nil
      BY <1>0, SeqFacts DEF QueuesOK
    <2>2. QED
      BY ZenonT(60), <1>0, <2>1
      DEF HandsInv, ThreadsOK, SerialOK, WorkOK, Threads, Holding, Carrying, AfterLoop
  <1>9. BusyInv'
    BY <1>0
    DEF BusyInv, SerialOK, HandsInv, SingleConsumer, OnSerial, Holding, serialVars,
        workVars
  <1>10. SingleConsumer'
    BY <1>0
    DEF SingleConsumer, SerialOK, HandsInv, BusyInv, OnSerial, Holding, serialVars,
        workVars
  <1>11. QED
    BY <1>1, <1>2, <1>3, <1>4, <1>5, <1>6, <1>7, <1>8, <1>9, <1>10

LEMMA ReadStateInv ==
    ASSUME IInv, NEW w \in Workers, ReadState(w)
    PROVE  IInv'
  <1> USE PipelineAssumption DEF At, Goto, ReadState, IInv, TypeOK, Freed, peerVars
  <1>0. held[w] \in Peers /\ packet[w] \in Packets /\ PeerOf[packet[w]] \in Peers
    BY DEF SerialOK, WorkOK, HandsInv, Holding, Carrying
  <1>1. ThreadsOK'
    BY <1>0 DEF ThreadsOK, Threads, ProducerStates, WorkerStates, AfterLoop
  <1>2. QueuesOK'
    BY <1>0 DEF QueuesOK, queueVars
  <1>3. RingOK'
    BY <1>0 DEF RingOK
  <1>4. SerialOK'
    BY <1>0 DEF SerialOK, serialVars, workVars
  <1>5. WorkOK'
    <2>1. packet' \in [Workers -> Packets \cup {Nil}]
      BY DEF WorkOK
    <2>2. budget' \in [Workers -> 0 .. PEER_XMIT_PACKETS_PER_ROUND]
      BY DEF WorkOK
    <2>3. more' \in [Workers -> BOOLEAN]
      BY DEF WorkOK
    <2>4. QED
      BY <2>1, <2>2, <2>3 DEF WorkOK
  <1>6. PeersOK'
    BY <1>0 DEF PeersOK, peerVars
  <1>7. ListsInv'
    <2>1. /\ list' = list /\ device' = device
          /\ \/ pc' = [pc EXCEPT ![w] = AfterLoop(w)]
             \/ pc' = [pc EXCEPT ![w] = "handle"]
      OBVIOUS
    <2>2. AfterLoop(w) \in {"retire", "indicate"}
      BY DEF AfterLoop
    <2>3. ListsInv /\ ThreadsOK
      OBVIOUS
    <2> HIDE DEF ReadState, IInv
    <2>4. QED
      BY <2>1, <2>2, <2>3
      DEF ListsInv, ThreadsOK, Listing, Threads, ProducerStates, WorkerStates
  <1>8. HandsInv'
    BY ZenonT(60), <1>0
    DEF HandsInv, ThreadsOK, SerialOK, WorkOK, Threads, workVars, Holding, Carrying,
        AfterLoop
  <1>9. BusyInv'
    BY <1>0
    DEF BusyInv, SerialOK, HandsInv, SingleConsumer, OnSerial, Holding, serialVars,
        workVars
  <1>10. SingleConsumer'
    BY <1>0
    DEF SingleConsumer, SerialOK, HandsInv, BusyInv, OnSerial, Holding, serialVars,
        workVars
  <1>11. QED
    BY <1>1, <1>2, <1>3, <1>4, <1>5, <1>6, <1>7, <1>8, <1>9, <1>10

LEMMA HandleInv ==
    ASSUME IInv, NEW w \in Workers, Handle(w)
    PROVE  IInv'
  <1> USE PipelineAssumption DEF At, Goto, Handle, IInv, TypeOK, Freed, peerVars
  <1>0. held[w] \in Peers /\ packet[w] \in Packets /\ PeerOf[packet[w]] \in Peers
    BY DEF SerialOK, WorkOK, HandsInv, Holding, Carrying
  <1>1. ThreadsOK'
    BY <1>0 DEF ThreadsOK, Threads, ProducerStates, WorkerStates
  <1>2. QueuesOK'
    BY <1>0 DEF QueuesOK, queueVars
  <1>3. RingOK'
    BY <1>0 DEF RingOK
  <1>4. SerialOK'
    BY <1>0 DEF SerialOK, serialVars, workVars
  <1>5. WorkOK'
    <2>1. /\ Append(pending[w], packet[w]) \in Seq(Packets)
          /\ Append(delivered[held[w]], packet[w]) \in Seq(Packets)
      BY <1>0 DEF WorkOK
    <2>2. pending' \in [Workers -> Seq(Packets)]
      BY <2>1 DEF WorkOK
    <2>3. delivered' \in [Peers -> Seq(Packets)]
      BY <1>0, <2>1 DEF WorkOK
    <2>4. QED
      BY <2>2, <2>3 DEF WorkOK
  <1>6. PeersOK'
    BY <1>0 DEF PeersOK, peerVars
  <1>7. ListsInv'
    BY <1>0 DEF ListsInv, ThreadsOK, Listing, Threads, ProducerStates, WorkerStates
  <1>8. HandsInv'
    BY <1>0
    DEF HandsInv, ThreadsOK, SerialOK, WorkOK, Threads, workVars, Holding, Carrying
  <1>9. BusyInv'
    BY <1>0
    DEF BusyInv, SerialOK, HandsInv, SingleConsumer, OnSerial, Holding, serialVars,
        workVars
  <1>10. SingleConsumer'
    BY <1>0
    DEF SingleConsumer, SerialOK, HandsInv, BusyInv, OnSerial, Holding, serialVars,
        workVars
  <1>11. QED
    BY <1>1, <1>2, <1>3, <1>4, <1>5, <1>6, <1>7, <1>8, <1>9, <1>10

LEMMA PutPacketInv ==
    ASSUME IInv, NEW w \in Workers, PutPacket(w)
    PROVE  IInv'
  <1> USE PipelineAssumption DEF At, Goto, PutPacket, IInv, TypeOK, Freed, peerVars
  <1>0. held[w] \in Peers /\ packet[w] \in Packets /\ PeerOf[packet[w]] \in Peers
    BY DEF SerialOK, WorkOK, HandsInv, Holding, Carrying
  <1>1. ThreadsOK'
    BY <1>0 DEF ThreadsOK, Threads, ProducerStates, WorkerStates
  <1>2. QueuesOK'
    BY <1>0 DEF QueuesOK, queueVars
  <1>3. RingOK'
    BY <1>0 DEF RingOK
  <1>4. SerialOK'
    BY <1>0 DEF SerialOK, serialVars, workVars
  <1>5. WorkOK'
    BY <1>0 DEF WorkOK, workVars
  <1>6. PeersOK'
    BY <1>0 DEF PeersOK, peerVars
  <1>7. ListsInv'
    BY <1>0 DEF ListsInv, ThreadsOK, Listing, Threads, ProducerStates, WorkerStates
  <1>8. HandsInv'
    BY <1>0
    DEF HandsInv, ThreadsOK, SerialOK, WorkOK, Threads, workVars, Holding, Carrying
  <1>9. BusyInv'
    BY <1>0
    DEF BusyInv, SerialOK, HandsInv, SingleConsumer, OnSerial, Holding, serialVars,
        workVars
  <1>10. SingleConsumer'
    BY <1>0
    DEF SingleConsumer, SerialOK, HandsInv, BusyInv, OnSerial, Holding, serialVars,
        workVars
  <1>11. QED
    BY <1>1, <1>2, <1>3, <1>4, <1>5, <1>6, <1>7, <1>8, <1>9, <1>10

LEMMA IndicateInv ==
    ASSUME IInv, NEW w \in Workers, Indicate(w)
    PROVE  IInv'
  <1> USE PipelineAssumption DEF At, Goto, Indicate, IInv, TypeOK, Freed, peerVars
  <1>0. held[w] \in Peers
    BY DEF SerialOK, HandsInv, Holding
  <1>1. ThreadsOK'
    BY <1>0 DEF ThreadsOK, Threads, ProducerStates, WorkerStates
  <1>2. QueuesOK'
    BY <1>0 DEF QueuesOK, queueVars
  <1>3. RingOK'
    BY <1>0 DEF RingOK
  <1>4. SerialOK'
    BY <1>0 DEF SerialOK, serialVars, workVars
  <1>5. WorkOK'
    <2>1. delivered[held[w]] \o pending[w] \in Seq(Packets) /\ <<>> \in Seq(Packets)
      BY <1>0 DEF WorkOK
    <2>2. pending' \in [Workers -> Seq(Packets)] /\ delivered' \in [Peers -> Seq(Packets)]
      BY <1>0, <2>1 DEF WorkOK
    <2>3. QED
      BY <2>2 DEF WorkOK
  <1>6. PeersOK'
    BY <1>0 DEF PeersOK, peerVars
  <1>7. ListsInv'
    BY <1>0 DEF ListsInv, ThreadsOK, Listing, Threads, ProducerStates, WorkerStates
  <1>8. HandsInv'
    BY <1>0
    DEF HandsInv, ThreadsOK, SerialOK, WorkOK, Threads, workVars, Holding, Carrying
  <1>9. BusyInv'
    BY <1>0
    DEF BusyInv, SerialOK, HandsInv, SingleConsumer, OnSerial, Holding, serialVars,
        workVars
  <1>10. SingleConsumer'
    BY <1>0
    DEF SingleConsumer, SerialOK, HandsInv, BusyInv, OnSerial, Holding, serialVars,
        workVars
  <1>11. QED
    BY <1>1, <1>2, <1>3, <1>4, <1>5, <1>6, <1>7, <1>8, <1>9, <1>10

LEMMA PeerSerialMaybeRetireInv ==
    ASSUME IInv, NEW w \in Workers, PeerSerialMaybeRetire(w)
    PROVE  IInv'
  <1> USE PipelineAssumption DEF At, Goto, PeerSerialMaybeRetire, IInv, TypeOK, Freed, peerVars
  <1>0. held[w] \in Peers
    BY DEF SerialOK, HandsInv, Holding
  <1>1. ThreadsOK'
    BY <1>0 DEF ThreadsOK, Threads, ProducerStates, WorkerStates
  <1>2. QueuesOK'
    BY <1>0 DEF QueuesOK, queueVars
  <1>3. RingOK'
    BY <1>0 DEF RingOK
  <1>4. SerialOK'
    <2>1. Append(serial, held[w]) \in Seq(Peers)
      BY <1>0 DEF SerialOK
    <2>2. QED
      BY <1>0, <2>1 DEF SerialOK
  <1>5. WorkOK'
    BY <1>0 DEF WorkOK, workVars
  <1>6. PeersOK'
    BY <1>0 DEF PeersOK, peerVars
  <1>7. ListsInv'
    BY <1>0 DEF ListsInv, ThreadsOK, Listing, Threads, ProducerStates, WorkerStates
  <1>8. HandsInv'
    BY <1>0
    DEF HandsInv, ThreadsOK, SerialOK, WorkOK, Threads, workVars, Holding, Carrying
  <1>9. BusyInv' /\ SingleConsumer'
    <2> DEFINE h == held[w]
    <2>1. /\ removal' = removal /\ held' = [held EXCEPT ![w] = Nil]
          /\ \/ serial' = Append(serial, h) /\ busy' = busy
             \/ serial' = serial /\ busy' = busy \ {h}
          /\ BusyInv /\ SingleConsumer
          /\ serial \in Seq(Peers) /\ h \in Peers
          /\ held \in [Workers -> Peers \cup {Nil}]
      BY <1>0 DEF SerialOK
    <2>2. h # Nil /\ h = held[w]
      BY <2>1
    <2> HIDE DEF IInv, TypeOK, Freed, peerVars, PeerSerialMaybeRetire, h
    <2>3. \A q : Freed(q)' <=> Freed(q)
      BY <2>1 DEF Freed
    <2>4. \A v \in Workers : held'[v] # Nil => v # w /\ held'[v] = held[v]
      BY <2>1
    <2>5. ~Freed(h) => /\ h \in busy
                       /\ \A i \in DOMAIN serial : serial[i] # h
                       /\ \A v \in Workers : held'[v] # h
      <3>1. ~Freed(h) => h \in busy
        BY <2>1, <2>2 DEF BusyInv
      <3>2. ~Freed(h) => \A i \in DOMAIN serial : serial[i] # h
        BY <2>1, <2>2 DEF SingleConsumer, OnSerial
      <3>3. ~Freed(h) => \A v \in Workers : held'[v] # h
        BY <2>1, <2>2, <2>4 DEF SingleConsumer
      <3>4. QED
        BY <3>1, <3>2, <3>3
    <2>6. \A u, v \in Workers :
            held'[u] = held'[v] /\ held'[u] # Nil /\ ~Freed(held'[u]) => u = v
      BY <2>1, <2>4 DEF SingleConsumer
    <2>7. \A v \in Workers : \A i \in DOMAIN serial :
            held'[v] # Nil /\ ~Freed(held'[v]) => serial[i] # held'[v]
      BY <2>1, <2>4 DEF SingleConsumer, OnSerial
    <2>8. CASE serial' = Append(serial, h) /\ busy' = busy
      <3>1. /\ DOMAIN serial' = 1 .. Len(serial) + 1 /\ Len(serial) \in Nat
            /\ DOMAIN serial = 1 .. Len(serial)
            /\ \A i \in 1 .. Len(serial) : serial'[i] = serial[i]
            /\ serial'[Len(serial) + 1] = h
        BY <2>1, <2>8
      <3>2. \A i \in DOMAIN serial' :
              \/ i \in DOMAIN serial /\ serial'[i] = serial[i]
              \/ i = Len(serial) + 1 /\ serial'[i] = h
        BY <3>1
      <3>3. \A i \in DOMAIN serial' : ~Freed(serial'[i]) => serial'[i] \in busy'
        BY <2>1, <2>5, <2>8, <3>2 DEF BusyInv
      <3>4. \A i, j \in DOMAIN serial' :
              serial'[i] = serial'[j] /\ ~Freed(serial'[i]) => i = j
        BY <2>1, <2>5, <3>2 DEF BusyInv
      <3>5. \A v \in Workers : held'[v] # Nil /\ ~Freed(held'[v]) => held'[v] \in busy'
        BY <2>1, <2>4, <2>8 DEF BusyInv
      <3>6. BusyInv'
        BY <2>3, <3>3, <3>4, <3>5 DEF BusyInv
      <3>7. \A v \in Workers : \A i \in DOMAIN serial' :
              held'[v] # Nil /\ ~Freed(held'[v]) => serial'[i] # held'[v]
        BY <2>5, <2>7, <3>2
      <3>8. SingleConsumer'
        BY <2>3, <2>6, <3>7 DEF SingleConsumer, OnSerial
      <3>9. QED
        BY <3>6, <3>8
    <2>9. CASE serial' = serial /\ busy' = busy \ {h}
      <3>1. \A i \in DOMAIN serial' : ~Freed(serial'[i]) => serial'[i] \in busy'
        BY <2>1, <2>5, <2>9 DEF BusyInv
      <3>2. \A v \in Workers : held'[v] # Nil /\ ~Freed(held'[v]) => held'[v] \in busy'
        BY <2>1, <2>4, <2>5, <2>9 DEF BusyInv
      <3>3. BusyInv'
        BY <2>1, <2>3, <2>9, <3>1, <3>2 DEF BusyInv
      <3>4. SingleConsumer'
        BY <2>3, <2>6, <2>7, <2>9 DEF SingleConsumer, OnSerial
      <3>5. QED
        BY <3>3, <3>4
    <2>10. QED
      BY <2>1, <2>8, <2>9
  <1>10. QED
    BY <1>1, <1>2, <1>3, <1>4, <1>5, <1>6, <1>7, <1>8, <1>9

LEMMA PeerRemoveInv ==
    ASSUME IInv, NEW p \in Peers, PeerRemove(p)
    PROVE  IInv'
  <1> USE PipelineAssumption DEF At, Goto, PeerRemove, IInv, TypeOK, Freed, peerVars
  <1>1. ThreadsOK'
    BY DEF ThreadsOK, Threads, ProducerStates, WorkerStates, threadVars
  <1>2. QueuesOK'
    BY DEF QueuesOK, queueVars
  <1>3. RingOK'
    BY DEF RingOK
  <1>4. SerialOK'
    BY DEF SerialOK, serialVars, workVars
  <1>5. WorkOK'
    BY DEF WorkOK, workVars
  <1>6. PeersOK'
    BY DEF PeersOK, peerVars
  <1>7. ListsInv'
    BY DEF ListsInv, ThreadsOK, Listing, Threads, ProducerStates, WorkerStates,
        threadVars
  <1>8. HandsInv'
    BY DEF HandsInv, ThreadsOK, SerialOK, WorkOK, Threads, workVars, Holding, Carrying,
        threadVars
  <1>9. BusyInv'
    BY DEF BusyInv, SerialOK, HandsInv, SingleConsumer, OnSerial, Holding, serialVars,
        workVars
  <1>10. SingleConsumer'
    BY DEF SingleConsumer, SerialOK, HandsInv, BusyInv, OnSerial, Holding, serialVars,
        workVars
  <1>11. QED
    BY <1>1, <1>2, <1>3, <1>4, <1>5, <1>6, <1>7, <1>8, <1>9, <1>10

LEMMA PeerRemoveDoneInv ==
    ASSUME IInv, NEW p \in Peers, PeerRemoveDone(p)
    PROVE  IInv'
  <1> USE PipelineAssumption DEF At, Goto, PeerRemoveDone, IInv, TypeOK, Freed, peerVars
  <1>1. ThreadsOK'
    BY DEF ThreadsOK, Threads, ProducerStates, WorkerStates, threadVars
  <1>2. QueuesOK'
    BY DEF QueuesOK, queueVars
  <1>3. RingOK'
    BY DEF RingOK
  <1>4. SerialOK'
    BY DEF SerialOK, serialVars, workVars
  <1>5. WorkOK'
    BY DEF WorkOK, workVars
  <1>6. PeersOK'
    BY DEF PeersOK, peerVars
  <1>7. ListsInv'
    BY DEF ListsInv, ThreadsOK, Listing, Threads, ProducerStates, WorkerStates,
        threadVars
  <1>8. HandsInv'
    BY DEF HandsInv, ThreadsOK, SerialOK, WorkOK, Threads, workVars, Holding, Carrying,
        threadVars
  <1>9. BusyInv'
    BY DEF BusyInv, SerialOK, HandsInv, SingleConsumer, OnSerial, Holding, serialVars,
        workVars
  <1>10. SingleConsumer'
    BY DEF SingleConsumer, SerialOK, HandsInv, BusyInv, OnSerial, Holding, serialVars,
        workVars
  <1>11. QED
    BY <1>1, <1>2, <1>3, <1>4, <1>5, <1>6, <1>7, <1>8, <1>9, <1>10

LEMMA RcuReleaseInv ==
    ASSUME IInv, NEW p \in Peers, RcuRelease(p)
    PROVE  IInv'
  <1> USE PipelineAssumption DEF At, Goto, RcuRelease, IInv, TypeOK, Freed, peerVars
  <1>1. ThreadsOK'
    BY DEF ThreadsOK, Threads, ProducerStates, WorkerStates, threadVars
  <1>2. QueuesOK'
    BY DEF QueuesOK, queueVars
  <1>3. RingOK'
    BY DEF RingOK
  <1>4. SerialOK'
    BY DEF SerialOK, serialVars, workVars
  <1>5. WorkOK'
    BY DEF WorkOK, workVars
  <1>6. PeersOK'
    BY DEF PeersOK, peerVars
  <1>7. ListsInv'
    BY DEF ListsInv, ThreadsOK, Listing, Threads, ProducerStates, WorkerStates,
        threadVars
  <1>8. HandsInv'
    BY DEF HandsInv, ThreadsOK, SerialOK, WorkOK, Threads, workVars, Holding, Carrying,
        threadVars
  <1>9. BusyInv' /\ SingleConsumer'
    <2>1. /\ removal' = [removal EXCEPT ![p] = "freed"]
          /\ busy' = busy \ {p} /\ serial' = serial /\ held' = held
          /\ BusyInv /\ SingleConsumer
          /\ removal \in [Peers -> {"no", "waiting", "removed", "freed"}]
          /\ serial \in Seq(Peers) /\ held \in [Workers -> Peers \cup {Nil}]
      BY DEF SerialOK, PeersOK, workVars
    <2> HIDE DEF IInv, TypeOK, Freed, peerVars, RcuRelease
    <2>2. \A q \in Peers : ~Freed(q)' => ~Freed(q) /\ q # p
      BY <2>1 DEF Freed
    <2>3. \A i \in DOMAIN serial : serial[i] \in Peers
      BY <2>1
    <2>4. \A w \in Workers : held[w] # Nil => held[w] \in Peers
      BY <2>1
    <2>5. \A i \in DOMAIN serial : ~Freed(serial[i])' => serial[i] \in busy'
      BY <2>1, <2>2, <2>3 DEF BusyInv
    <2>6. \A w \in Workers : held[w] # Nil /\ ~Freed(held[w])' => held[w] \in busy'
      BY <2>1, <2>2, <2>4 DEF BusyInv
    <2>7. BusyInv'
      BY <2>1, <2>2, <2>3, <2>5, <2>6 DEF BusyInv
    <2>8. SingleConsumer'
      BY <2>1, <2>2, <2>4 DEF SingleConsumer, OnSerial
    <2>9. QED
      BY <2>7, <2>8
  <1>10. QED
    BY <1>1, <1>2, <1>3, <1>4, <1>5, <1>6, <1>7, <1>8, <1>9

LEMMA NextInv ==
    ASSUME IInv, [Next]_vars
    PROVE  IInv'
  <1>1. ASSUME NEW t \in Producers, StartCall(t) \/ ProducerStep(t)
        PROVE  IInv'
    <2>1. t \in Threads
      BY DEF Threads
    <2>2. QED
      BY <1>1, <2>1, StartCallInv, LookupInv, InsertInv, LinkInv, CleanupInv,
         ProduceInv, BumpInv, PublishInv, PeerSerialEnqueueIfNotBusyInv, PutInv
         DEF ProducerStep, EnqueuePerPeer
  <1>2. ASSUME NEW w \in Workers, WorkerStep(w)
        PROVE  IInv'
    <2>1. w \in Threads
      BY DEF Threads
    <2>2. QED
      BY <1>2, <2>1, PublishInv, PeerSerialEnqueueIfNotBusyInv, PutInv, WakeInv,
         ConsumeInv, PeerSerialDequeueInv, PrevQueuePeekInv, ReadStateInv, HandleInv,
         PutPacketInv, IndicateInv, PeerSerialMaybeRetireInv
         DEF WorkerStep, EnqueuePerPeer
  <1>3. ASSUME NEW p \in Removable, PeerRemove(p) \/ PeerRemoveDone(p) \/ RcuRelease(p)
        PROVE  IInv'
    <2>1. p \in Peers
      BY PipelineAssumption
    <2>2. QED
      BY <1>3, <2>1, PeerRemoveInv, PeerRemoveDoneInv, RcuReleaseInv
  <1>4. CASE UNCHANGED vars
    BY <1>4
    DEF vars, threadVars, queueVars, serialVars, workVars, peerVars, IInv, TypeOK,
       ThreadsOK, QueuesOK, RingOK, SerialOK, WorkOK, PeersOK, ListsInv, HandsInv, BusyInv,
       SingleConsumer, OnSerial, Freed
  <1>5. QED
    BY <1>1, <1>2, <1>3, <1>4 DEF Next

LEMMA InvariantHolds == Spec => []IInv
  <1>1. IInv /\ [Next]_vars => IInv'
    BY NextInv
  <1>2. QED
    BY <1>1, InitInv, PTL DEF Spec

(* Every variable keeps its type, a peer's queue never holds more than
   MAX_QUEUED_PACKETS (PrevQueueEnqueue, queueing.c:170) and the device ring
   never more than its size (PtrRingProduce), for any number of threads.    *)
THEOREM TypeCorrect == Spec => []TypeOK
  <1>1. IInv => TypeOK
    BY DEF IInv
  <1>2. QED
    BY <1>1, InvariantHolds, PTL

(* PeerSerialEnqueueIfNotBusy, PeerSerialDequeue and PeerSerialMaybeRetire give
   a peer to one worker at a time until the peer is freed, for any number of
   workers and peers and whenever grace periods end: the "Single consumer" that
   PrevQueuePeek and PrevQueueDropPeeked ask for.                           *)
THEOREM OneConsumer == Spec => []SingleConsumer
  <1>1. IInv => SingleConsumer
    BY DEF IInv
  <1>2. QED
    BY <1>1, InvariantHolds, PTL

-----------------------------------------------------------------------------
(* InOrder.  Gone(p) packets of inserted[p] have left p's queue; the next is the
   peeked one, if there is one, and the rest is fifo[p].                    *)
Taken(p) == Len(inserted[p]) - Len(fifo[p])
Gone(p) == IF peeked[p] = Nil THEN Taken(p) ELSE Taken(p) - 1

(* The packets that p's worker has dealt with: not the one it is handling. *)
Handled(w) == IF pc[w] = "handle" THEN Gone(held[w]) - 1 ELSE Gone(held[w])

(* The elements of s occur, in their order, among the first b of q. *)
Embedded(s, q, b) ==
    /\ \A i \in DOMAIN s : \E m \in 1 .. b : q[m] = s[i]
    /\ \A i, j \in DOMAIN s : i < j =>
         \E m, n \in 1 .. b : m < n /\ q[m] = s[i] /\ q[n] = s[j]

(* The labels at which a worker may have packets to indicate. *)
Looping == {"peek", "state", "handle", "putPacket", "indicate"}

PlaceInv ==
    \A p \in Peers :
        /\ Gone(p) >= 0
        /\ \A i \in 1 .. Len(fifo[p]) :
             fifo[p][i] = inserted[p][Taken(p) + i]
        /\ peeked[p] # Nil => peeked[p] = inserted[p][Taken(p)]

TakenInv ==
    \A w \in Workers :
        /\ pc[w] \notin Looping \/ dir = "tx" => pending[w] = <<>>
        /\ pc[w] = "state" => packet[w] = peeked[held[w]]
        /\ pc[w] = "handle" =>
             Gone(held[w]) >= 1 /\ packet[w] = inserted[held[w]][Gone(held[w])]

EmbedInv ==
    /\ \A p \in Peers : ~InHand(p) => Embedded(delivered[p], inserted[p], Gone(p))
    /\ \A w \in Workers : held[w] # Nil =>
         Embedded(delivered[held[w]] \o pending[w], inserted[held[w]], Handled(w))

OrderInv == PlaceInv /\ TakenInv /\ EmbedInv

(* A peer is freed when it has no packets left, which whoever still has it in
   hand may have to indicate, but no two of them.                           *)
FreedInv ==
    \A p \in Peers : Freed(p) =>
        /\ fifo[p] = <<>> /\ peeked[p] = Nil
        /\ \A w \in Workers : held[w] = p => pc[w] \notin Carrying
        /\ \A v, w \in Workers : held[v] = p /\ held[w] = p =>
             v = w \/ pending[v] = <<>> \/ pending[w] = <<>>

-----------------------------------------------------------------------------
LEMMA EmbedAppend ==
    ASSUME NEW s \in Seq(Packets), NEW q, NEW b \in Nat, Embedded(s, q, b)
    PROVE  Embedded(Append(s, q[b + 1]), q, b + 1)
<1> DEFINE t == Append(s, q[b + 1])
<1>1. /\ DOMAIN t = 1 .. Len(s) + 1 /\ DOMAIN s = 1 .. Len(s) /\ Len(s) \in Nat
      /\ \A i \in 1 .. Len(s) : t[i] = s[i]
      /\ t[Len(s) + 1] = q[b + 1]
  OBVIOUS
<1> HIDE DEF t
<1>2. \A i \in DOMAIN t : \E m \in 1 .. b + 1 : q[m] = t[i]
  <2> SUFFICES ASSUME NEW i \in DOMAIN t PROVE \E m \in 1 .. b + 1 : q[m] = t[i]
    OBVIOUS
  <2>1. CASE i = Len(s) + 1
    BY <1>1, <2>1
  <2>2. CASE i # Len(s) + 1
    <3>1. i \in DOMAIN s /\ t[i] = s[i]
      BY <1>1, <2>2
    <3>2. PICK m \in 1 .. b : q[m] = s[i]
      BY <3>1 DEF Embedded
    <3> QED
      BY <3>1, <3>2
  <2> QED
    BY <2>1, <2>2
<1>3. ASSUME NEW i \in DOMAIN t, NEW j \in DOMAIN t, i < j
      PROVE  \E m, n \in 1 .. b + 1 : m < n /\ q[m] = t[i] /\ q[n] = t[j]
  <2>1. i \in DOMAIN s /\ t[i] = s[i]
    BY <1>1, <1>3
  <2>2. CASE j = Len(s) + 1
    <3>1. PICK m \in 1 .. b : q[m] = s[i]
      BY <2>1 DEF Embedded
    <3>2. m < b + 1 /\ b + 1 \in 1 .. b + 1 /\ m \in 1 .. b + 1 /\ q[b + 1] = t[j]
      BY <1>1, <2>2
    <3> QED
      BY <2>1, <3>1, <3>2
  <2>3. CASE j # Len(s) + 1
    <3>1. j \in DOMAIN s /\ t[j] = s[j]
      BY <1>1, <2>3
    <3>2. PICK m \in 1 .. b, n \in 1 .. b : m < n /\ q[m] = s[i] /\ q[n] = s[j]
      BY <1>3, <2>1, <3>1 DEF Embedded
    <3> QED
      BY <2>1, <3>1, <3>2
  <2> QED
    BY <2>2, <2>3
<1> QED
  BY <1>2, <1>3 DEF Embedded, t

LEMMA EmbedGrow ==
    ASSUME NEW s, NEW q, NEW r, NEW b \in Nat, NEW c \in Nat, b <= c,
           \A m \in 1 .. b : q[m] = r[m], Embedded(s, q, b)
    PROVE  Embedded(s, r, c)
<1>1. \A m \in 1 .. b : m \in 1 .. c
  OBVIOUS
<1> QED
  BY <1>1 DEF Embedded

(* What is embedded has its beginning embedded. *)
LEMMA EmbedPrefix ==
    ASSUME NEW s \in Seq(Packets), NEW t \in Seq(Packets), NEW q, NEW b \in Nat,
           Embedded(s \o t, q, b)
    PROVE  Embedded(s, q, b)
<1>1. /\ DOMAIN s = 1 .. Len(s) /\ Len(s) \in Nat /\ Len(t) \in Nat
      /\ DOMAIN (s \o t) = 1 .. Len(s) + Len(t)
  BY ConcatProperties
<1>2. DOMAIN s \subseteq DOMAIN (s \o t)
  BY <1>1
<1>3. \A i \in DOMAIN s : (s \o t)[i] = s[i]
  BY <1>1, ConcatProperties
<1> DEFINE u == s \o t
<1>4. Embedded(u, q, b) /\ DOMAIN s \subseteq DOMAIN u /\ \A i \in DOMAIN s : u[i] = s[i]
  BY <1>2, <1>3
<1> HIDE DEF u
<1>5. ASSUME NEW i \in DOMAIN s PROVE \E m \in 1 .. b : q[m] = s[i]
  <2>1. PICK m \in 1 .. b : q[m] = u[i]
    BY <1>4 DEF Embedded
  <2> QED
    BY <1>4, <2>1
<1>6. ASSUME NEW i \in DOMAIN s, NEW j \in DOMAIN s, i < j
      PROVE  \E m, n \in 1 .. b : m < n /\ q[m] = s[i] /\ q[n] = s[j]
  <2>1. PICK m \in 1 .. b, n \in 1 .. b : m < n /\ q[m] = u[i] /\ q[n] = u[j]
    BY <1>4, <1>6 DEF Embedded
  <2> QED
    BY <1>4, <2>1
<1> QED
  BY <1>5, <1>6 DEF Embedded

-----------------------------------------------------------------------------
LEMMA InitOrder == Init => OrderInv
<1> SUFFICES ASSUME Init PROVE OrderInv
  OBVIOUS
<1>1. PlaceInv
  BY DEF Init, PlaceInv, Gone, Taken
<1>2. TakenInv
  BY DEF Init, TakenInv, Looping, Threads
<1>3. EmbedInv
  BY DEF Init, EmbedInv, Embedded
<1> QED
  BY <1>1, <1>2, <1>3 DEF OrderInv

(* A step that touches neither the queues nor what was taken from them. *)
LEMMA OrderUnmoved ==
    ASSUME OrderInv, UNCHANGED <<dir, fifo, peeked, inserted, delivered, held, pending>>,
           \A w \in Workers : pc'[w] = "handle" <=> pc[w] = "handle",
           \A w \in Workers : pc'[w] = "handle" => packet'[w] = packet[w],
           \A w \in Workers : pc'[w] = "state" => packet'[w] = peeked[held[w]],
           \A w \in Workers : pc'[w] \notin Looping => pc[w] \notin Looping \/ pending[w] = <<>>
    PROVE  OrderInv'
<1>1. PlaceInv'
  BY DEF OrderInv, PlaceInv, Gone, Taken
<1>2. TakenInv'
  BY DEF OrderInv, TakenInv, Gone, Taken
<1>3. EmbedInv'
  BY DEF OrderInv, EmbedInv, Gone, Taken, Handled, InHand
<1> QED
  BY <1>1, <1>2, <1>3 DEF OrderInv

(* The producers' steps but Insert, which are also a worker's with a list. *)
LEMMA ListOrder ==
    ASSUME IInv, OrderInv, NEW t \in Threads,
           \/ t \in Producers /\ (StartCall(t) \/ Lookup(t) \/ Link(t) \/ Cleanup(t)
                                    \/ Produce(t) \/ Bump(t))
           \/ Publish(t) \/ PeerSerialEnqueueIfNotBusy(t) \/ Put(t)
    PROVE  OrderInv'
<1>1. UNCHANGED <<dir, fifo, peeked, inserted, delivered, held, pending, packet>>
  BY DEF StartCall, Lookup, Link, Cleanup, Produce, Bump, Publish,
     PeerSerialEnqueueIfNotBusy, Put, queueVars, workVars
<1>2. \A w \in Workers :
        \/ pc'[w] = pc[w]
        \/ pc[w] \notin Looping /\ pc'[w] \in {"enqueue", "put", "publish", "dequeue", "bump"}
  BY PipelineAssumption
     DEF StartCall, Lookup, Link, Cleanup, Produce, Bump, Publish,
         PeerSerialEnqueueIfNotBusy, Put, Goto, At, Looping, IInv, TypeOK, ThreadsOK, Threads
<1> QED
  BY <1>1, <1>2, OrderUnmoved DEF OrderInv, TakenInv, Looping

(* The workers' steps outside the loop of a peer. *)
LEMMA IdleOrder ==
    ASSUME IInv, OrderInv, NEW w \in Workers,
           Wake(w) \/ Consume(w) \/ PutPacket(w)
    PROVE  OrderInv'
<1>1. UNCHANGED <<dir, fifo, peeked, inserted, delivered, held, pending>>
  BY DEF Wake, Consume, PutPacket, queueVars, workVars
<1>2. /\ \A v \in Workers \ {w} : pc'[v] = pc[v] /\ packet'[v] = packet[v]
      /\ \/ pc[w] \notin Looping /\ pc'[w] \in {"consume", "publish", "dequeue"}
         \/ pc[w] = "putPacket" /\ pc'[w] = "peek"
  BY DEF Wake, Consume, PutPacket, Goto, At, workVars, Looping, IInv, TypeOK, ThreadsOK,
     Threads, WorkOK
<1> QED
  BY <1>1, <1>2, OrderUnmoved DEF OrderInv, TakenInv, Looping

(* PeerRemove and RcuRelease. *)
LEMMA RemovalOrder ==
    ASSUME OrderInv, NEW p \in Peers, PeerRemove(p) \/ PeerRemoveDone(p) \/ RcuRelease(p)
    PROVE  OrderInv'
<1>1. UNCHANGED <<dir, fifo, peeked, inserted, delivered, held, pending, packet, pc>>
  BY DEF PeerRemove, PeerRemoveDone, RcuRelease, queueVars, workVars, threadVars
<1> QED
  BY <1>1, OrderUnmoved DEF OrderInv, TakenInv

(* A step of worker w, which holds p, that touches no other peer's queue, and
   after which p's is still as it should be.                                *)
StepAt(w, p) ==
    /\ dir' = dir /\ held[w] = p /\ held' = held
    /\ \A v \in Workers \ {w} :
         pc'[v] = pc[v] /\ packet'[v] = packet[v] /\ pending'[v] = pending[v]
    /\ \A q \in Peers \ {p} : /\ fifo'[q] = fifo[q] /\ peeked'[q] = peeked[q]
                              /\ inserted'[q] = inserted[q] /\ delivered'[q] = delivered[q]
    /\ Gone(p)' >= 0
    /\ \A i \in 1 .. Len(fifo'[p]) : fifo'[p][i] = inserted'[p][Taken(p)' + i]
    /\ peeked'[p] # Nil => peeked'[p] = inserted'[p][Taken(p)']
    /\ pc'[w] \notin Looping \/ dir = "tx" => pending'[w] = <<>>
    /\ pc'[w] = "state" => packet'[w] = peeked'[p]
    /\ pc'[w] = "handle" => Gone(p)' >= 1 /\ packet'[w] = inserted'[p][Gone(p)']
    /\ Embedded(delivered'[p] \o pending'[w], inserted'[p], Handled(w)')

LEMMA OrderAt ==
    ASSUME IInv, OrderInv, NEW w \in Workers, NEW p \in Peers, StepAt(w, p), ~Freed(p)
    PROVE  OrderInv'
<1> USE DEF StepAt
<1>1. \A v \in Workers \ {w} : held[v] # p
  BY PipelineAssumption DEF IInv, SingleConsumer
<1>2. \A q \in Peers \ {p} : Gone(q)' = Gone(q) /\ Taken(q)' = Taken(q)
  BY DEF Gone, Taken
<1>3. held \in [Workers -> Peers \cup {Nil}] /\ Nil \notin Peers /\ held[w] # Nil
  BY PipelineAssumption DEF IInv, TypeOK, SerialOK
<1>4. PlaceInv'
  <2>1. ASSUME NEW q \in Peers
        PROVE  /\ Gone(q)' >= 0
               /\ \A i \in 1 .. Len(fifo'[q]) :
                    fifo'[q][i] = inserted'[q][Taken(q)' + i]
               /\ peeked'[q] # Nil =>
                    peeked'[q] = inserted'[q][Taken(q)']
    <3>1. CASE q = p
      BY <3>1
    <3>2. CASE q # p
      <4>1. /\ Gone(q)' = Gone(q) /\ Taken(q)' = Taken(q)
            /\ fifo'[q] = fifo[q] /\ inserted'[q] = inserted[q] /\ peeked'[q] = peeked[q]
        BY <1>2, <3>2
      <4> QED
        BY <4>1 DEF OrderInv, PlaceInv
    <3> QED
      BY <3>1, <3>2
  <2> QED
    BY <2>1 DEF PlaceInv
<1>5. ASSUME NEW v \in Workers \ {w}
      PROVE  /\ pc'[v] \notin Looping \/ dir' = "tx" => pending'[v] = <<>>
             /\ pc'[v] = "state" => packet'[v] = peeked'[held'[v]]
             /\ pc'[v] = "handle" =>
                  Gone(held[v])' >= 1 /\ packet'[v] = inserted'[held'[v]][Gone(held[v])']
             /\ held'[v] # Nil =>
                  Embedded(delivered'[held'[v]] \o pending'[v], inserted'[held'[v]],
                           Handled(v)')
  <2>1. CASE held[v] = Nil
    BY <2>1 DEF OrderInv, TakenInv, IInv, HandsInv, Holding
  <2>2. CASE held[v] # Nil
    <3>1. held[v] \in Peers \ {p}
      BY <1>1, <1>3, <2>2
    <3>2. Handled(v)' = Handled(v)
      BY <1>2, <3>1 DEF Handled
    <3> QED
      BY <1>2, <2>2, <3>1, <3>2 DEF OrderInv, TakenInv, EmbedInv
  <2> QED
    BY <2>1, <2>2
<1>6. TakenInv'
  BY <1>5 DEF TakenInv
<1>7. EmbedInv'
  <2>1. \A q \in Peers : ~InHand(q)' => q # p /\ ~InHand(q)
    BY DEF InHand
  <2>2. \A q \in Peers : ~InHand(q)' => Embedded(delivered'[q], inserted'[q], Gone(q)')
    BY <1>2, <2>1 DEF OrderInv, EmbedInv
  <2> QED
    BY <1>5, <2>2 DEF EmbedInv
<1> QED
  BY <1>4, <1>6, <1>7 DEF OrderInv

(* The lengths of a peer's queue and of its history. *)
LEMMA QueueFacts ==
    ASSUME IInv, OrderInv, NEW p \in Peers
    PROVE  /\ inserted[p] \in Seq(Packets) /\ Len(inserted[p]) \in Nat
           /\ fifo[p] \in Seq(Packets) /\ Len(fifo[p]) \in Nat
           /\ delivered[p] \in Seq(Packets)
           /\ Gone(p) \in Nat /\ Gone(p) <= Len(inserted[p])
           /\ Taken(p) \in Nat /\ Taken(p) <= Len(inserted[p])
           /\ peeked[p] = Nil => Gone(p) = Taken(p)
           /\ peeked[p] # Nil => Gone(p) = Taken(p) - 1
           /\ \A i \in 1 .. Len(fifo[p]) :
                fifo[p][i] = inserted[p][Taken(p) + i]
           /\ peeked[p] # Nil => peeked[p] = inserted[p][Taken(p)]
<1>1. /\ inserted[p] \in Seq(Packets) /\ fifo[p] \in Seq(Packets)
      /\ delivered[p] \in Seq(Packets)
  BY DEF IInv, TypeOK, QueuesOK, WorkOK
<1>2. Len(inserted[p]) \in Nat /\ Len(fifo[p]) \in Nat
  BY <1>1
<1>3. /\ Gone(p) >= 0
      /\ \A i \in 1 .. Len(fifo[p]) :
           fifo[p][i] = inserted[p][Taken(p) + i]
      /\ peeked[p] # Nil => peeked[p] = inserted[p][Taken(p)]
  BY DEF OrderInv, PlaceInv
<1>4. /\ peeked[p] = Nil => Gone(p) = Taken(p)
      /\ peeked[p] # Nil => Gone(p) = Taken(p) - 1
  BY DEF Gone
<1>5. /\ Gone(p) \in Nat /\ Gone(p) <= Len(inserted[p])
      /\ Taken(p) \in Nat /\ Taken(p) <= Len(inserted[p])
  <2>1. PICK a \in Nat, b \in Nat : a = Len(inserted[p]) /\ b = Len(fifo[p])
    BY <1>2
  <2>2. Taken(p) = a - b
    BY <2>1 DEF Taken
  <2>3. CASE peeked[p] = Nil
    <3>1. Gone(p) = a - b
      BY <1>4, <2>2, <2>3
    <3>2. a - b >= 0
      BY <1>3, <3>1
    <3>3. a - b \in Nat /\ a - b <= a
      BY <3>2
    <3> QED
      BY <2>1, <2>2, <3>1, <3>3
  <2>4. CASE peeked[p] # Nil
    <3>1. Gone(p) = a - b - 1
      BY <1>4, <2>2, <2>4
    <3>2. a - b - 1 >= 0
      BY <1>3, <3>1
    <3>3. a - b \in Nat /\ a - b <= a /\ a - b - 1 \in Nat /\ a - b - 1 <= a
      BY <3>2
    <3> QED
      BY <2>1, <2>2, <3>1, <3>3
  <2> QED
    BY <2>3, <2>4
<1> QED
  BY <1>1, <1>2, <1>3, <1>4, <1>5

LEMMA InsertOrder ==
    ASSUME IInv, OrderInv, NEW t \in Producers, Insert(t)
    PROVE  OrderInv'
<1> DEFINE k == Head(list[t])
           p == PeerOf[k]
<1>0. UNCHANGED <<dir, peeked, delivered, held, pending, packet>>
  BY DEF Insert, queueVars, workVars
<1>1. \A w \in Workers : pc'[w] = pc[w]
  BY PipelineAssumption DEF Insert, Goto, IInv, TypeOK, ThreadsOK, Threads
<1>2. CASE UNCHANGED <<fifo, inserted>>
  BY <1>0, <1>1, <1>2, OrderUnmoved DEF OrderInv, TakenInv
<1>3. CASE ~UNCHANGED <<fifo, inserted>>
  <2>1. /\ fifo' = [fifo EXCEPT ![p] = Append(@, k)]
        /\ inserted' = [inserted EXCEPT ![p] = Append(@, k)]
    BY <1>3 DEF Insert, queueVars
  <2>2. k \in Packets /\ p \in Peers
    <3>1. list[t] # <<>> /\ list[t] \in Seq(Packets)
      BY DEF Insert, At, IInv, ListsInv, Listing, TypeOK, ThreadsOK, Threads
    <3>2. k \in Packets
      BY <3>1
    <3> QED
      BY <3>2, PipelineAssumption
  <2> HIDE DEF k, p
  <2>3. ASSUME NEW q \in Peers
        PROVE  /\ Gone(q)' = Gone(q)
               /\ \A m \in 1 .. Len(inserted[q]) : inserted[q][m] = inserted'[q][m]
               /\ Taken(q) = Taken(q)'
               /\ \A i \in 1 .. Len(fifo'[q]) :
                    fifo'[q][i] = inserted'[q][Taken(q)' + i]
    <3>1. /\ Len(inserted[q]) \in Nat /\ Len(fifo[q]) \in Nat /\ Taken(q) \in Nat
          /\ inserted[q] \in Seq(Packets) /\ fifo[q] \in Seq(Packets)
          /\ Taken(q) >= 0
          /\ \A i \in 1 .. Len(fifo[q]) :
               fifo[q][i] = inserted[q][Taken(q) + i]
      BY QueueFacts
    <3>2. fifo \in [Peers -> Seq(Packets)] /\ inserted \in [Peers -> Seq(Packets)]
      BY DEF IInv, TypeOK, QueuesOK
    <3>3. CASE q = p
      <4>1. fifo'[q] = Append(fifo[q], k) /\ inserted'[q] = Append(inserted[q], k)
        BY <2>1, <3>2, <3>3
      <4>2. /\ Len(fifo'[q]) = Len(fifo[q]) + 1 /\ Len(inserted'[q]) = Len(inserted[q]) + 1
            /\ \A i \in 1 .. Len(fifo[q]) : fifo'[q][i] = fifo[q][i]
            /\ \A i \in 1 .. Len(inserted[q]) : inserted'[q][i] = inserted[q][i]
            /\ fifo'[q][Len(fifo[q]) + 1] = k /\ inserted'[q][Len(inserted[q]) + 1] = k
        BY <2>2, <3>1, <4>1, AppendProperties
      <4>3. Taken(q) = Taken(q)'
        BY <3>1, <4>2 DEF Taken
      <4>4. Gone(q)' = Gone(q)
        BY <1>0, <4>3 DEF Gone
      <4>5. ASSUME NEW i \in 1 .. Len(fifo'[q])
            PROVE  fifo'[q][i] = inserted'[q][Taken(q) + i]
        <5>0. Taken(q) + Len(fifo[q]) = Len(inserted[q])
          BY <3>1 DEF Taken
        <5>1. CASE i = Len(fifo[q]) + 1
          <6>1. \A d, f, m \in Nat : d + f = m => d + (f + 1) = m + 1
            OBVIOUS
          <6>2. Taken(q) + i = Len(inserted[q]) + 1
            BY <3>1, <5>0, <5>1, <6>1
          <6> QED
            BY <4>2, <5>1, <6>2
        <5>2. CASE i # Len(fifo[q]) + 1
          <6>1. i \in 1 .. Len(fifo[q])
            BY <3>1, <4>2, <5>2
          <6>2. Taken(q) + i \in 1 .. Len(inserted[q])
            BY <3>1, <5>0, <6>1
          <6> QED
            BY <3>1, <4>2, <6>1, <6>2
        <5> QED
          BY <5>1, <5>2
      <4> QED
        BY <4>2, <4>3, <4>4, <4>5
    <3>4. CASE q # p
      <4>1. fifo'[q] = fifo[q] /\ inserted'[q] = inserted[q]
        BY <2>1, <3>2, <3>4
      <4> QED
        BY <1>0, <3>1, <4>1 DEF Gone, Taken
    <3> QED
      BY <3>3, <3>4
  <2>4. PlaceInv'
    <3> SUFFICES ASSUME NEW q \in Peers
                 PROVE  /\ Gone(q)' >= 0
                        /\ \A i \in 1 .. Len(fifo'[q]) :
                             fifo'[q][i] = inserted'[q][Taken(q)' + i]
                        /\ peeked'[q] # Nil =>
                             peeked'[q] = inserted'[q][Taken(q)']
      BY DEF PlaceInv
    <3>1. peeked[q] # Nil => Taken(q) \in 1 .. Len(inserted[q])
      <4>1. /\ Taken(q) \in Nat /\ Gone(q) \in Nat /\ Len(inserted[q]) \in Nat
            /\ Taken(q) <= Len(inserted[q])
            /\ peeked[q] # Nil => Gone(q) = Taken(q) - 1
        BY QueueFacts
      <4> QED
        BY <4>1
    <3>2. Gone(q) >= 0
      BY DEF OrderInv, PlaceInv
    <3>3. peeked[q] # Nil => peeked[q] = inserted[q][Taken(q)]
      BY DEF OrderInv, PlaceInv
    <3> QED
      BY <1>0, <2>3, <3>1, <3>2, <3>3
  <2>5. \A w \in Workers : held[w] # Nil => held[w] \in Peers
    BY DEF IInv, TypeOK, SerialOK
  <2>6. TakenInv'
    <3>1. ASSUME NEW w \in Workers, pc[w] = "handle"
          PROVE  Gone(held[w])' >= 1 /\ packet'[w] = inserted'[held'[w]][Gone(held[w])']
      <4>1. held[w] \in Peers
        BY <2>5, <3>1 DEF IInv, HandsInv, Holding
      <4>2. Gone(held[w]) \in 1 .. Len(inserted[held[w]])
        BY <3>1, <4>1, QueueFacts DEF OrderInv, TakenInv
      <4> QED
        BY <1>0, <2>3, <3>1, <4>1, <4>2 DEF OrderInv, TakenInv
    <3> QED
      BY <1>0, <1>1, <3>1 DEF OrderInv, TakenInv
  <2>7. EmbedInv'
    <3>1. ASSUME NEW q \in Peers, NEW s, NEW b \in Nat, b <= Gone(q),
                 Embedded(s, inserted[q], b)
          PROVE  Embedded(s, inserted'[q], b)
      <4>1. \A m \in 1 .. b : inserted[q][m] = inserted'[q][m]
        <5>1. /\ Gone(q) \in Nat /\ Len(inserted[q]) \in Nat
              /\ Gone(q) <= Len(inserted[q])
          BY QueueFacts
        <5>2. \A m \in 1 .. b : m \in 1 .. Len(inserted[q])
          BY <3>1, <5>1
        <5> QED
          BY <2>3, <5>2
      <4>2. b <= b
        BY <3>1
      <4> QED
        BY <3>1, <4>1, <4>2, EmbedGrow
    <3>2. ASSUME NEW q \in Peers, ~InHand(q)'
          PROVE  Embedded(delivered'[q], inserted'[q], Gone(q)')
      <4>1. ~InHand(q)
        BY <1>0, <3>2 DEF InHand
      <4>2. Embedded(delivered[q], inserted[q], Gone(q))
        BY <4>1 DEF OrderInv, EmbedInv
      <4>3. Gone(q) \in Nat /\ Gone(q) <= Gone(q)
        BY QueueFacts
      <4>4. Gone(q)' = Gone(q) /\ delivered'[q] = delivered[q]
        BY <1>0, <2>3
      <4> QED
        BY <3>1, <4>2, <4>3, <4>4
    <3>3. ASSUME NEW w \in Workers, held'[w] # Nil
          PROVE  Embedded(delivered'[held'[w]] \o pending'[w], inserted'[held'[w]],
                          Handled(w)')
      <4>1. held[w] \in Peers /\ held'[w] = held[w]
        BY <1>0, <2>5, <3>3
      <4>2. Handled(w)' = Handled(w)
        BY <1>1, <2>3, <4>1 DEF Handled
      <4>3. Handled(w) \in Nat /\ Handled(w) <= Gone(held[w])
        BY <4>1, QueueFacts DEF Handled, OrderInv, TakenInv
      <4>4. Embedded(delivered[held[w]] \o pending[w], inserted[held[w]], Handled(w))
        BY <3>3, <4>1 DEF OrderInv, EmbedInv
      <4> QED
        BY <1>0, <3>1, <4>1, <4>2, <4>3, <4>4
    <3> QED
      BY <3>2, <3>3 DEF EmbedInv
  <2> QED
    BY <2>4, <2>6, <2>7 DEF OrderInv
<1> QED
  BY <1>2, <1>3

LEMMA AppendConcat ==
    ASSUME NEW s \in Seq(Packets), NEW t \in Seq(Packets), NEW k \in Packets
    PROVE  s \o Append(t, k) = Append(s \o t, k)
<1>1. <<k>> \in Seq(Packets) /\ s \o t \in Seq(Packets)
  OBVIOUS
<1>2. Append(t, k) = t \o <<k>>
  BY AppendIsConcat
<1>3. s \o (t \o <<k>>) = (s \o t) \o <<k>>
  BY <1>1, ConcatAssociative
<1>4. Append(s \o t, k) = (s \o t) \o <<k>>
  BY <1>1, AppendIsConcat
<1> QED
  BY <1>2, <1>3, <1>4

(* What a worker that holds p knows of it. *)
LEMMA HeldFacts ==
    ASSUME IInv, OrderInv, NEW w \in Workers, pc[w] \in Holding
    PROVE  /\ held[w] \in Peers /\ held[w] # Nil
           /\ pending[w] \in Seq(Packets)
           /\ Embedded(delivered[held[w]] \o pending[w], inserted[held[w]], Handled(w))
           /\ pc[w] # "handle" => Handled(w) = Gone(held[w])
           /\ pc[w] = "handle" => Handled(w) = Gone(held[w]) - 1
<1>1. held[w] # Nil /\ held[w] \in Peers
  BY DEF IInv, HandsInv, TypeOK, SerialOK
<1> QED
  BY <1>1 DEF OrderInv, EmbedInv, Handled, IInv, TypeOK, WorkOK

(* What has been delivered is what has left the queue, in hand or not. *)
LEMMA DeliveredFacts ==
    ASSUME IInv, OrderInv, NEW p \in Peers
    PROVE  Embedded(delivered[p], inserted[p], Gone(p))
<1>1. CASE InHand(p)
  <2>1. PICK w \in Workers : held[w] = p
    BY <1>1 DEF InHand
  <2>2. /\ p # Nil /\ delivered[p] \in Seq(Packets) /\ pending[w] \in Seq(Packets)
        /\ Embedded(delivered[p] \o pending[w], inserted[p], Handled(w))
    BY <2>1, PipelineAssumption DEF OrderInv, EmbedInv, IInv, TypeOK, WorkOK
  <2>3. /\ Gone(p) \in Nat /\ Handled(w) \in Nat /\ Handled(w) <= Gone(p)
    BY <2>1, QueueFacts DEF Handled, OrderInv, TakenInv
  <2>4. Embedded(delivered[p], inserted[p], Handled(w))
    BY <2>2, <2>3, EmbedPrefix
  <2> QED
    BY <2>3, <2>4, EmbedGrow
<1>2. CASE ~InHand(p)
  BY <1>2 DEF OrderInv, EmbedInv
<1> QED
  BY <1>1, <1>2

LEMMA DequeueOrder ==
    ASSUME IInv, OrderInv, NEW w \in Workers, PeerSerialDequeue(w)
    PROVE  OrderInv'
<1> DEFINE p == Head(serial)
<1>0. /\ UNCHANGED <<dir, fifo, peeked, inserted, delivered, pending, packet>>
      /\ pc[w] = "dequeue" /\ pc' = [pc EXCEPT ![w] = pc'[w]]
      /\ \A v \in Workers \ {w} : pc'[v] = pc[v]
  BY DEF PeerSerialDequeue, queueVars, Goto, At, IInv, TypeOK, ThreadsOK, Threads
<1>1. CASE held' = held
  <2>1. pc'[w] \in {"wait", "consume", "peek"}
    BY <1>0 DEF PeerSerialDequeue, Goto, IInv, TypeOK, ThreadsOK, Threads
  <2> QED
    BY <1>0, <1>1, <2>1, OrderUnmoved DEF OrderInv, TakenInv, Looping
<1>2. CASE held' # held
  <2>1. /\ serial # <<>> /\ held' = [held EXCEPT ![w] = p] /\ pc'[w] = "peek"
    BY <1>0, <1>2 DEF PeerSerialDequeue, Goto, IInv, TypeOK, ThreadsOK, Threads
  <2>2. p \in Peers /\ p # Nil
    BY <2>1, PipelineAssumption DEF IInv, TypeOK, SerialOK
  <2>3. /\ held'[w] = p /\ \A v \in Workers \ {w} : held'[v] = held[v]
        /\ \A q \in Peers : Gone(q)' = Gone(q) /\ Taken(q)' = Taken(q)
        /\ pending[w] = <<>>
    BY <1>0, <2>1 DEF Gone, Taken, OrderInv, TakenInv, Looping, IInv, TypeOK, SerialOK
  <2> HIDE DEF p
  <2>4. PlaceInv'
    BY <1>0, <2>3 DEF OrderInv, PlaceInv
  <2>5. TakenInv'
    <3>1. ASSUME NEW v \in Workers
          PROVE  /\ pc'[v] \notin Looping \/ dir' = "tx" => pending'[v] = <<>>
                 /\ pc'[v] = "state" => packet'[v] = peeked'[held'[v]]
                 /\ pc'[v] = "handle" =>
                      Gone(held[v])' >= 1 /\ packet'[v] = inserted'[held'[v]][Gone(held[v])']
      <4>1. CASE v = w
        BY <1>0, <2>1, <2>3, <4>1
      <4>2. CASE v # w
        <5>1. pc[v] = "handle" => held[v] \in Peers
          BY DEF IInv, HandsInv, Holding, TypeOK, SerialOK
        <5>2. pc'[v] = pc[v] /\ held'[v] = held[v] /\ packet'[v] = packet[v]
              /\ pending'[v] = pending[v]
          BY <1>0, <2>3, <4>2
        <5>3. pc[v] = "handle" => Gone(held[v])' = Gone(held[v])
          BY <2>3, <5>1, <5>2
        <5> QED
          BY <1>0, <5>2, <5>3 DEF OrderInv, TakenInv
      <4> QED
        BY <4>1, <4>2
    <3> QED
      BY <3>1 DEF TakenInv
  <2>6. EmbedInv'
    <3>1. ASSUME NEW q \in Peers, ~InHand(q)'
          PROVE  Embedded(delivered'[q], inserted'[q], Gone(q)')
      <4>1. held[w] = Nil
        BY <1>0 DEF IInv, HandsInv, Holding
      <4>2. ~InHand(q)
        BY <2>3, <3>1, <4>1, PipelineAssumption DEF InHand
      <4> QED
        BY <1>0, <2>3, <4>2 DEF OrderInv, EmbedInv
    <3>2. ASSUME NEW v \in Workers, held'[v] # Nil
          PROVE  Embedded(delivered'[held'[v]] \o pending'[v], inserted'[held'[v]],
                          Handled(v)')
      <4>1. CASE v = w
        <5>1. Handled(v)' = Gone(p)
          BY <2>1, <2>2, <2>3, <4>1 DEF Handled
        <5>2. delivered[p] \in Seq(Packets)
          BY <2>2 DEF IInv, TypeOK, WorkOK
        <5>3. delivered'[p] \o pending'[v] = delivered[p]
          BY <1>0, <2>3, <4>1, <5>2, ConcatEmptySeq
        <5>4. Embedded(delivered[p], inserted[p], Gone(p))
          BY <2>2, DeliveredFacts
        <5> QED
          BY <1>0, <2>3, <4>1, <5>1, <5>3, <5>4
      <4>2. CASE v # w
        <5>1. held'[v] = held[v] /\ held[v] \in Peers /\ pc'[v] = pc[v]
          BY <1>0, <2>3, <3>2, <4>2 DEF IInv, TypeOK, SerialOK
        <5>2. Handled(v)' = Handled(v)
          BY <2>3, <5>1 DEF Handled
        <5>3. Embedded(delivered[held[v]] \o pending[v], inserted[held[v]], Handled(v))
          BY <3>2, <5>1 DEF OrderInv, EmbedInv
        <5> QED
          BY <1>0, <5>1, <5>2, <5>3
      <4> QED
        BY <4>1, <4>2
    <3> QED
      BY <3>1, <3>2 DEF EmbedInv
  <2> QED
    BY <2>4, <2>5, <2>6 DEF OrderInv
<1> QED
  BY <1>1, <1>2

LEMMA RetireOrder ==
    ASSUME IInv, OrderInv, NEW w \in Workers, PeerSerialMaybeRetire(w)
    PROVE  OrderInv'
<1> DEFINE p == held[w]
<1>0. /\ UNCHANGED <<dir, fifo, peeked, inserted, delivered, pending, packet>>
      /\ pc[w] = "retire" /\ pc'[w] = "dequeue" /\ held'[w] = Nil
      /\ \A v \in Workers \ {w} : pc'[v] = pc[v] /\ held'[v] = held[v]
  BY DEF PeerSerialMaybeRetire, queueVars, Goto, At, IInv, TypeOK, ThreadsOK, Threads,
      SerialOK
<1>1. \A q \in Peers : Gone(q)' = Gone(q) /\ Taken(q)' = Taken(q)
  BY <1>0 DEF Gone, Taken
<1>2. /\ p \in Peers /\ pending[w] = <<>> /\ delivered[p] \in Seq(Packets)
      /\ Embedded(delivered[p] \o pending[w], inserted[p], Gone(p))
  BY <1>0, HeldFacts DEF Holding, OrderInv, TakenInv, Looping, IInv, TypeOK, WorkOK
<1>3. Embedded(delivered[p], inserted[p], Gone(p))
  BY <1>2, ConcatEmptySeq
<1> HIDE DEF p
<1>4. PlaceInv'
  BY <1>0, <1>1 DEF OrderInv, PlaceInv
<1>5. ASSUME NEW v \in Workers
      PROVE  /\ pc'[v] \notin Looping \/ dir' = "tx" => pending'[v] = <<>>
             /\ pc'[v] = "state" => packet'[v] = peeked'[held'[v]]
             /\ pc'[v] = "handle" =>
                  Gone(held[v])' >= 1 /\ packet'[v] = inserted'[held'[v]][Gone(held[v])']
             /\ held'[v] # Nil =>
                  Embedded(delivered'[held'[v]] \o pending'[v], inserted'[held'[v]],
                           Handled(v)')
  <2>1. CASE v = w
    BY <1>0, <1>2, <2>1
  <2>2. CASE v # w
    <3>1. /\ pc'[v] = pc[v] /\ held'[v] = held[v] /\ packet'[v] = packet[v]
          /\ pending'[v] = pending[v]
      BY <1>0, <2>2
    <3>2. held[v] = Nil => pc[v] # "handle"
      BY DEF IInv, HandsInv, Holding
    <3>3. held[v] # Nil => held[v] \in Peers
      BY DEF IInv, TypeOK, SerialOK
    <3>4. held[v] # Nil => Gone(held[v])' = Gone(held[v]) /\ Handled(v)' = Handled(v)
      BY <1>1, <3>1, <3>3 DEF Handled
    <3> QED
      BY <1>0, <3>1, <3>2, <3>4 DEF OrderInv, TakenInv, EmbedInv
  <2> QED
    BY <2>1, <2>2
<1>6. TakenInv'
  BY <1>5 DEF TakenInv
<1>7. ASSUME NEW q \in Peers, ~InHand(q)'
      PROVE  Embedded(delivered'[q], inserted'[q], Gone(q)')
  <2>1. CASE q = p
    BY <1>0, <1>1, <1>3, <2>1
  <2>2. CASE q # p
    <3>1. ~InHand(q)
      BY <1>0, <1>7, <2>2 DEF InHand, p
    <3> QED
      BY <1>0, <1>1, <3>1 DEF OrderInv, EmbedInv
  <2> QED
    BY <2>1, <2>2
<1> QED
  BY <1>4, <1>5, <1>6, <1>7 DEF OrderInv, EmbedInv

LEMMA PeekOrder ==
    ASSUME IInv, OrderInv, FreedInv, NEW w \in Workers, PrevQueuePeek(w)
    PROVE  OrderInv'
<1>0. /\ UNCHANGED <<dir, inserted, delivered, held, pending>>
      /\ pc[w] = "peek" /\ pc'[w] \in {"state", "retire", "indicate"}
      /\ pc'[w] = "retire" => pending[w] = <<>>
      /\ \A v \in Workers \ {w} : pc'[v] = pc[v] /\ packet'[v] = packet[v]
  BY DEF PrevQueuePeek, AfterLoop, Goto, At, IInv, TypeOK, ThreadsOK, Threads, WorkOK
<1>1. /\ held[w] \in Peers /\ pending[w] \in Seq(Packets) /\ Handled(w) = Gone(held[w])
      /\ Embedded(delivered[held[w]] \o pending[w], inserted[held[w]], Handled(w))
  BY <1>0, HeldFacts DEF Holding
<1>2. CASE UNCHANGED <<fifo, peeked>>
  <2>1. pc'[w] = "state" => packet'[w] = peeked[held[w]]
    BY <1>1, <1>2
    DEF PrevQueuePeek, AfterLoop, Goto, IInv, TypeOK, ThreadsOK, Threads, WorkOK,
       QueuesOK
  <2> QED
    BY <1>0, <1>2, <2>1, OrderUnmoved DEF OrderInv, TakenInv, Looping
<1>3. CASE ~UNCHANGED <<fifo, peeked>>
  <2> DEFINE p == held[w]
             k == Head(fifo[p])
  <2>1. /\ peeked[p] = Nil /\ fifo[p] # <<>> /\ packet' = [packet EXCEPT ![w] = k]
        /\ peeked' = [peeked EXCEPT ![p] = k] /\ fifo' = [fifo EXCEPT ![p] = Tail(@)]
        /\ pc'[w] = "state"
    BY <1>3 DEF PrevQueuePeek, Goto, IInv, TypeOK, ThreadsOK, Threads
  <2>2. /\ inserted[p] \in Seq(Packets) /\ Len(inserted[p]) \in Nat
        /\ fifo[p] \in Seq(Packets) /\ Len(fifo[p]) \in Nat
        /\ Gone(p) \in Nat /\ Gone(p) = Taken(p)
        /\ \A i \in 1 .. Len(fifo[p]) : fifo[p][i] = inserted[p][Taken(p) + i]
    BY <1>1, <2>1, QueueFacts
  <2>3. /\ k \in Packets /\ k # Nil /\ k = fifo[p][1] /\ Len(fifo[p]) > 0
        /\ Len(Tail(fifo[p])) = Len(fifo[p]) - 1
        /\ \A i \in 1 .. Len(fifo[p]) - 1 : Tail(fifo[p])[i] = fifo[p][i + 1]
    BY <2>1, <2>2, PipelineAssumption
  <2>4. /\ fifo'[p] = Tail(fifo[p]) /\ peeked'[p] = k /\ packet'[w] = k
        /\ \A q \in Peers \ {p} : fifo'[q] = fifo[q] /\ peeked'[q] = peeked[q]
    BY <1>1, <2>1 DEF IInv, TypeOK, QueuesOK, WorkOK
  <2> HIDE DEF k
  <2>5. Taken(p)' = Taken(p) + 1
    <3>1. \A a, b \in Nat : a - (b - 1) = a - b + 1
      OBVIOUS
    <3>2. Taken(p)' = Len(inserted[p]) - (Len(fifo[p]) - 1)
      BY <1>0, <2>3, <2>4 DEF Taken
    <3> QED
      BY <2>2, <3>1, <3>2 DEF Taken
  <2>6. Gone(p)' = Gone(p)
    <3>1. Gone(p)' = Taken(p)' - 1
      BY <1>0, <2>3, <2>4 DEF Gone
    <3> QED
      BY <2>2, <2>5, <3>1
  <2>7. Handled(w)' = Handled(w)
    BY <1>0, <1>1, <2>1, <2>6 DEF Handled
  <2>8. ASSUME NEW i \in 1 .. Len(fifo'[p])
        PROVE  fifo'[p][i] = inserted'[p][Taken(p)' + i]
    <3>1. i \in 1 .. Len(fifo[p]) - 1 /\ i + 1 \in 1 .. Len(fifo[p])
      BY <2>2, <2>3, <2>4
    <3>2. fifo'[p][i] = inserted[p][Taken(p) + (i + 1)]
      BY <2>2, <2>3, <2>4, <3>1
    <3>3. Taken(p) + (i + 1) = Taken(p)' + i
      BY <2>2, <2>5
    <3> QED
      BY <1>0, <3>2, <3>3
  <2>9. peeked'[p] = inserted'[p][Taken(p)']
    <3>1. 1 \in 1 .. Len(fifo[p])
      BY <2>2, <2>3
    <3> QED
      BY <1>0, <2>2, <2>3, <2>4, <2>5, <3>1
  <2>10. /\ held'[w] = p /\ pending'[w] = pending[w] /\ delivered' = delivered
         /\ inserted' = inserted /\ dir' = dir /\ held' = held
         /\ dir = "tx" => pending[w] = <<>>
    BY <1>0 DEF OrderInv, TakenInv
  <2>11. Embedded(delivered'[p] \o pending'[w], inserted'[p], Handled(w)')
    BY <1>1, <2>7, <2>10
  <2>12. \A v \in Workers \ {w} : pending'[v] = pending[v]
    BY <1>0
  <2>13. held[w] = p /\ Gone(p) >= 0
    BY <2>2
  <2> HIDE DEF p
  <2>14. p \in Peers /\ Gone(p)' >= 0 /\ ~Freed(p)
    BY <1>1, <2>1, <2>6, <2>13 DEF FreedInv
  <2> QED
    <3>1. StepAt(w, p)
      BY <1>0, <2>1, <2>4, <2>8, <2>9, <2>10, <2>11, <2>12, <2>13, <2>14
         DEF Looping, StepAt
    <3> QED
      BY <2>14, <3>1, OrderAt
<1> QED
  BY <1>2, <1>3

LEMMA ReadStateOrder ==
    ASSUME IInv, OrderInv, FreedInv, NEW w \in Workers, ReadState(w)
    PROVE  OrderInv'
<1>0. /\ UNCHANGED <<dir, fifo, inserted, delivered, held, pending>>
      /\ pc[w] = "state" /\ pc'[w] \in {"handle", "retire", "indicate"}
      /\ pc'[w] = "retire" => pending[w] = <<>>
      /\ \A v \in Workers \ {w} : pc'[v] = pc[v] /\ packet'[v] = packet[v]
  BY DEF ReadState, AfterLoop, Goto, At, IInv, TypeOK, ThreadsOK, Threads, WorkOK
<1>1. /\ held[w] \in Peers /\ pending[w] \in Seq(Packets) /\ Handled(w) = Gone(held[w])
      /\ Embedded(delivered[held[w]] \o pending[w], inserted[held[w]], Handled(w))
  BY <1>0, HeldFacts DEF Holding
<1>2. CASE pc'[w] # "handle"
  <2>1. UNCHANGED peeked
    BY <1>2 DEF ReadState, Goto, IInv, TypeOK, ThreadsOK, Threads
  <2> QED
    BY <1>0, <1>2, <2>1, OrderUnmoved DEF OrderInv, TakenInv, Looping
<1>3. CASE pc'[w] = "handle"
  <2> DEFINE p == held[w]
  <2>1. peeked' = [peeked EXCEPT ![p] = Nil] /\ packet' = packet
    BY <1>3 DEF ReadState, AfterLoop, Goto, IInv, TypeOK, ThreadsOK, Threads
  <2>2. /\ peeked'[p] = Nil /\ \A q \in Peers \ {p} : peeked'[q] = peeked[q]
    BY <1>1, <2>1 DEF IInv, TypeOK, QueuesOK
  <2>3. packet[w] = peeked[p] /\ peeked[p] # Nil
    BY <1>0 DEF OrderInv, TakenInv, IInv, HandsInv, Carrying
  <2>4. /\ Gone(p) \in Nat /\ Taken(p) \in Nat /\ Gone(p) = Taken(p) - 1
        /\ peeked[p] = inserted[p][Taken(p)]
        /\ \A i \in 1 .. Len(fifo[p]) : fifo[p][i] = inserted[p][Taken(p) + i]
    BY <1>1, <2>3, QueueFacts
  <2>5. Taken(p)' = Taken(p) /\ Gone(p)' = Taken(p)
    BY <1>0, <2>2 DEF Gone, Taken
  <2>6. Handled(w)' = Handled(w)
    <3>1. Handled(w)' = Gone(p)' - 1
      BY <1>0, <1>3 DEF Handled
    <3> QED
      BY <1>1, <2>4, <2>5, <3>1
  <2>7. /\ pending'[w] = pending[w] /\ delivered' = delivered
        /\ inserted' = inserted /\ dir' = dir /\ held' = held /\ fifo' = fifo
        /\ dir = "tx" => pending[w] = <<>>
    BY <1>0 DEF OrderInv, TakenInv
  <2>8. Embedded(delivered'[p] \o pending'[w], inserted'[p], Handled(w)')
    BY <1>1, <2>6, <2>7
  <2>9. Gone(p)' >= 1 /\ packet'[w] = inserted'[p][Gone(p)']
    BY <1>0, <2>1, <2>3, <2>4, <2>5
  <2>10. held[w] = p
    OBVIOUS
  <2> HIDE DEF p
  <2>11. /\ p \in Peers /\ Gone(p)' >= 0 /\ ~Freed(p)
         /\ \A i \in 1 .. Len(fifo'[p]) : fifo'[p][i] = inserted'[p][Taken(p)' + i]
    BY <1>0, <1>1, <2>4, <2>5, <2>7, <2>9, <2>10 DEF FreedInv, Carrying
  <2>12. \A v \in Workers \ {w} : pending'[v] = pending[v]
    BY <1>0
  <2> QED
    <3>1. StepAt(w, p)
      BY <1>0, <1>3, <2>2, <2>7, <2>8, <2>9, <2>10, <2>11, <2>12 DEF Looping, StepAt
    <3> QED
      BY <2>11, <3>1, OrderAt
<1> QED
  BY <1>2, <1>3

LEMMA HandleOrder ==
    ASSUME IInv, OrderInv, FreedInv, NEW w \in Workers, Handle(w)
    PROVE  OrderInv'
<1> DEFINE p == held[w]
           k == packet[w]
<1>0. /\ UNCHANGED <<dir, fifo, peeked, inserted, held, packet>>
      /\ pc[w] = "handle" /\ pc'[w] = "putPacket"
      /\ \A v \in Workers \ {w} : pc'[v] = pc[v]
  BY DEF Handle, Goto, At, queueVars, IInv, TypeOK, ThreadsOK, Threads
<1>1. /\ p \in Peers /\ pending[w] \in Seq(Packets) /\ Handled(w) = Gone(p) - 1
      /\ Embedded(delivered[p] \o pending[w], inserted[p], Handled(w))
  BY <1>0, HeldFacts DEF Holding
<1>2. /\ k \in Packets /\ k = inserted[p][Gone(p)] /\ Gone(p) >= 1
  BY <1>0 DEF OrderInv, TakenInv, IInv, HandsInv, Carrying, TypeOK, WorkOK
<1>3. /\ Gone(p) \in Nat /\ delivered[p] \in Seq(Packets)
      /\ \A i \in 1 .. Len(fifo[p]) : fifo[p][i] = inserted[p][Taken(p) + i]
      /\ peeked[p] # Nil => peeked[p] = inserted[p][Taken(p)]
  BY <1>1, QueueFacts
<1>4. /\ Gone(p)' = Gone(p) /\ Taken(p)' = Taken(p) /\ Handled(w)' = Gone(p)
  BY <1>0 DEF Gone, Taken, Handled
<1>5. PICK b \in Nat : b = Gone(p) - 1 /\ b + 1 = Gone(p) /\ b = Handled(w)
  BY <1>1, <1>2, <1>3
<1>6. Embedded(delivered'[p] \o pending'[w], inserted[p], Gone(p))
  <2> DEFINE s == delivered[p] \o pending[w]
  <2>1. s \in Seq(Packets) /\ Embedded(s, inserted[p], b)
    BY <1>1, <1>3, <1>5
  <2>2. CASE dir = "rx" /\ pending' = [pending EXCEPT ![w] = Append(@, k)]
             /\ UNCHANGED delivered
    <3>1. delivered'[p] \o pending'[w] = delivered[p] \o Append(pending[w], k)
      BY <2>2 DEF IInv, TypeOK, WorkOK
    <3>2. delivered[p] \o Append(pending[w], k) = Append(s, k)
      BY <1>1, <1>2, <1>3, AppendConcat
    <3> HIDE DEF s
    <3>3. Embedded(Append(s, inserted[p][b + 1]), inserted[p], b + 1)
      BY <2>1, EmbedAppend
    <3> QED
      BY <1>2, <1>5, <3>1, <3>2, <3>3
  <2>3. CASE dir = "tx" /\ delivered' = [delivered EXCEPT ![p] = Append(@, k)]
             /\ UNCHANGED pending
    <3>1. pending[w] = <<>>
      BY <2>3 DEF OrderInv, TakenInv
    <3>2. s = delivered[p] /\ delivered'[p] \o pending'[w] = Append(delivered[p], k)
      <4>1. delivered'[p] = Append(delivered[p], k) /\ pending'[w] = <<>>
        BY <1>1, <2>3, <3>1 DEF IInv, TypeOK, WorkOK
      <4>2. Append(delivered[p], k) \in Seq(Packets)
        BY <1>2, <1>3
      <4> QED
        BY <1>3, <3>1, <4>1, <4>2, ConcatEmptySeq
    <3> HIDE DEF s
    <3>3. Embedded(Append(s, inserted[p][b + 1]), inserted[p], b + 1)
      BY <2>1, EmbedAppend
    <3> QED
      BY <1>2, <1>5, <3>2, <3>3
  <2>4. CASE UNCHANGED <<pending, delivered>>
    <3> HIDE DEF s
    <3>1. b + 1 \in Nat /\ b <= b + 1
      BY <1>5
    <3>2. Embedded(s, inserted[p], b + 1)
      BY <2>1, <3>1, EmbedGrow
    <3> QED
      BY <1>5, <2>4, <3>2 DEF s
  <2> QED
    BY <2>2, <2>3, <2>4 DEF Handle
<1>7. /\ \A v \in Workers \ {w} : pending'[v] = pending[v]
      /\ \A q \in Peers \ {p} : delivered'[q] = delivered[q]
      /\ dir = "tx" => pending'[w] = <<>>
  BY <1>1 DEF Handle, OrderInv, TakenInv, IInv, TypeOK, WorkOK
<1>8. held[w] = p /\ ~Freed(p)
  BY <1>0, <1>1 DEF FreedInv, Carrying
<1> HIDE DEF p, k
<1>9. StepAt(w, p)
  BY <1>0, <1>2, <1>3, <1>4, <1>6, <1>7, <1>8 DEF StepAt, Looping
<1> QED
  BY <1>1, <1>8, <1>9, OrderAt

LEMMA IndicateOrder ==
    ASSUME IInv, OrderInv, FreedInv, NEW w \in Workers, Indicate(w)
    PROVE  OrderInv'
<1> DEFINE p == held[w]
<1>0. /\ UNCHANGED <<dir, fifo, peeked, inserted, held, packet>>
      /\ pc[w] = "indicate" /\ pc'[w] = "retire"
      /\ \A v \in Workers \ {w} : pc'[v] = pc[v]
  BY DEF Indicate, Goto, At, queueVars, IInv, TypeOK, ThreadsOK, Threads
<1>1. /\ p \in Peers /\ pending[w] \in Seq(Packets) /\ Handled(w) = Gone(p)
      /\ Embedded(delivered[p] \o pending[w], inserted[p], Handled(w))
  BY <1>0, HeldFacts DEF Holding
<1>2. /\ Gone(p) \in Nat /\ delivered[p] \in Seq(Packets)
      /\ \A i \in 1 .. Len(fifo[p]) : fifo[p][i] = inserted[p][Taken(p) + i]
      /\ peeked[p] # Nil => peeked[p] = inserted[p][Taken(p)]
  BY <1>1, QueueFacts
<1>3. /\ Gone(p)' = Gone(p) /\ Taken(p)' = Taken(p) /\ Handled(w)' = Gone(p)
  BY <1>0 DEF Gone, Taken, Handled
<1>4. /\ delivered'[p] = delivered[p] \o pending[w] /\ pending'[w] = <<>>
      /\ \A v \in Workers \ {w} : pending'[v] = pending[v]
      /\ \A q \in Peers \ {p} : delivered'[q] = delivered[q]
  BY <1>1 DEF Indicate, IInv, TypeOK, WorkOK
<1>5. delivered'[p] \o pending'[w] = delivered[p] \o pending[w]
  <2>1. delivered[p] \o pending[w] \in Seq(Packets)
    BY <1>1, <1>2
  <2> QED
    BY <1>4, <2>1, ConcatEmptySeq
<1>6. Embedded(delivered'[p] \o pending'[w], inserted'[p], Handled(w)')
  BY <1>0, <1>1, <1>3, <1>5
<1>7. held[w] = p
  OBVIOUS
<1> HIDE DEF p
<1>8. CASE ~Freed(p)
  <2>1. StepAt(w, p)
    BY <1>0, <1>2, <1>3, <1>4, <1>6, <1>7 DEF StepAt, Looping
  <2> QED
    BY <1>1, <1>8, <2>1, OrderAt
<1>9. CASE Freed(p)
  <2>1. \A q \in Peers : Gone(q)' = Gone(q) /\ Taken(q)' = Taken(q)
    BY <1>0 DEF Gone, Taken
  <2>2. PlaceInv'
    BY <1>0, <2>1 DEF OrderInv, PlaceInv
  <2>3. TakenInv'
    <3>1. ASSUME NEW v \in Workers, pc'[v] = "handle"
          PROVE  v # w /\ pc[v] = "handle" /\ held[v] \in Peers
      BY <1>0, <3>1 DEF IInv, HandsInv, Holding, TypeOK, SerialOK
    <3>2. ASSUME NEW v \in Workers
          PROVE  /\ pc'[v] \notin Looping \/ dir' = "tx" => pending'[v] = <<>>
                 /\ pc'[v] = "state" => packet'[v] = peeked'[held'[v]]
      BY <1>0, <1>4 DEF OrderInv, TakenInv
    <3>3. ASSUME NEW v \in Workers, pc'[v] = "handle"
          PROVE  Gone(held[v])' >= 1 /\ packet'[v] = inserted'[held'[v]][Gone(held[v])']
      <4>1. Gone(held[v]) >= 1 /\ packet[v] = inserted[held[v]][Gone(held[v])]
        BY <3>1, <3>3 DEF OrderInv, TakenInv
      <4> QED
        BY <1>0, <3>1, <3>3, <4>1 DEF Gone, Taken
    <3>4. held' = held
      BY <1>0
    <3> QED
      BY <3>2, <3>3, <3>4 DEF TakenInv
  <2>4. ASSUME NEW q \in Peers, ~InHand(q)'
        PROVE  Embedded(delivered'[q], inserted'[q], Gone(q)')
    <3>1. q # p /\ ~InHand(q)
      BY <1>0, <1>7, <2>4 DEF InHand
    <3> QED
      BY <1>0, <1>4, <2>1, <3>1 DEF OrderInv, EmbedInv
  <2>5. ASSUME NEW v \in Workers, held[v] # Nil
        PROVE  Embedded(delivered'[held[v]] \o pending'[v], inserted'[held[v]], Handled(v)')
    <3>1. held[v] \in Peers
      BY <2>5 DEF IInv, TypeOK, SerialOK
    <3>2. CASE v = w
      BY <1>6, <1>7, <3>2
    <3>3. CASE v # w /\ held[v] # p
      <4>1. Handled(v)' = Handled(v)
        BY <1>0, <2>1, <3>1, <3>3 DEF Handled
      <4> QED
        BY <1>0, <1>4, <2>5, <3>1, <3>3, <4>1 DEF OrderInv, EmbedInv
    <3>4. CASE v # w /\ held[v] = p
      <4>1. /\ Handled(v)' = Gone(p) /\ Handled(v) = Gone(p)
            /\ pending[v] = <<>> \/ pending[w] = <<>>
        BY <1>0, <1>1, <1>7, <1>9, <2>1, <3>4 DEF FreedInv, Carrying, Handled
      <4>2. /\ delivered[p] \o pending[w] \in Seq(Packets)
            /\ Embedded(delivered[p] \o pending[v], inserted[p], Gone(p))
        BY <1>1, <1>2, <2>5, <3>4, <4>1 DEF OrderInv, EmbedInv
      <4>3. CASE pending[v] = <<>>
        <5>1. delivered'[p] \o pending'[v] = delivered[p] \o pending[w]
          BY <1>4, <3>4, <4>2, <4>3, ConcatEmptySeq
        <5> QED
          BY <1>0, <1>1, <3>4, <4>1, <5>1
      <4>4. CASE pending[w] = <<>>
        <5>1. delivered'[p] = delivered[p]
          BY <1>2, <1>4, <4>4, ConcatEmptySeq
        <5> QED
          BY <1>0, <1>4, <3>4, <4>1, <4>2, <5>1
      <4> QED
        BY <4>1, <4>3, <4>4
    <3> QED
      BY <3>2, <3>3, <3>4
  <2>6. EmbedInv'
    BY <1>0, <2>4, <2>5 DEF EmbedInv
  <2> QED
    BY <2>2, <2>3, <2>6 DEF OrderInv
<1> QED
  BY <1>8, <1>9

LEMMA NextOrder ==
    ASSUME IInv, OrderInv, FreedInv, [Next]_vars
    PROVE  OrderInv'
<1>1. ASSUME NEW t \in Producers, StartCall(t) \/ ProducerStep(t)
      PROVE  OrderInv'
  <2>1. t \in Threads
    BY DEF Threads
  <2> QED
    BY <1>1, <2>1, ListOrder, InsertOrder DEF ProducerStep, EnqueuePerPeer
<1>2. ASSUME NEW w \in Workers, WorkerStep(w)
      PROVE  OrderInv'
  <2>1. w \in Threads
    BY DEF Threads
  <2> QED
    BY <1>2, <2>1, ListOrder, IdleOrder, DequeueOrder, PeekOrder, ReadStateOrder,
       HandleOrder, IndicateOrder, RetireOrder DEF WorkerStep, EnqueuePerPeer
<1>3. ASSUME NEW p \in Removable, PeerRemove(p) \/ PeerRemoveDone(p) \/ RcuRelease(p)
      PROVE  OrderInv'
  BY <1>3, RemovalOrder, PipelineAssumption
<1>4. CASE UNCHANGED vars
  <2>1. UNCHANGED <<dir, fifo, peeked, inserted, delivered, held, pending, packet, pc>>
    BY <1>4 DEF vars, queueVars, workVars, threadVars
  <2> QED
    BY <2>1, OrderUnmoved DEF OrderInv, TakenInv
<1> QED
  BY <1>1, <1>2, <1>3, <1>4 DEF Next

LEMMA OrderIsKept ==
    ASSUME IInv, OrderInv
    PROVE  InOrder
<1>1. \A p \in Peers : Embedded(delivered[p], inserted[p], Gone(p))
  BY DeliveredFacts
<1>2. ASSUME NEW p \in Peers, NEW i \in DOMAIN delivered[p], NEW j \in DOMAIN delivered[p],
             i < j
      PROVE  \E m, n \in DOMAIN inserted[p] :
               m < n /\ inserted[p][m] = delivered[p][i] /\ inserted[p][n] = delivered[p][j]
  <2>1. PICK m \in 1 .. Gone(p), n \in 1 .. Gone(p) :
           m < n /\ inserted[p][m] = delivered[p][i] /\ inserted[p][n] = delivered[p][j]
    BY <1>1, <1>2 DEF Embedded
  <2>2. /\ Gone(p) \in Nat /\ Len(inserted[p]) \in Nat /\ Gone(p) <= Len(inserted[p])
        /\ DOMAIN inserted[p] = 1 .. Len(inserted[p])
    BY QueueFacts
  <2>3. m \in DOMAIN inserted[p] /\ n \in DOMAIN inserted[p]
    BY <2>2
  <2> QED
    BY <2>1, <2>3
<1> QED
  BY <1>2 DEF InOrder

-----------------------------------------------------------------------------
(* ReferencesExact.  A packet that has left p's queue is still p's while it is
   handled and until its reference is given up.                             *)
Taking == {"handle", "putPacket"}

Kept(p) ==
    Protected(p)
        \cup {packet[w] : w \in {v \in Workers : held[v] = p /\ At(v, "putPacket")}}

(* The packets of a call that have not taken a place yet. *)
Fresh(t) ==
    IF pc[t] \in {"lookup", "insert", "cleanup"} THEN list[t]
    ELSE IF pc[t] = "link" THEN Tail(list[t])
    ELSE <<>>

Once(s) == \A i, j \in DOMAIN s : s[i] = s[j] => i = j

(* They are in one call, ... *)
FreshInv ==
    /\ \A t \in Producers : Once(Fresh(t))
    /\ \A t, u \in Producers : t # u => SetOf(Fresh(t)) \cap SetOf(Fresh(u)) = {}
    /\ \A c \in calls : Once(c)
    /\ \A c, d \in calls : c # d => SetOf(c) \cap SetOf(d) = {}
    /\ \A t \in Producers : \A c \in calls : SetOf(Fresh(t)) \cap SetOf(c) = {}

(* ... and no peer has them yet. *)
NewInv ==
    \A p \in Peers :
        /\ \A t \in Producers : Kept(p) \cap SetOf(Fresh(t)) = {}
        /\ \A c \in calls : Kept(p) \cap SetOf(c) = {}

(* A packet is in one place of its own peer's queue, or in hand. *)
KeptInv ==
    \A p \in Peers :
        /\ Once(fifo[p])
        /\ peeked[p] \notin SetOf(fifo[p])
        /\ \A k \in Kept(p) : PeerOf[k] = p
        /\ \A w \in Workers : held[w] = p /\ pc[w] \in Taking =>
             packet[w] \notin SetOf(fifo[p]) /\ packet[w] # peeked[p]

RefInv == FreshInv /\ NewInv /\ KeptInv

(* Who is between Lookup's reference and the place in the queue. *)
Opening(p) ==
    {Head(list[t]) : t \in {u \in Producers :
        pc[u] \in {"insert", "cleanup"} /\ PeerOf[Head(list[u])] = p}}

-----------------------------------------------------------------------------
(* What p's worker has in hand at a label. *)
Hand(p, label) == {packet[w] : w \in {v \in Workers : held[v] = p /\ At(v, label)}}

LEMMA Parts ==
    ASSUME NEW p
    PROVE  /\ Protected(p) =
                SetOf(fifo[p]) \cup ({peeked[p]} \ {Nil}) \cup Hand(p, "handle")
           /\ Kept(p) = Protected(p) \cup Hand(p, "putPacket")
           /\ Protected(p)' =
                SetOf(fifo'[p]) \cup ({peeked'[p]} \ {Nil}) \cup Hand(p, "handle")'
           /\ Kept(p)' = Protected(p)' \cup Hand(p, "putPacket")'
  BY DEF Protected, Kept, Hand, SetOf

LEMMA HandSame ==
    ASSUME NEW p, NEW label,
           \A w \in Workers :
             /\ held'[w] = p /\ pc'[w] = label <=> held[w] = p /\ pc[w] = label
             /\ held[w] = p /\ pc[w] = label => packet'[w] = packet[w]
    PROVE  Hand(p, label)' = Hand(p, label)
  BY DEF Hand, At

(* What it takes to be in these sets. *)
LEMMA Members ==
    ASSUME NEW p, NEW k
    PROVE  /\ k \in Protected(p) <=>
                \/ k \in SetOf(fifo[p]) \/ (k = peeked[p] /\ k # Nil)
                \/ \E w \in Workers : held[w] = p /\ pc[w] = "handle" /\ packet[w] = k
           /\ k \in Kept(p) <=>
                \/ k \in Protected(p)
                \/ \E w \in Workers : held[w] = p /\ pc[w] = "putPacket" /\ packet[w] = k
           /\ k \in Opening(p) <=>
                \E t \in Producers : /\ pc[t] \in {"insert", "cleanup"}
                                     /\ Head(list[t]) = k /\ PeerOf[k] = p
           /\ Counted(p) = Kept(p) \cup Opening(p)
  BY DEF Protected, Kept, Opening, Counted, At

LEMMA MembersNext ==
    ASSUME NEW p, NEW k
    PROVE  /\ k \in Protected(p)' <=>
                \/ k \in SetOf(fifo'[p]) \/ (k = peeked'[p] /\ k # Nil)
                \/ \E w \in Workers : held'[w] = p /\ pc'[w] = "handle" /\ packet'[w] = k
           /\ k \in Kept(p)' <=>
                \/ k \in Protected(p)'
                \/ \E w \in Workers : held'[w] = p /\ pc'[w] = "putPacket" /\ packet'[w] = k
           /\ k \in Opening(p)' <=>
                \E t \in Producers : /\ pc'[t] \in {"insert", "cleanup"}
                                     /\ Head(list'[t]) = k /\ PeerOf[k] = p
           /\ Counted(p)' = Kept(p)' \cup Opening(p)'
  BY DEF Protected, Kept, Opening, Counted, At

LEMMA FiniteParts ==
    ASSUME IInv, NEW p \in Peers
    PROVE  /\ IsFiniteSet(Protected(p)) /\ Cardinality(Protected(p)) \in Nat
           /\ IsFiniteSet(Counted(p)) /\ Cardinality(Counted(p)) \in Nat
           /\ IsFiniteSet(Publishing(p)) /\ Cardinality(Publishing(p)) \in Nat
<1>1. Counted(p) \subseteq Packets
  <2>1. SetOf(fifo[p]) \subseteq Packets /\ peeked[p] \in Packets \cup {Nil}
    BY DEF SetOf, IInv, TypeOK, QueuesOK
  <2>2. \A w \in Workers : pc[w] \in Taking => packet[w] \in Packets
    BY DEF Taking, IInv, TypeOK, WorkOK, HandsInv, Carrying
  <2>3. \A t \in Producers : pc[t] \in {"insert", "cleanup"} => Head(list[t]) \in Packets
    <3>1. \A t \in Producers : pc[t] \in {"insert", "cleanup"} =>
            list[t] \in Seq(Packets) /\ list[t] # <<>>
      BY DEF IInv, TypeOK, ThreadsOK, ListsInv, Listing, Threads
    <3> QED
      BY <3>1
  <2>4. Opening(p) \subseteq Packets
    BY <2>3 DEF Opening
  <2>5. \A k \in Kept(p) : k \in Packets
    BY <2>1, <2>2, Members DEF Taking
  <2> QED
    BY <2>4, <2>5, Members
<1>2. Protected(p) \subseteq Counted(p)
  BY DEF Counted
<1>3. IsFiniteSet(Packets) /\ IsFiniteSet(Threads)
  BY PacketsAssumption, FS_Union DEF Threads
<1>4. Publishing(p) \subseteq Threads
  BY DEF Publishing
<1> QED
  BY <1>1, <1>2, <1>3, <1>4, FS_Subset, FS_CardinalityType

LEMMA OneMore ==
    ASSUME NEW S, IsFiniteSet(S), NEW x, x \notin S
    PROVE  Cardinality(S \cup {x}) = Cardinality(S) + 1 /\ Cardinality(S) \in Nat
  BY FS_AddElement, FS_CardinalityType

LEMMA OneLess ==
    ASSUME NEW S, IsFiniteSet(S), NEW x \in S
    PROVE  Cardinality(S \ {x}) = Cardinality(S) - 1 /\ Cardinality(S) \in Nat
  BY FS_RemoveElement, FS_CardinalityType

-----------------------------------------------------------------------------
(* Steps that take no packet out of a queue or out of hand. *)
Unhandled ==
    /\ UNCHANGED <<fifo, peeked>>
    /\ \A w \in Workers :
         \/ pc'[w] = pc[w] /\ held'[w] = held[w] /\ packet'[w] = packet[w]
         \/ pc[w] \notin Taking /\ pc'[w] \notin Taking

LEMMA KeptSame ==
    ASSUME Unhandled
    PROVE  \A p \in Peers : Protected(p)' = Protected(p) /\ Kept(p)' = Kept(p)
<1> SUFFICES ASSUME NEW p \in Peers
             PROVE  Protected(p)' = Protected(p) /\ Kept(p)' = Kept(p)
  OBVIOUS
<1>1. Hand(p, "handle")' = Hand(p, "handle") /\ Hand(p, "putPacket")' = Hand(p, "putPacket")
  BY HandSame DEF Unhandled, Taking
<1> QED
  BY <1>1, Parts DEF Unhandled

LEMMA KeptQuiet ==
    ASSUME KeptInv, Unhandled
    PROVE  KeptInv'
<1>1. \A w \in Workers : pc'[w] \in Taking =>
        pc[w] \in Taking /\ held'[w] = held[w] /\ packet'[w] = packet[w]
  BY DEF Unhandled
<1> QED
  BY <1>1, KeptSame DEF KeptInv, Unhandled

(* ... and that open nothing. *)
Unopened ==
    /\ calls' = calls
    /\ \A t \in Producers :
         /\ Fresh(t)' = Fresh(t)
         /\ pc'[t] \in {"insert", "cleanup"} <=> pc[t] \in {"insert", "cleanup"}
         /\ pc[t] \in {"insert", "cleanup"} => list'[t] = list[t]

LEMMA RefQuiet ==
    ASSUME RefInv, Unhandled, Unopened
    PROVE  RefInv' /\ \A p \in Peers : Counted(p)' = Counted(p)
<1>1. FreshInv'
  BY DEF RefInv, FreshInv, Unopened
<1>2. NewInv'
  BY KeptSame DEF RefInv, NewInv, Unopened
<1>3. KeptInv'
  BY KeptQuiet DEF RefInv
<1>4. \A p \in Peers : Opening(p)' = Opening(p)
  <2>1. ASSUME NEW p \in Peers, NEW k PROVE k \in Opening(p)' <=> k \in Opening(p)
    BY Members, MembersNext DEF Unopened
  <2> QED
    BY <2>1
<1>5. \A p \in Peers : Counted(p)' = Counted(p)
  <2>1. ASSUME NEW p \in Peers PROVE Counted(p)' = Counted(p)
    BY <1>4, KeptSame DEF Counted, Kept, Opening
  <2> QED
    BY <2>1
<1> QED
  BY <1>1, <1>2, <1>3, <1>5 DEF RefInv
(* ... and that begin or end no QueueEnqueuePerPeer. *)
Unpublished ==
    \A t \in Threads :
        /\ pc'[t] \in {"enqueue", "put"} <=> pc[t] \in {"enqueue", "put"}
        /\ pc[t] \in {"enqueue", "put"} => list'[t] = list[t]

LEMMA PublishingSame ==
    ASSUME Unpublished
    PROVE  \A p \in Peers : Publishing(p)' = Publishing(p)
  BY DEF Unpublished, Publishing

LEMMA CountQuiet ==
    ASSUME ReferencesExact, Unpublished, UNCHANGED <<ref, inUse>>,
           \A p \in Peers : Protected(p)' = Protected(p) /\ Counted(p)' = Counted(p),
           \A p \in Peers :
             removal'[p] \in {"no", "waiting"} <=> removal[p] \in {"no", "waiting"}
    PROVE  ReferencesExact'
  BY PublishingSame DEF ReferencesExact

LEMMA ProducersSame ==
    ASSUME calls' = calls, \A t \in Producers : pc'[t] = pc[t] /\ list'[t] = list[t]
    PROVE  Unopened
  BY DEF Unopened, Fresh

-----------------------------------------------------------------------------
(* The steps of a call, or of a worker with a list, behind the queue. *)
LEMMA ListQuiet ==
    ASSUME IInv, NEW t \in Threads,
           \/ t \in Producers /\ (Link(t) \/ Produce(t) \/ Bump(t))
           \/ Publish(t) \/ PeerSerialEnqueueIfNotBusy(t) \/ Put(t)
    PROVE  Unhandled /\ Unopened
<1>1. /\ UNCHANGED <<fifo, peeked, held, packet, calls>>
      /\ \A u \in Threads \ {t} : pc'[u] = pc[u] /\ list'[u] = list[u]
  BY DEF Link, Produce, Bump, Publish, PeerSerialEnqueueIfNotBusy, Put, queueVars,
         workVars, Goto, IInv, TypeOK, ThreadsOK
<1>2. /\ pc[t] \in {"link", "produce", "bump", "publish", "enqueue", "put"}
      /\ pc'[t] \in {"idle", "lookup", "produce", "bump", "publish", "enqueue", "put", "dequeue"}
  BY DEF Link, Produce, Bump, Publish, PeerSerialEnqueueIfNotBusy, Put, At, Goto,
         AfterPacket, ProducerStates, IInv, TypeOK, ThreadsOK
<1>3. Unhandled
  BY <1>1, <1>2 DEF Unhandled, Taking, ProducerStates, Threads
<1>4. t \in Producers => Fresh(t)' = Fresh(t)
  <2>1. CASE t \in Producers /\ Link(t)
    <3>1. /\ list[t] \in Seq(Packets) /\ list[t] # <<>>
          /\ list'[t] = Tail(list[t]) /\ pc[t] = "link"
          /\ pc'[t] = IF Len(list[t]) > 1 THEN "lookup"
                      ELSE IF device'[t] # <<>> THEN "produce" ELSE "idle"
      BY <2>1 DEF Link, At, Goto, AfterPacket, IInv, TypeOK, ThreadsOK, ListsInv, Listing
    <3>2. Len(list[t]) \in Nat /\ (Len(list[t]) <= 1 => Tail(list[t]) = <<>>)
      BY <3>1
    <3>3. Fresh(t) = Tail(list[t])
      BY <3>1 DEF Fresh
    <3>4. CASE Len(list[t]) > 1
      BY <3>1, <3>3, <3>4 DEF Fresh
    <3>5. CASE Len(list[t]) <= 1
      <4>1. pc'[t] \in {"produce", "idle"} /\ Tail(list[t]) = <<>>
        BY <3>1, <3>2, <3>5
      <4> QED
        BY <3>3, <4>1 DEF Fresh
    <3> QED
      BY <3>2, <3>4, <3>5
  <2>2. CASE ~(t \in Producers /\ Link(t))
    <3>1. /\ pc[t] \in {"produce", "bump", "publish", "enqueue", "put"}
          /\ t \in Producers => pc'[t] \in {"idle", "bump", "publish", "enqueue", "put"}
      BY <2>2, PipelineAssumption
         DEF Produce, Bump, Publish, PeerSerialEnqueueIfNotBusy, Put, At, Goto,
             IInv, TypeOK, ThreadsOK
    <3> QED
      BY <3>1 DEF Fresh
  <2> QED
    BY <2>1, <2>2
<1>5. Unopened
  <2>1. ASSUME NEW u \in Producers
        PROVE  /\ Fresh(u)' = Fresh(u)
               /\ pc'[u] \in {"insert", "cleanup"} <=> pc[u] \in {"insert", "cleanup"}
               /\ pc[u] \in {"insert", "cleanup"} => list'[u] = list[u]
    <3>1. CASE u = t
      BY <1>2, <1>4, <3>1
    <3>2. CASE u # t
      BY <1>1, <3>2 DEF Fresh, Threads
    <3> QED
      BY <3>1, <3>2
  <2> QED
    BY <1>1, <2>1 DEF Unopened
<1> QED
  BY <1>3, <1>5

(* The workers' steps that take no packet, and the removal of a peer. *)
Serving(w) ==
    \/ Wake(w) \/ Consume(w) \/ PeerSerialDequeue(w) \/ Indicate(w)
    \/ PeerSerialMaybeRetire(w)

LEMMA ServingQuiet ==
    ASSUME IInv, NEW w \in Workers, Serving(w)
    PROVE  Unhandled /\ Unopened /\ Unpublished /\ UNCHANGED <<ref, inUse, removal>>
<1>1. /\ UNCHANGED <<fifo, peeked, packet, calls, ref, inUse, removal>>
      /\ \A u \in Threads \ {w} : pc'[u] = pc[u] /\ list'[u] = list[u]
      /\ \A v \in Workers \ {w} : held'[v] = held[v]
  BY DEF Serving, Wake, Consume, PeerSerialDequeue, Indicate, PeerSerialMaybeRetire,
         queueVars, workVars, peerVars, threadVars, Goto, IInv, TypeOK, ThreadsOK, SerialOK
<1>2. /\ pc[w] \in {"wait", "consume", "dequeue", "indicate", "retire"}
      /\ pc'[w] \in {"wait", "consume", "dequeue", "publish", "peek", "retire"}
  BY DEF Serving, Wake, Consume, PeerSerialDequeue, Indicate, PeerSerialMaybeRetire,
         At, Goto, Threads, IInv, TypeOK, ThreadsOK
<1>3. w \in Threads /\ w \notin Producers
  BY PipelineAssumption DEF Threads
<1>4. Unhandled
  BY <1>1, <1>2 DEF Unhandled, Taking, Threads
<1>5. Unopened
  BY <1>1, <1>3, ProducersSame DEF Threads
<1>6. Unpublished
  BY <1>1, <1>2 DEF Unpublished
<1> QED
  BY <1>1, <1>4, <1>5, <1>6

LEMMA RemovalQuiet ==
    ASSUME IInv, NEW p \in Peers, PeerRemove(p) \/ PeerRemoveDone(p) \/ RcuRelease(p)
    PROVE  Unhandled /\ Unopened /\ Unpublished
<1>1. UNCHANGED <<fifo, peeked, packet, held, calls, pc, list>>
  BY DEF PeerRemove, PeerRemoveDone, RcuRelease, queueVars, workVars, threadVars
<1>2. Unopened
  BY <1>1, ProducersSame
<1> QED
  BY <1>1, <1>2 DEF Unhandled, Unpublished
-----------------------------------------------------------------------------
(* The packets of a call before they are queued. *)
LEMMA TailOnce ==
    ASSUME NEW s \in Seq(Packets), s # <<>>
    PROVE  /\ SetOf(s) = {Head(s)} \cup SetOf(Tail(s))
           /\ Once(s) => Once(Tail(s)) /\ Head(s) \notin SetOf(Tail(s))
<1> DEFINE r == Tail(s)  n == Len(s)
<1>1. /\ n \in Nat \ {0} /\ DOMAIN s = 1 .. n /\ DOMAIN r = 1 .. n - 1
      /\ Head(s) = s[1] /\ \A i \in 1 .. n - 1 : r[i] = s[i + 1]
  BY HeadTailProperties, LenProperties
<1> HIDE DEF r, n
<1>2. SetOf(s) \subseteq {Head(s)} \cup SetOf(r)
  <2>1. ASSUME NEW i \in DOMAIN s PROVE s[i] \in {Head(s)} \cup SetOf(r)
    <3>1. CASE i = 1
      BY <1>1, <3>1
    <3>2. CASE i # 1
      <4>1. i - 1 \in DOMAIN r /\ r[i - 1] = s[i]
        BY <1>1, <3>2
      <4> QED
        BY <4>1 DEF SetOf
    <3> QED
      BY <3>1, <3>2
  <2> QED
    BY <2>1 DEF SetOf
<1>3. SetOf(r) \subseteq SetOf(s) /\ Head(s) \in SetOf(s)
  <2>1. \A i \in DOMAIN r : i + 1 \in DOMAIN s /\ r[i] = s[i + 1]
    BY <1>1
  <2> QED
    BY <1>1, <2>1 DEF SetOf
<1>4. ASSUME Once(s) PROVE Once(r) /\ Head(s) \notin SetOf(r)
  <2>1. ASSUME NEW i \in DOMAIN r, NEW j \in DOMAIN r, r[i] = r[j] PROVE i = j
    BY <1>1, <1>4, <2>1 DEF Once
  <2>2. ASSUME NEW i \in DOMAIN r, r[i] = Head(s) PROVE FALSE
    BY <1>1, <1>4, <2>2 DEF Once
  <2> QED
    BY <2>1, <2>2 DEF Once, SetOf
<1> QED
  BY <1>2, <1>3, <1>4 DEF r

LEMMA FreshShrinks ==
    ASSUME FreshInv, calls' = calls, NEW t \in Producers,
           \A u \in Producers \ {t} : Fresh(u)' = Fresh(u),
           Fresh(t) \in Seq(Packets), Fresh(t) # <<>>, Fresh(t)' = Tail(Fresh(t))
    PROVE  /\ FreshInv'
           /\ \A u \in Producers : SetOf(Fresh(u)') \subseteq SetOf(Fresh(u))
           /\ \A u \in Producers : Head(Fresh(t)) \notin SetOf(Fresh(u)')
           /\ \A c \in calls : Head(Fresh(t)) \notin SetOf(c)
<1>1. /\ SetOf(Fresh(t)) = {Head(Fresh(t))} \cup SetOf(Fresh(t)')
      /\ Once(Fresh(t)') /\ Head(Fresh(t)) \notin SetOf(Fresh(t)')
  BY TailOnce DEF FreshInv
<1>2. \A u \in Producers : SetOf(Fresh(u)') \subseteq SetOf(Fresh(u))
  BY <1>1
<1>3. \A u \in Producers : Head(Fresh(t)) \notin SetOf(Fresh(u)')
  <2>1. ASSUME NEW u \in Producers, u # t PROVE Head(Fresh(t)) \notin SetOf(Fresh(u)')
    BY <1>1, <2>1 DEF FreshInv
  <2> QED
    BY <1>1, <2>1
<1>4. \A c \in calls : Head(Fresh(t)) \notin SetOf(c)
  BY <1>1 DEF FreshInv
<1>5. FreshInv'
  <2>1. \A u \in Producers : Once(Fresh(u)')
    BY <1>1 DEF FreshInv
  <2>2. ASSUME NEW u \in Producers, NEW v \in Producers, u # v
        PROVE  SetOf(Fresh(u)') \cap SetOf(Fresh(v)') = {}
    <3>1. SetOf(Fresh(u)) \cap SetOf(Fresh(v)) = {}
      BY <2>2 DEF FreshInv
    <3> QED
      BY <1>2, <3>1
  <2>3. ASSUME NEW u \in Producers, NEW c \in calls
        PROVE  SetOf(Fresh(u)') \cap SetOf(c) = {}
    <3>1. SetOf(Fresh(u)) \cap SetOf(c) = {}
      BY DEF FreshInv
    <3> QED
      BY <1>2, <3>1
  <2> QED
    BY <2>1, <2>2, <2>3 DEF FreshInv
<1> QED
  BY <1>2, <1>3, <1>4, <1>5

LEMMA HeadIsFresh ==
    ASSUME IInv, RefInv, NEW t \in Producers, pc[t] \in {"lookup", "insert", "cleanup"}
    PROVE  /\ Fresh(t) = list[t] /\ list[t] \in Seq(Packets) /\ list[t] # <<>>
           /\ Head(list[t]) \in Packets /\ PeerOf[Head(list[t])] \in Peers
           /\ \A p \in Peers : Head(list[t]) \notin Kept(p)
           /\ \A u \in Producers \ {t} :
                pc[u] \in {"insert", "cleanup"} => Head(list[u]) # Head(list[t])
<1>1. \A u \in Producers : pc[u] \in {"lookup", "insert", "cleanup"} =>
        /\ Fresh(u) = list[u] /\ list[u] \in Seq(Packets) /\ list[u] # <<>>
        /\ Head(list[u]) \in SetOf(Fresh(u)) /\ Head(list[u]) \in Packets
  <2>1. ASSUME NEW u \in Producers, pc[u] \in {"lookup", "insert", "cleanup"}
        PROVE  /\ Fresh(u) = list[u] /\ list[u] \in Seq(Packets) /\ list[u] # <<>>
               /\ Head(list[u]) \in SetOf(Fresh(u)) /\ Head(list[u]) \in Packets
    <3>1. Fresh(u) = list[u] /\ list[u] \in Seq(Packets) /\ list[u] # <<>>
      BY <2>1 DEF Fresh, IInv, TypeOK, ThreadsOK, ListsInv, Listing, Threads
    <3> QED
      BY <3>1, TailOnce
  <2> QED
    BY <2>1
<1>2. \A p \in Peers : Head(list[t]) \notin Kept(p)
  BY <1>1 DEF RefInv, NewInv
<1>3. ASSUME NEW u \in Producers \ {t}, pc[u] \in {"insert", "cleanup"}
      PROVE  Head(list[u]) # Head(list[t])
  <2>1. SetOf(Fresh(u)) \cap SetOf(Fresh(t)) = {}
    BY DEF RefInv, FreshInv
  <2> QED
    BY <1>1, <1>3, <2>1
<1> QED
  BY <1>1, <1>2, <1>3, PipelineAssumption

(* What becomes of Opening. *)
LEMMA OpeningBegun ==
    ASSUME NEW t \in Producers, NEW k,
           \A u \in Producers \ {t} : pc'[u] = pc[u] /\ list'[u] = list[u],
           pc[t] \notin {"insert", "cleanup"}, pc'[t] \in {"insert", "cleanup"},
           Head(list'[t]) = k
    PROVE  \A p \in Peers :
             Opening(p)' = IF PeerOf[k] = p THEN Opening(p) \cup {k} ELSE Opening(p)
<1>1. ASSUME NEW p \in Peers, NEW x
      PROVE  x \in Opening(p)' <=> x \in Opening(p) \/ (x = k /\ PeerOf[k] = p)
  BY Members, MembersNext
<1> QED
  BY <1>1

LEMMA OpeningEnded ==
    ASSUME NEW t \in Producers, NEW k,
           \A u \in Producers \ {t} : pc'[u] = pc[u] /\ list'[u] = list[u],
           pc[t] \in {"insert", "cleanup"}, pc'[t] \notin {"insert", "cleanup"},
           Head(list[t]) = k,
           \A u \in Producers \ {t} : pc[u] \in {"insert", "cleanup"} => Head(list[u]) # k
    PROVE  \A p \in Peers : Opening(p)' = Opening(p) \ {k}
<1>1. ASSUME NEW p \in Peers, NEW x
      PROVE  x \in Opening(p)' <=> x \in Opening(p) /\ x # k
  BY Members, MembersNext
<1> QED
  BY <1>1
-----------------------------------------------------------------------------
(* The steps of a call up to its place in the queue. *)
LEMMA StartCallCounts ==
    ASSUME IInv, RefInv, ReferencesExact, NEW t \in Producers, StartCall(t)
    PROVE  RefInv' /\ ReferencesExact'
<1>1. PICK c \in calls : calls' = calls \ {c} /\ list' = [list EXCEPT ![t] = c]
  BY DEF StartCall
<1>2. /\ t \in Threads /\ t \notin Workers
      /\ pc[t] = "idle" /\ pc'[t] = "lookup" /\ list'[t] = c
      /\ \A u \in Threads \ {t} : pc'[u] = pc[u] /\ list'[u] = list[u]
      /\ UNCHANGED <<held, packet, removal, ref, inUse, fifo, peeked>>
  BY <1>1, PipelineAssumption DEF StartCall, At, Goto, Threads, IInv, TypeOK, ThreadsOK,
     queueVars, workVars, peerVars
<1>3. Unhandled /\ Unpublished
  BY <1>2 DEF Unhandled, Unpublished, Threads
<1>4. \A p \in Peers : Opening(p)' = Opening(p)
  <2>1. ASSUME NEW p \in Peers, NEW x PROVE x \in Opening(p)' <=> x \in Opening(p)
    BY <1>2, Members, MembersNext DEF Threads
  <2> QED
    BY <2>1
<1>5. \A p \in Peers : Protected(p)' = Protected(p) /\ Counted(p)' = Counted(p)
  BY <1>3, <1>4, KeptSame DEF Counted, Kept, Opening
<1>6. Fresh(t)' = c /\ \A u \in Producers \ {t} : Fresh(u)' = Fresh(u)
  BY <1>2 DEF Fresh, Threads
<1>7. FreshInv'
  <2>1. \A u \in Producers : Once(Fresh(u)')
    BY <1>6 DEF RefInv, FreshInv
  <2>2. \A u, v \in Producers : u # v => SetOf(Fresh(u)') \cap SetOf(Fresh(v)') = {}
    BY <1>6 DEF RefInv, FreshInv
  <2>3. \A u \in Producers : \A d \in calls' : SetOf(Fresh(u)') \cap SetOf(d) = {}
    BY <1>1, <1>6 DEF RefInv, FreshInv
  <2> QED
    BY <1>1, <2>1, <2>2, <2>3 DEF RefInv, FreshInv
<1>8. NewInv'
  <2>1. \A p \in Peers : Kept(p)' = Kept(p)
    BY <1>3, KeptSame
  <2>2. ASSUME NEW p \in Peers, NEW u \in Producers
        PROVE  Kept(p) \cap SetOf(Fresh(u)') = {}
    BY <1>6 DEF RefInv, NewInv
  <2>3. \A p \in Peers : \A d \in calls' : Kept(p) \cap SetOf(d) = {}
    BY <1>1 DEF RefInv, NewInv
  <2> QED
    BY <2>1, <2>2, <2>3 DEF NewInv
<1> QED
  BY <1>2, <1>3, <1>5, <1>7, <1>8, KeptQuiet, CountQuiet DEF RefInv

(* A step that is done with the packet at the head of a call. *)
LEMMA Dropped ==
    ASSUME IInv, RefInv, NEW t \in Producers, pc[t] \in {"lookup", "cleanup"},
           list' = [list EXCEPT ![t] = Tail(@)], Goto(t, AfterPacket(t, device[t])),
           UNCHANGED <<calls, fifo, peeked, held, packet>>
    PROVE  /\ RefInv' /\ Unhandled /\ Unpublished
           /\ pc'[t] \notin {"insert", "cleanup"}
           /\ \A u \in Threads \ {t} : pc'[u] = pc[u] /\ list'[u] = list[u]
<1>1. t \in Threads /\ t \notin Workers
  BY PipelineAssumption DEF Threads
<1>2. Fresh(t) = list[t] /\ list[t] \in Seq(Packets) /\ list[t] # <<>>
  BY HeadIsFresh
<1>3. /\ \A u \in Threads \ {t} : pc'[u] = pc[u] /\ list'[u] = list[u]
      /\ list'[t] = Tail(list[t])
      /\ pc'[t] = AfterPacket(t, device[t])
  BY <1>1 DEF Goto, IInv, TypeOK, ThreadsOK
<1>4. Fresh(t)' = Tail(Fresh(t)) /\ pc'[t] \in {"lookup", "produce", "idle"}
  <2>1. CASE Len(list[t]) > 1
    BY <1>2, <1>3, <2>1 DEF Fresh, AfterPacket
  <2>2. CASE ~(Len(list[t]) > 1)
    <3>1. Tail(list[t]) = <<>>
      BY <1>2, <2>2
    <3>2. pc'[t] \in {"produce", "idle"}
      BY <1>3, <2>2 DEF AfterPacket
    <3> QED
      BY <1>2, <3>1, <3>2 DEF Fresh
  <2> QED
    BY <2>1, <2>2
<1>5. \A u \in Producers \ {t} : Fresh(u)' = Fresh(u)
  BY <1>3 DEF Fresh, Threads
<1>6. Unhandled /\ Unpublished
  BY <1>1, <1>3, <1>4 DEF Unhandled, Unpublished, Threads
<1>7. FreshInv' /\ \A u \in Producers : SetOf(Fresh(u)') \subseteq SetOf(Fresh(u))
  BY <1>2, <1>4, <1>5, FreshShrinks DEF RefInv
<1>8. NewInv'
  <2>1. \A p \in Peers : Kept(p)' = Kept(p)
    BY <1>6, KeptSame
  <2>2. ASSUME NEW p \in Peers, NEW u \in Producers
        PROVE  Kept(p) \cap SetOf(Fresh(u)') = {}
    <3>1. Kept(p) \cap SetOf(Fresh(u)) = {}
      BY DEF RefInv, NewInv
    <3> QED
      BY <1>7, <3>1
  <2> QED
    BY <2>1, <2>2 DEF RefInv, NewInv
<1> QED
  BY <1>3, <1>4, <1>6, <1>7, <1>8, KeptQuiet DEF RefInv

(* One peer's references change by d, those of the others do not. *)
LEMMA CountMoves ==
    ASSUME IInv, ReferencesExact, NEW p \in Peers, NEW d \in Int,
           UNCHANGED <<inUse, removal>>,
           ref'[p] = ref[p] + d, \A q \in Peers \ {p} : ref'[q] = ref[q],
           \A q \in Peers : Protected(q)' = Protected(q),
           \A q \in Peers \ {p} :
             Counted(q)' = Counted(q) /\ Publishing(q)' = Publishing(q),
           Cardinality(Counted(p)') + Cardinality(Publishing(p)')
             = Cardinality(Counted(p)) + Cardinality(Publishing(p)) + d
    PROVE  ReferencesExact'
<1>1. ASSUME NEW q \in Peers
      PROVE  /\ inUse'[q] = Cardinality(Protected(q)')
             /\ ref'[q] = Cardinality(Counted(q)') + Cardinality(Publishing(q)')
                          + (IF removal'[q] \in {"no", "waiting"} THEN 1 ELSE 0)
  <2>1. CASE q # p
    BY <2>1 DEF ReferencesExact
  <2>2. CASE q = p
    BY <2>2, FiniteParts DEF ReferencesExact
  <2> QED
    BY <2>1, <2>2
<1> QED
  BY <1>1 DEF ReferencesExact

LEMMA LookupCounts ==
    ASSUME IInv, RefInv, ReferencesExact, NEW t \in Producers, Lookup(t)
    PROVE  RefInv' /\ ReferencesExact'
<1>0. pc[t] = "lookup"
  BY DEF Lookup, At
<1>2. PICK k \in Packets :
        /\ k = Head(list[t]) /\ Fresh(t) = list[t] /\ PeerOf[k] \in Peers
        /\ \A p \in Peers : k \notin Kept(p)
        /\ \A u \in Producers \ {t} : pc[u] \in {"insert", "cleanup"} => Head(list[u]) # k
  BY <1>0, HeadIsFresh
<1>1. /\ t \in Threads /\ t \notin Workers /\ pc[t] = "lookup"
      /\ UNCHANGED <<calls, fifo, peeked, held, packet, inUse, removal>>
  BY PipelineAssumption DEF Lookup, At, Threads, queueVars, workVars
<1>3. CASE /\ list' = [list EXCEPT ![t] = Tail(@)] /\ ref' = ref
           /\ Goto(t, AfterPacket(t, device[t]))
  <2>1. /\ RefInv' /\ Unhandled /\ Unpublished
        /\ pc'[t] \notin {"insert", "cleanup"}
        /\ \A u \in Threads \ {t} : pc'[u] = pc[u] /\ list'[u] = list[u]
    BY <1>1, <1>3, Dropped
  <2>2. \A p \in Peers : Opening(p)' = Opening(p)
    <3>1. ASSUME NEW p \in Peers, NEW x PROVE x \in Opening(p)' <=> x \in Opening(p)
      BY <1>1, <2>1, Members, MembersNext DEF Threads
    <3> QED
      BY <3>1
  <2>3. \A p \in Peers : Protected(p)' = Protected(p) /\ Counted(p)' = Counted(p)
    BY <2>1, <2>2, KeptSame DEF Counted, Kept, Opening
  <2> QED
    BY <1>1, <1>3, <2>1, <2>3, CountQuiet
<1>4. CASE ref' = [ref EXCEPT ![PeerOf[k]] = @ + 1] /\ Goto(t, "insert") /\ list' = list
  <2>1. /\ pc'[t] = "insert" /\ list' = list
        /\ \A u \in Threads \ {t} : pc'[u] = pc[u]
    BY <1>1, <1>4 DEF Goto, IInv, TypeOK, ThreadsOK
  <2>2. Unhandled /\ Unpublished
    BY <1>1, <2>1 DEF Unhandled, Unpublished, Threads
  <2>3. \A u \in Producers : Fresh(u)' = Fresh(u)
    BY <1>1, <2>1 DEF Fresh, Threads
  <2>4. RefInv'
    BY <1>1, <2>2, <2>3, KeptSame, KeptQuiet DEF RefInv, FreshInv, NewInv
  <2>5. \A p \in Peers :
          Opening(p)' = IF PeerOf[k] = p THEN Opening(p) \cup {k} ELSE Opening(p)
    <3>1. Head(list'[t]) = k /\ \A u \in Producers \ {t} : pc'[u] = pc[u] /\ list'[u] = list[u]
      BY <1>2, <2>1 DEF Threads
    <3> QED
      BY <1>1, <2>1, <3>1, OpeningBegun
  <2> DEFINE p == PeerOf[k]
  <2>6. \A q \in Peers : Protected(q)' = Protected(q) /\ Kept(q)' = Kept(q)
    BY <2>2, KeptSame
  <2>7. \A q \in Peers \ {p} : Counted(q)' = Counted(q)
    BY <2>5, <2>6 DEF Counted, Kept, Opening
  <2>8. Counted(p)' = Counted(p) \cup {k} /\ k \notin Counted(p)
    <3>1. k \notin Opening(p)
      BY <1>1, <1>2, Members
    <3> QED
      BY <1>2, <2>5, <2>6, <3>1 DEF Counted, Kept, Opening
  <2>9. Cardinality(Counted(p)') = Cardinality(Counted(p)) + 1
    BY <1>2, <2>8, OneMore, FiniteParts
  <2>10. ref'[p] = ref[p] + 1 /\ \A q \in Peers \ {p} : ref'[q] = ref[q]
    BY <1>2, <1>4 DEF IInv, TypeOK, PeersOK
  <2>11. \A q \in Peers : Publishing(q)' = Publishing(q)
    BY <2>2, PublishingSame
  <2>12. p \in Peers
    BY <1>2
  <2> HIDE DEF p
  <2>13. Cardinality(Counted(p)') + Cardinality(Publishing(p)')
          = Cardinality(Counted(p)) + Cardinality(Publishing(p)) + 1
    BY <2>9, <2>11, <2>12, FiniteParts
  <2> QED
    BY <1>1, <2>4, <2>6, <2>7, <2>10, <2>11, <2>12, <2>13, CountMoves
<1> QED
  BY <1>2, <1>3, <1>4 DEF Lookup

LEMMA CleanupCounts ==
    ASSUME IInv, RefInv, ReferencesExact, NEW t \in Producers, Cleanup(t)
    PROVE  RefInv' /\ ReferencesExact'
<1>0. pc[t] = "cleanup"
  BY DEF Cleanup, At
<1>2. PICK k \in Packets :
        /\ k = Head(list[t]) /\ PeerOf[k] \in Peers /\ \A q \in Peers : k \notin Kept(q)
        /\ \A u \in Producers \ {t} : pc[u] \in {"insert", "cleanup"} => Head(list[u]) # k
  BY <1>0, HeadIsFresh
<1> DEFINE p == PeerOf[k]
<1>1. /\ t \in Threads /\ t \notin Workers /\ pc[t] = "cleanup"
      /\ list' = [list EXCEPT ![t] = Tail(@)] /\ ref' = [ref EXCEPT ![p] = @ - 1]
      /\ Goto(t, AfterPacket(t, device[t]))
      /\ UNCHANGED <<calls, fifo, peeked, held, packet, inUse, removal>>
  BY <1>2, PipelineAssumption DEF Cleanup, At, Threads, queueVars, workVars
<1>3. /\ RefInv' /\ Unhandled /\ Unpublished
      /\ pc'[t] \notin {"insert", "cleanup"}
      /\ \A u \in Threads \ {t} : pc'[u] = pc[u] /\ list'[u] = list[u]
  BY <1>1, Dropped
<1>4. \A q \in Peers : Opening(q)' = Opening(q) \ {k}
  <2>1. \A u \in Producers \ {t} : pc'[u] = pc[u] /\ list'[u] = list[u]
    BY <1>3 DEF Threads
  <2> QED
    BY <1>1, <1>2, <1>3, <2>1, OpeningEnded
<1>5. \A q \in Peers : Protected(q)' = Protected(q) /\ Kept(q)' = Kept(q)
  BY <1>3, KeptSame
<1>6. \A q \in Peers : Counted(q)' = Counted(q) \ {k}
  BY <1>2, <1>4, <1>5 DEF Counted, Kept, Opening
<1>7. k \in Counted(p) /\ \A q \in Peers \ {p} : k \notin Counted(q)
  <2>1. k \in Opening(p) /\ \A q \in Peers \ {p} : k \notin Opening(q)
    BY <1>1, <1>2, Members
  <2> QED
    BY <1>2, <2>1 DEF Counted, Kept, Opening
<1>8. Cardinality(Counted(p)') = Cardinality(Counted(p)) - 1
  BY <1>2, <1>6, <1>7, OneLess, FiniteParts
<1>9. ref'[p] = ref[p] + -1 /\ \A q \in Peers \ {p} : ref'[q] = ref[q]
  BY <1>1, <1>2 DEF IInv, TypeOK, PeersOK
<1>10. \A q \in Peers : Publishing(q)' = Publishing(q)
  BY <1>3, PublishingSame
<1>11. \A q \in Peers \ {p} : Counted(q)' = Counted(q)
  BY <1>6, <1>7
<1>12. p \in Peers
  BY <1>2
<1> HIDE DEF p
<1>13. Cardinality(Counted(p)') + Cardinality(Publishing(p)')
        = Cardinality(Counted(p)) + Cardinality(Publishing(p)) + -1
  BY <1>8, <1>10, <1>12, FiniteParts
<1> QED
  BY <1>1, <1>3, <1>5, <1>9, <1>10, <1>11, <1>12, <1>13, CountMoves
LEMMA AppendOnce ==
    ASSUME NEW s \in Seq(Packets), NEW k \in Packets
    PROVE  /\ SetOf(Append(s, k)) = SetOf(s) \cup {k}
           /\ Once(s) /\ k \notin SetOf(s) => Once(Append(s, k))
<1> DEFINE r == Append(s, k)  n == Len(s)
<1>1. /\ n \in Nat /\ DOMAIN s = 1 .. n /\ DOMAIN r = 1 .. n + 1
      /\ \A i \in 1 .. n : r[i] = s[i]
      /\ r[n + 1] = k
  BY AppendProperties, LenProperties
<1> HIDE DEF r, n
<1>2. SetOf(r) \subseteq SetOf(s) \cup {k}
  <2>1. ASSUME NEW i \in DOMAIN r PROVE r[i] \in SetOf(s) \cup {k}
    <3>1. CASE i = n + 1
      BY <1>1, <3>1
    <3>2. CASE i # n + 1
      <4>1. i \in DOMAIN s /\ r[i] = s[i]
        BY <1>1, <3>2
      <4> QED
        BY <4>1 DEF SetOf
    <3> QED
      BY <3>1, <3>2
  <2> QED
    BY <2>1 DEF SetOf
<1>3. SetOf(s) \subseteq SetOf(r) /\ k \in SetOf(r)
  <2>1. /\ n + 1 \in DOMAIN r /\ r[n + 1] = k
        /\ \A i \in DOMAIN s : i \in DOMAIN r /\ r[i] = s[i]
    BY <1>1
  <2> QED
    BY <2>1 DEF SetOf
<1>4. ASSUME Once(s), k \notin SetOf(s) PROVE Once(r)
  <2>1. \A i \in DOMAIN s : s[i] # k
    BY <1>4 DEF SetOf
  <2>2. ASSUME NEW i \in DOMAIN r, NEW j \in DOMAIN r, r[i] = r[j] PROVE i = j
    <3>1. i = n + 1 \/ (i \in DOMAIN s /\ r[i] = s[i])
      BY <1>1
    <3>2. j = n + 1 \/ (j \in DOMAIN s /\ r[j] = s[j])
      BY <1>1
    <3> QED
      BY <1>1, <1>4, <2>1, <2>2, <3>1, <3>2 DEF Once
  <2> QED
    BY <2>2 DEF Once
<1> QED
  BY <1>2, <1>3, <1>4 DEF r

LEMMA InsertCounts ==
    ASSUME IInv, RefInv, ReferencesExact, NEW t \in Producers, Insert(t)
    PROVE  RefInv' /\ ReferencesExact'
<1>0. pc[t] = "insert"
  BY DEF Insert, At
<1>1. PICK k \in Packets, p \in Peers :
        /\ k = Head(list[t]) /\ PeerOf[k] = p /\ \A q \in Peers : k \notin Kept(q)
        /\ Fresh(t) = list[t] /\ list[t] \in Seq(Packets) /\ list[t] # <<>>
        /\ \A u \in Producers \ {t} : pc[u] \in {"insert", "cleanup"} => Head(list[u]) # k
  BY <1>0, HeadIsFresh
<1>2. /\ t \in Threads /\ t \notin Workers
      /\ UNCHANGED <<calls, list, held, packet, ref, removal>>
      /\ pc' = [pc EXCEPT ![t] = pc'[t]]
  BY PipelineAssumption DEF Insert, Threads, workVars, Goto, IInv, TypeOK, ThreadsOK
<1>3. \A u \in Threads \ {t} : pc'[u] = pc[u]
  BY <1>2 DEF IInv, TypeOK, ThreadsOK
<1>4. CASE Goto(t, "cleanup") /\ UNCHANGED <<state, queueVars, inUse>>
  <2>1. pc'[t] = "cleanup" /\ UNCHANGED <<fifo, peeked, inUse>>
    BY <1>2, <1>4 DEF Goto, IInv, TypeOK, ThreadsOK, queueVars
  <2>2. Unhandled /\ Unpublished
    BY <1>0, <1>2, <1>3, <2>1 DEF Unhandled, Unpublished, Threads
  <2>3. Unopened
    BY <1>0, <1>2, <1>3, <2>1 DEF Unopened, Fresh, Threads
  <2> QED
    BY <1>2, <2>1, <2>2, <2>3, RefQuiet, KeptSame, CountQuiet
<1>5. CASE /\ inUse' = [inUse EXCEPT ![p] = @ + 1]
           /\ fifo' = [fifo EXCEPT ![p] = Append(@, k)]
           /\ Goto(t, "link") /\ UNCHANGED peeked
  <2>1. /\ pc'[t] = "link" /\ peeked' = peeked
        /\ fifo[p] \in Seq(Packets) /\ fifo'[p] = Append(fifo[p], k)
        /\ \A q \in Peers \ {p} : fifo'[q] = fifo[q]
        /\ inUse'[p] = inUse[p] + 1 /\ \A q \in Peers \ {p} : inUse'[q] = inUse[q]
    BY <1>1, <1>2, <1>5 DEF Goto, IInv, TypeOK, ThreadsOK, QueuesOK, PeersOK
  <2>2. Fresh(t)' = Tail(Fresh(t)) /\ \A u \in Producers \ {t} : Fresh(u)' = Fresh(u)
    BY <1>1, <1>2, <1>3, <2>1 DEF Fresh, Threads
  <2>3. /\ FreshInv'
        /\ \A u \in Producers : SetOf(Fresh(u)') \subseteq SetOf(Fresh(u))
        /\ \A u \in Producers : k \notin SetOf(Fresh(u)')
        /\ \A c \in calls : k \notin SetOf(c)
    BY <1>1, <1>2, <2>2, FreshShrinks DEF RefInv
  <2>4. SetOf(fifo'[p]) = SetOf(fifo[p]) \cup {k}
    BY <2>1, AppendOnce
  <2>5. \A w \in Workers : pc'[w] = pc[w] /\ held'[w] = held[w] /\ packet'[w] = packet[w]
    BY <1>2, <1>3 DEF Threads
  <2>6. \A q \in Peers \ {p} : Protected(q)' = Protected(q) /\ Kept(q)' = Kept(q)
    <3>1. ASSUME NEW q \in Peers \ {p}, NEW x
          PROVE  /\ x \in Protected(q)' <=> x \in Protected(q)
                 /\ x \in Kept(q)' <=> x \in Kept(q)
      BY <2>1, <2>5, Members, MembersNext
    <3> QED
      BY <3>1
  <2>7. Protected(p)' = Protected(p) \cup {k} /\ Kept(p)' = Kept(p) \cup {k}
    <3>1. \A l \in Taking : Hand(p, l)' = Hand(p, l)
      BY <2>5, HandSame
    <3>2. Hand(p, "handle")' = Hand(p, "handle") /\ Hand(p, "putPacket")' = Hand(p, "putPacket")
      BY <3>1 DEF Taking
    <3>3. SetOf(fifo'[p]) = SetOf(fifo[p]) \cup {k} /\ peeked'[p] = peeked[p]
      BY <2>1, <2>4
    <3>4. Protected(p)' = Protected(p) \cup {k}
      <4>1. Protected(p)' = SetOf(fifo'[p]) \cup ({peeked'[p]} \ {Nil}) \cup Hand(p, "handle")'
        BY Parts
      <4>2. Protected(p) = SetOf(fifo[p]) \cup ({peeked[p]} \ {Nil}) \cup Hand(p, "handle")
        BY Parts
      <4> QED
        BY <3>2, <3>3, <4>1, <4>2
    <3> QED
      BY <3>2, <3>4, Parts
  <2>8. NewInv'
    <3>1. ASSUME NEW q \in Peers, NEW u \in Producers
          PROVE  Kept(q)' \cap SetOf(Fresh(u)') = {}
      <4>1. Kept(q) \cap SetOf(Fresh(u)) = {}
        BY DEF RefInv, NewInv
      <4> QED
        BY <2>3, <2>6, <2>7, <4>1
    <3>2. ASSUME NEW q \in Peers, NEW c \in calls
          PROVE  Kept(q)' \cap SetOf(c) = {}
      <4>1. Kept(q) \cap SetOf(c) = {}
        BY DEF RefInv, NewInv
      <4> QED
        BY <2>3, <2>6, <2>7, <4>1
    <3> QED
      BY <1>2, <3>1, <3>2 DEF NewInv
  <2>9. k \notin SetOf(fifo[p]) /\ k # peeked[p]
    BY <1>1, Members, PipelineAssumption
  <2>10. \A w \in Workers : held[w] = p /\ pc[w] \in Taking => packet[w] # k
    BY <1>1, Members DEF Taking
  <2>11. KeptInv'
    <3>1. ASSUME NEW q \in Peers
          PROVE  /\ Once(fifo'[q])
                 /\ peeked'[q] \notin SetOf(fifo'[q])
                 /\ \A x \in Kept(q)' : PeerOf[x] = q
                 /\ \A w \in Workers : held'[w] = q /\ pc'[w] \in Taking =>
                      packet'[w] \notin SetOf(fifo'[q]) /\ packet'[w] # peeked'[q]
      <4>1. CASE q = p
        <5>1. Once(fifo'[p])
          BY <1>1, <2>1, <2>9, AppendOnce DEF RefInv, KeptInv
        <5>2. peeked'[p] \notin SetOf(fifo'[p])
          BY <1>1, <2>1, <2>4, <2>9 DEF RefInv, KeptInv
        <5>3. \A x \in Kept(p)' : PeerOf[x] = p
          BY <1>1, <2>7 DEF RefInv, KeptInv
        <5>4. \A w \in Workers : held'[w] = p /\ pc'[w] \in Taking =>
                packet'[w] \notin SetOf(fifo'[p]) /\ packet'[w] # peeked'[p]
          BY <1>1, <2>1, <2>4, <2>5, <2>10 DEF RefInv, KeptInv
        <5> QED
          BY <4>1, <5>1, <5>2, <5>3, <5>4
      <4>2. CASE q # p
        BY <2>1, <2>5, <2>6, <4>2 DEF RefInv, KeptInv
      <4> QED
        BY <4>1, <4>2
    <3> QED
      BY <3>1 DEF KeptInv
  <2>12. \A q \in Peers : Opening(q)' = Opening(q) \ {k}
    <3>1. \A u \in Producers \ {t} : pc'[u] = pc[u] /\ list'[u] = list[u]
      BY <1>2, <1>3 DEF Threads
    <3> QED
      BY <1>0, <1>1, <2>1, <3>1, OpeningEnded
  <2>13. \A q \in Peers : Counted(q)' = Counted(q)
    <3>1. k \in Opening(p) /\ \A q \in Peers \ {p} : k \notin Opening(q)
      BY <1>0, <1>1, Members
    <3> QED
      BY <2>6, <2>7, <2>12, <3>1 DEF Counted, Kept, Opening
  <2>14. Unpublished
    BY <1>0, <1>2, <1>3, <2>1 DEF Unpublished
  <2>15. k \notin Protected(p)
    BY <1>1, Members
  <2>16. ReferencesExact'
    <3>1. ASSUME NEW q \in Peers
          PROVE  inUse'[q] = Cardinality(Protected(q)')
      <4>1. CASE q = p
        <5>1. Cardinality(Protected(p)') = Cardinality(Protected(p)) + 1
          BY <2>7, <2>15, OneMore, FiniteParts
        <5> QED
          BY <2>1, <4>1, <5>1 DEF ReferencesExact
      <4>2. CASE q # p
        BY <2>1, <2>6, <4>2 DEF ReferencesExact
      <4> QED
        BY <4>1, <4>2
    <3> QED
      BY <1>2, <2>13, <2>14, <3>1, PublishingSame DEF ReferencesExact
  <2> QED
    BY <2>3, <2>8, <2>11, <2>16 DEF RefInv
<1> QED
  BY <1>1, <1>4, <1>5 DEF Insert
-----------------------------------------------------------------------------
(* QueueEnqueuePerPeer has a reference of its own. *)
LEMMA PublishCounts ==
    ASSUME IInv, RefInv, ReferencesExact, NEW t \in Threads, Publish(t)
    PROVE  RefInv' /\ ReferencesExact'
<1>0. Unhandled /\ Unopened
  BY ListQuiet
<1>1. PICK p \in Peers :
        /\ PeerOf[Head(list[t])] = p
        /\ pc[t] = "publish" /\ pc'[t] = "enqueue"
        /\ \A u \in Threads \ {t} : pc'[u] = pc[u]
        /\ UNCHANGED <<list, inUse, removal>>
        /\ ref'[p] = ref[p] + 1 /\ \A q \in Peers \ {p} : ref'[q] = ref[q]
  <2>1. pc[t] = "publish" /\ list[t] \in Seq(Packets) /\ list[t] # <<>>
    BY DEF Publish, At, IInv, ListsInv, Listing, TypeOK, ThreadsOK
  <2>2. Head(list[t]) \in Packets /\ PeerOf[Head(list[t])] \in Peers
    BY <2>1, PipelineAssumption
  <2> QED
    BY <2>1, <2>2 DEF Publish, Goto, IInv, TypeOK, ThreadsOK, PeersOK
<1>2. Publishing(p)' = Publishing(p) \cup {t} /\ t \notin Publishing(p)
  <2>1. \A u \in Threads : u \in Publishing(p)' <=> u \in Publishing(p) \/ u = t
    BY <1>1 DEF Publishing
  <2> QED
    BY <1>1, <2>1 DEF Publishing
<1>3. \A q \in Peers \ {p} : Publishing(q)' = Publishing(q)
  <2>1. ASSUME NEW q \in Peers \ {p}, NEW u \in Threads
        PROVE  u \in Publishing(q)' <=> u \in Publishing(q)
    BY <1>1 DEF Publishing
  <2> QED
    BY <2>1 DEF Publishing
<1>4. Cardinality(Publishing(p)') = Cardinality(Publishing(p)) + 1
  BY <1>2, OneMore, FiniteParts
<1>5. /\ RefInv' /\ \A q \in Peers : Counted(q)' = Counted(q)
      /\ \A q \in Peers : Protected(q)' = Protected(q)
  BY <1>0, RefQuiet, KeptSame
<1>6. Cardinality(Counted(p)') + Cardinality(Publishing(p)')
        = Cardinality(Counted(p)) + Cardinality(Publishing(p)) + 1
  BY <1>4, <1>5, FiniteParts
<1> QED
  BY <1>1, <1>3, <1>5, <1>6, CountMoves

LEMMA PutCounts ==
    ASSUME IInv, RefInv, ReferencesExact, NEW t \in Threads, Put(t)
    PROVE  RefInv' /\ ReferencesExact'
<1>0. Unhandled /\ Unopened
  BY ListQuiet
<1>1. PICK p \in Peers :
        /\ PeerOf[Head(list[t])] = p
        /\ pc[t] = "put" /\ pc'[t] \in {"publish", "dequeue", "bump"}
        /\ \A u \in Threads \ {t} : pc'[u] = pc[u] /\ list'[u] = list[u]
        /\ UNCHANGED <<inUse, removal>>
        /\ ref'[p] = ref[p] + -1 /\ \A q \in Peers \ {p} : ref'[q] = ref[q]
  <2>1. pc[t] = "put" /\ list[t] \in Seq(Packets) /\ list[t] # <<>>
    BY DEF Put, At, IInv, ListsInv, Listing, TypeOK, ThreadsOK
  <2>2. Head(list[t]) \in Packets /\ PeerOf[Head(list[t])] \in Peers
    BY <2>1, PipelineAssumption
  <2> QED
    BY <2>1, <2>2 DEF Put, Goto, IInv, TypeOK, ThreadsOK, PeersOK
<1>2. Publishing(p)' = Publishing(p) \ {t} /\ t \in Publishing(p)
  <2>1. \A u \in Threads : u \in Publishing(p)' <=> u \in Publishing(p) /\ u # t
    BY <1>1 DEF Publishing
  <2> QED
    BY <1>1, <2>1 DEF Publishing
<1>3. \A q \in Peers \ {p} : Publishing(q)' = Publishing(q)
  <2>1. ASSUME NEW q \in Peers \ {p}, NEW u \in Threads
        PROVE  u \in Publishing(q)' <=> u \in Publishing(q)
    BY <1>1 DEF Publishing
  <2> QED
    BY <2>1 DEF Publishing
<1>4. Cardinality(Publishing(p)') = Cardinality(Publishing(p)) - 1
  BY <1>2, OneLess, FiniteParts
<1>5. /\ RefInv' /\ \A q \in Peers : Counted(q)' = Counted(q)
      /\ \A q \in Peers : Protected(q)' = Protected(q)
  BY <1>0, RefQuiet, KeptSame
<1>6. Cardinality(Counted(p)') + Cardinality(Publishing(p)')
        = Cardinality(Counted(p)) + Cardinality(Publishing(p)) + -1
  BY <1>4, <1>5, FiniteParts
<1> QED
  BY <1>1, <1>3, <1>5, <1>6, CountMoves

(* What keeps everything. *)
LEMMA QuietCounts ==
    ASSUME IInv, RefInv, ReferencesExact, Unhandled, Unopened, Unpublished,
           UNCHANGED <<ref, inUse>>,
           \A p \in Peers :
             removal'[p] \in {"no", "waiting"} <=> removal[p] \in {"no", "waiting"}
    PROVE  RefInv' /\ ReferencesExact'
  BY RefQuiet, KeptSame, CountQuiet

LEMMA LinkCounts ==
    ASSUME IInv, RefInv, ReferencesExact, NEW t \in Threads,
           \/ t \in Producers /\ (Link(t) \/ Produce(t) \/ Bump(t))
           \/ PeerSerialEnqueueIfNotBusy(t)
    PROVE  RefInv' /\ ReferencesExact'
<1>1. Unhandled /\ Unopened
  BY ListQuiet
<1>2. UNCHANGED <<ref, inUse, removal>>
  BY DEF Link, Produce, Bump, PeerSerialEnqueueIfNotBusy, peerVars
<1>3. \A u \in Threads \ {t} : pc'[u] = pc[u] /\ list'[u] = list[u]
  BY DEF Link, Produce, Bump, PeerSerialEnqueueIfNotBusy, Goto, IInv, TypeOK, ThreadsOK
<1>4. \/ /\ pc[t] = "enqueue" /\ pc'[t] = "put" /\ list'[t] = list[t]
      \/ /\ pc[t] \in {"link", "produce", "bump"}
         /\ pc'[t] \in {"lookup", "produce", "idle", "bump", "publish"}
  BY DEF Link, Produce, Bump, PeerSerialEnqueueIfNotBusy, At, Goto, AfterPacket,
         IInv, TypeOK, ThreadsOK
<1>5. Unpublished
  BY <1>3, <1>4 DEF Unpublished
<1> QED
  BY <1>1, <1>2, <1>5, QuietCounts

LEMMA ServingCounts ==
    ASSUME IInv, RefInv, ReferencesExact, NEW w \in Workers, Serving(w)
    PROVE  RefInv' /\ ReferencesExact'
  BY ServingQuiet, QuietCounts

LEMMA RemovalCounts ==
    ASSUME IInv, RefInv, ReferencesExact, NEW p \in Peers,
           PeerRemove(p) \/ PeerRemoveDone(p) \/ RcuRelease(p)
    PROVE  RefInv' /\ ReferencesExact'
<1>1. Unhandled /\ Unopened /\ Unpublished
  BY RemovalQuiet
<1>2. CASE PeerRemove(p) \/ RcuRelease(p)
  <2>1. /\ UNCHANGED <<ref, inUse>>
        /\ \A q \in Peers :
             removal'[q] \in {"no", "waiting"} <=> removal[q] \in {"no", "waiting"}
    BY <1>2 DEF PeerRemove, RcuRelease, IInv, TypeOK, PeersOK
  <2> QED
    BY <1>1, <2>1, QuietCounts
<1>3. CASE PeerRemoveDone(p)
  <2>1. /\ removal[p] = "waiting" /\ removal'[p] = "removed"
        /\ \A q \in Peers \ {p} : removal'[q] = removal[q] /\ ref'[q] = ref[q]
        /\ inUse' = inUse /\ ref'[p] = ref[p] - 1
    BY <1>3 DEF PeerRemoveDone, IInv, TypeOK, PeersOK
  <2>2. /\ RefInv'
        /\ \A q \in Peers : /\ Counted(q)' = Counted(q) /\ Protected(q)' = Protected(q)
                            /\ Publishing(q)' = Publishing(q)
    BY <1>1, RefQuiet, KeptSame, PublishingSame
  <2>3. ASSUME NEW q \in Peers
        PROVE  /\ inUse'[q] = Cardinality(Protected(q)')
               /\ ref'[q] = Cardinality(Counted(q)') + Cardinality(Publishing(q)')
                            + (IF removal'[q] \in {"no", "waiting"} THEN 1 ELSE 0)
    <3>1. CASE q # p
      BY <2>1, <2>2, <3>1 DEF ReferencesExact
    <3>2. CASE q = p
      BY <2>1, <2>2, <3>2, FiniteParts DEF ReferencesExact
    <3> QED
      BY <3>1, <3>2
  <2> QED
    BY <2>2, <2>3 DEF ReferencesExact
<1> QED
  BY <1>2, <1>3
-----------------------------------------------------------------------------
(* A worker and the queue of its peer. *)
LEMMA OneHand ==
    ASSUME IInv, NEW w \in Workers, NEW p \in Peers, held[w] = p, held' = held, ~Freed(p)
    PROVE  \A l : /\ Hand(p, l) = IF pc[w] = l THEN {packet[w]} ELSE {}
                  /\ Hand(p, l)' = IF pc'[w] = l THEN {packet'[w]} ELSE {}
<1>1. \A v \in Workers : held[v] = p <=> v = w
  BY PipelineAssumption DEF IInv, SingleConsumer
<1>2. ASSUME NEW l
      PROVE  /\ {v \in Workers : held[v] = p /\ pc[v] = l} = IF pc[w] = l THEN {w} ELSE {}
             /\ {v \in Workers : held'[v] = p /\ pc'[v] = l} = IF pc'[w] = l THEN {w} ELSE {}
  BY <1>1
<1> QED
  BY <1>2 DEF Hand, At

(* A step of worker w on the queue of p, and what has to be said of it. *)
LoopStep(w, p) ==
    /\ held[w] = p /\ held' = held /\ calls' = calls /\ list' = list
    /\ \A u \in Threads \ {w} : pc'[u] = pc[u]
    /\ \A v \in Workers \ {w} : packet'[v] = packet[v]
    /\ \A q \in Peers \ {p} : fifo'[q] = fifo[q] /\ peeked'[q] = peeked[q]
    /\ {pc[w], pc'[w]} \cap {"enqueue", "put"} = {}

LEMMA LoopSame ==
    ASSUME IInv, NEW w \in Workers, NEW p \in Peers, LoopStep(w, p)
    PROVE  /\ Unopened /\ Unpublished
           /\ \A q \in Peers : Opening(q)' = Opening(q)
           /\ \A q \in Peers \ {p} : Protected(q)' = Protected(q) /\ Kept(q)' = Kept(q)
<1>1. w \in Threads /\ w \notin Producers
  BY PipelineAssumption DEF Threads
<1>2. Unopened
  BY <1>1, ProducersSame DEF LoopStep, Threads
<1>3. Unpublished
  BY <1>1 DEF LoopStep, Unpublished
<1>4. \A q \in Peers : Opening(q)' = Opening(q)
  <2>1. ASSUME NEW q \in Peers, NEW x PROVE x \in Opening(q)' <=> x \in Opening(q)
    BY <1>2, Members, MembersNext DEF Unopened
  <2> QED
    BY <2>1
<1>5. ASSUME NEW q \in Peers \ {p}
      PROVE  Protected(q)' = Protected(q) /\ Kept(q)' = Kept(q)
  <2>1. \A v \in Workers :
          \/ pc'[v] = pc[v] /\ held'[v] = held[v] /\ packet'[v] = packet[v]
          \/ held'[v] # q /\ held[v] # q
    BY DEF LoopStep, Threads
  <2>2. Hand(q, "handle")' = Hand(q, "handle")
    BY <2>1, HandSame
  <2>3. Hand(q, "putPacket")' = Hand(q, "putPacket")
    BY <2>1, HandSame
  <2>4. fifo'[q] = fifo[q] /\ peeked'[q] = peeked[q]
    BY DEF LoopStep
  <2>5. Protected(q)' = Protected(q)
    BY <2>2, <2>4, Parts
  <2> QED
    BY <2>3, <2>5, Parts
<1> QED
  BY <1>2, <1>3, <1>4, <1>5

LEMMA LoopKeeps ==
    ASSUME IInv, RefInv, NEW w \in Workers, NEW p \in Peers, LoopStep(w, p), ~Freed(p),
           Once(fifo'[p]), peeked'[p] \notin SetOf(fifo'[p]),
           pc'[w] \in Taking => packet'[w] \notin SetOf(fifo'[p]) /\ packet'[w] # peeked'[p],
           Kept(p)' \subseteq Kept(p)
    PROVE  RefInv'
<1>1. /\ Unopened
      /\ \A q \in Peers \ {p} : Kept(q)' = Kept(q)
  BY LoopSame
<1>2. \A q \in Peers : Kept(q)' \subseteq Kept(q)
  BY <1>1
<1>3. FreshInv'
  BY <1>1 DEF RefInv, FreshInv, Unopened
<1>4. NewInv'
  <2>1. ASSUME NEW q \in Peers, NEW u \in Producers
        PROVE  Kept(q)' \cap SetOf(Fresh(u)') = {}
    <3>1. Kept(q) \cap SetOf(Fresh(u)) = {} /\ Fresh(u)' = Fresh(u)
      BY <1>1 DEF RefInv, NewInv, Unopened
    <3> QED
      BY <1>2, <3>1
  <2>2. ASSUME NEW q \in Peers, NEW c \in calls'
        PROVE  Kept(q)' \cap SetOf(c) = {}
    <3>1. Kept(q) \cap SetOf(c) = {}
      BY <1>1 DEF RefInv, NewInv, Unopened
    <3> QED
      BY <1>2, <3>1
  <2> QED
    BY <2>1, <2>2 DEF NewInv
<1>5. KeptInv'
  <2>1. ASSUME NEW q \in Peers
        PROVE  /\ Once(fifo'[q])
               /\ peeked'[q] \notin SetOf(fifo'[q])
               /\ \A x \in Kept(q)' : PeerOf[x] = q
               /\ \A v \in Workers : held'[v] = q /\ pc'[v] \in Taking =>
                    packet'[v] \notin SetOf(fifo'[q]) /\ packet'[v] # peeked'[q]
    <3>1. \A x \in Kept(q)' : PeerOf[x] = q
      BY <1>2 DEF RefInv, KeptInv
    <3>2. CASE q = p
      <4>1. \A v \in Workers : held'[v] = p => v = w
        BY PipelineAssumption DEF LoopStep, IInv, SingleConsumer
      <4> QED
        BY <3>1, <3>2, <4>1
    <3>3. CASE q # p
      <4>1. /\ fifo'[q] = fifo[q] /\ peeked'[q] = peeked[q]
            /\ \A v \in Workers : held'[v] = q =>
                 held[v] = q /\ pc'[v] = pc[v] /\ packet'[v] = packet[v]
        BY <3>3 DEF LoopStep, Threads
      <4> QED
        BY <3>1, <4>1 DEF RefInv, KeptInv
    <3> QED
      BY <3>2, <3>3
  <2> QED
    BY <2>1 DEF KeptInv
<1> QED
  BY <1>3, <1>4, <1>5 DEF RefInv

LEMMA PeekCounts ==
    ASSUME IInv, FreedInv, RefInv, ReferencesExact, NEW w \in Workers, PrevQueuePeek(w)
    PROVE  RefInv' /\ ReferencesExact'
<1>1. PICK p \in Peers : held[w] = p
  BY DEF PrevQueuePeek, At, IInv, HandsInv, Holding, TypeOK, SerialOK
<1>2. /\ pc[w] = "peek" /\ pc'[w] \in {"state", "retire", "indicate"}
      /\ UNCHANGED <<calls, list, held, ref, inUse, removal>>
      /\ \A u \in Threads \ {w} : pc'[u] = pc[u]
      /\ \A v \in Workers \ {w} : packet'[v] = packet[v]
  BY DEF PrevQueuePeek, At, Goto, AfterLoop, peerVars, IInv, TypeOK, ThreadsOK, WorkOK,
         Threads
<1>3. CASE UNCHANGED <<peeked, fifo>>
  <2>1. Unhandled
    BY <1>2, <1>3 DEF Unhandled, Taking, Threads
  <2>2. LoopStep(w, p)
    BY <1>1, <1>2, <1>3 DEF LoopStep
  <2> QED
    BY <1>2, <2>1, <2>2, LoopSame, QuietCounts
<1>4. CASE ~UNCHANGED <<peeked, fifo>>
  <2>1. PICK k \in Packets :
          /\ fifo[p] \in Seq(Packets) /\ fifo[p] # <<>> /\ k = Head(fifo[p])
          /\ peeked[p] = Nil /\ peeked' = [peeked EXCEPT ![p] = k]
          /\ fifo' = [fifo EXCEPT ![p] = Tail(@)]
    BY <1>1, <1>4 DEF PrevQueuePeek, IInv, TypeOK, QueuesOK
  <2>0. ~Freed(p)
    BY <2>1 DEF FreedInv
  <2>2. /\ peeked'[p] = k /\ fifo'[p] = Tail(fifo[p])
        /\ \A q \in Peers \ {p} : fifo'[q] = fifo[q] /\ peeked'[q] = peeked[q]
    BY <2>1 DEF IInv, TypeOK, QueuesOK
  <2>3. LoopStep(w, p)
    BY <1>1, <1>2, <2>2 DEF LoopStep
  <2>4. /\ SetOf(fifo[p]) = {k} \cup SetOf(fifo'[p])
        /\ Once(fifo'[p]) /\ k \notin SetOf(fifo'[p])
    BY <2>1, <2>2, TailOnce DEF RefInv, KeptInv
  <2>5. /\ Hand(p, "handle") = {} /\ Hand(p, "handle")' = {}
        /\ Hand(p, "putPacket") = {} /\ Hand(p, "putPacket")' = {}
    BY <1>1, <1>2, <2>0, OneHand
  <2>6. Protected(p)' = Protected(p)
    <3>1. Protected(p) = SetOf(fifo[p]) \cup ({Nil} \ {Nil}) \cup {}
      BY <2>1, <2>5, Parts
    <3>2. Protected(p)' = SetOf(fifo'[p]) \cup ({k} \ {Nil}) \cup {}
      BY <2>2, <2>5, Parts
    <3>3. k # Nil
      BY PipelineAssumption
    <3> QED
      BY <2>4, <3>1, <3>2, <3>3
  <2>7. Kept(p)' = Kept(p)
    BY <2>5, <2>6, Parts
  <2>8. RefInv'
    BY <1>2, <2>0, <2>2, <2>3, <2>4, <2>7, LoopKeeps DEF Taking
  <2>9. \A q \in Peers : Protected(q)' = Protected(q) /\ Counted(q)' = Counted(q)
    BY <2>3, <2>6, <2>7, LoopSame DEF Counted, Kept, Opening
  <2> QED
    BY <1>2, <2>3, <2>8, <2>9, LoopSame, CountQuiet
<1> QED
  BY <1>3, <1>4
LEMMA ReadStateCounts ==
    ASSUME IInv, OrderInv, FreedInv, RefInv, ReferencesExact, NEW w \in Workers,
           ReadState(w)
    PROVE  RefInv' /\ ReferencesExact'
<1>1. PICK p \in Peers : held[w] = p
  BY DEF ReadState, At, IInv, HandsInv, Holding, TypeOK, SerialOK
<1>2. /\ pc[w] = "state" /\ pc'[w] \in {"handle", "retire", "indicate"}
      /\ UNCHANGED <<calls, list, held, fifo, ref, inUse, removal>>
      /\ \A u \in Threads \ {w} : pc'[u] = pc[u]
      /\ \A v \in Workers \ {w} : packet'[v] = packet[v]
  BY DEF ReadState, At, Goto, AfterLoop, peerVars, IInv, TypeOK, ThreadsOK, WorkOK,
         Threads
<1>3. CASE pc'[w] # "handle"
  <2>1. peeked' = peeked
    BY <1>3 DEF ReadState, Goto, AfterLoop, Threads, IInv, TypeOK, ThreadsOK
  <2>2. Unhandled
    BY <1>2, <1>3, <2>1 DEF Unhandled, Taking, Threads
  <2>3. LoopStep(w, p)
    BY <1>1, <1>2, <2>1 DEF LoopStep
  <2> QED
    BY <1>2, <2>2, <2>3, LoopSame, QuietCounts
<1>4. CASE pc'[w] = "handle"
  <2>0. ~Freed(p)
    BY <1>1, <1>2 DEF FreedInv, Carrying
  <2>1. peeked' = [peeked EXCEPT ![p] = Nil] /\ packet' = packet
    BY <1>1, <1>4 DEF ReadState, Goto, AfterLoop, Threads, IInv, TypeOK, ThreadsOK
  <2>2. /\ peeked'[p] = Nil /\ \A q \in Peers \ {p} : peeked'[q] = peeked[q]
    BY <2>1 DEF IInv, TypeOK, QueuesOK
  <2>3. PICK k \in Packets : packet[w] = k /\ peeked[p] = k
    BY <1>1, <1>2 DEF OrderInv, TakenInv, IInv, HandsInv, Carrying, TypeOK, WorkOK
  <2>4. LoopStep(w, p)
    BY <1>1, <1>2, <1>4, <2>1, <2>2 DEF LoopStep
  <2>5. /\ Hand(p, "handle") = {} /\ Hand(p, "handle")' = {k}
        /\ Hand(p, "putPacket") = {} /\ Hand(p, "putPacket")' = {}
    BY <1>1, <1>2, <1>4, <2>0, <2>1, <2>3, OneHand
  <2>6. Protected(p)' = Protected(p)
    <3>1. Protected(p) = SetOf(fifo[p]) \cup ({k} \ {Nil}) \cup {}
      BY <2>3, <2>5, Parts
    <3>2. Protected(p)' = SetOf(fifo[p]) \cup ({Nil} \ {Nil}) \cup {k}
      BY <1>2, <2>2, <2>5, Parts
    <3>3. k # Nil
      BY PipelineAssumption
    <3> QED
      BY <3>1, <3>2, <3>3
  <2>7. Kept(p)' = Kept(p)
    BY <2>5, <2>6, Parts
  <2>8. RefInv'
    <3>1. Once(fifo[p]) /\ k \notin SetOf(fifo[p])
      BY <2>3 DEF RefInv, KeptInv
    <3>2. Nil \notin SetOf(fifo[p]) /\ k # Nil
      BY PipelineAssumption DEF SetOf, IInv, TypeOK, QueuesOK
    <3> QED
      BY <1>2, <2>0, <2>1, <2>2, <2>3, <2>4, <2>7, <3>1, <3>2, LoopKeeps
  <2>9. \A q \in Peers : Protected(q)' = Protected(q) /\ Counted(q)' = Counted(q)
    BY <2>4, <2>6, <2>7, LoopSame DEF Counted, Kept, Opening
  <2> QED
    BY <1>2, <2>4, <2>8, <2>9, LoopSame, CountQuiet
<1> QED
  BY <1>3, <1>4

(* The rundown protection of a packet is given up when it is handled ... *)
LEMMA HandleCounts ==
    ASSUME IInv, FreedInv, RefInv, ReferencesExact, NEW w \in Workers, Handle(w)
    PROVE  RefInv' /\ ReferencesExact'
<1>1. PICK p \in Peers : held[w] = p
  BY DEF Handle, At, IInv, HandsInv, Holding, TypeOK, SerialOK
<1>2. PICK k \in Packets : packet[w] = k
  BY DEF Handle, At, IInv, HandsInv, Carrying, TypeOK, WorkOK
<1>3. /\ pc[w] = "handle" /\ pc'[w] = "putPacket"
      /\ UNCHANGED <<calls, list, held, packet, fifo, peeked, ref, removal>>
      /\ \A u \in Threads \ {w} : pc'[u] = pc[u]
      /\ inUse' = [inUse EXCEPT ![PeerOf[k]] = @ - 1]
  BY <1>2 DEF Handle, At, Goto, queueVars, IInv, TypeOK, ThreadsOK, Threads
<1>0. ~Freed(p)
  BY <1>1, <1>3 DEF FreedInv, Carrying
<1>4. LoopStep(w, p)
  BY <1>1, <1>3 DEF LoopStep
<1>5. /\ Hand(p, "handle") = {k} /\ Hand(p, "handle")' = {}
      /\ Hand(p, "putPacket") = {} /\ Hand(p, "putPacket")' = {k}
  BY <1>0, <1>1, <1>2, <1>3, OneHand
<1>6. k \notin SetOf(fifo[p]) /\ k # peeked[p]
  BY <1>1, <1>2, <1>3 DEF RefInv, KeptInv, Taking
<1>7. Protected(p)' = Protected(p) \ {k} /\ k \in Protected(p)
  <2>1. Protected(p) = SetOf(fifo[p]) \cup ({peeked[p]} \ {Nil}) \cup {k}
    BY <1>5, Parts
  <2>2. Protected(p)' = SetOf(fifo[p]) \cup ({peeked[p]} \ {Nil}) \cup {}
    BY <1>3, <1>5, Parts
  <2> QED
    BY <1>6, <2>1, <2>2
<1>8. Kept(p)' = Kept(p)
  <2>1. Kept(p) = Protected(p) \cup {} /\ Kept(p)' = Protected(p)' \cup {k}
    BY <1>5, Parts
  <2> QED
    BY <1>7, <2>1
<1>9. PeerOf[k] = p
  <2>1. k \in Kept(p)
    BY <1>7, Parts
  <2> QED
    BY <2>1 DEF RefInv, KeptInv
<1>10. RefInv'
  <2>1. Once(fifo[p]) /\ peeked[p] \notin SetOf(fifo[p])
    BY DEF RefInv, KeptInv
  <2> QED
    BY <1>0, <1>2, <1>3, <1>4, <1>6, <1>8, <2>1, LoopKeeps
<1>11. ReferencesExact'
  <2>1. \A q \in Peers : Counted(q)' = Counted(q) /\ Publishing(q)' = Publishing(q)
    BY <1>4, <1>8, LoopSame, PublishingSame DEF Counted, Kept, Opening
  <2>2. inUse'[p] = inUse[p] - 1 /\ \A q \in Peers \ {p} : inUse'[q] = inUse[q]
    BY <1>3, <1>9 DEF IInv, TypeOK, PeersOK
  <2>3. Cardinality(Protected(p)') = Cardinality(Protected(p)) - 1
    BY <1>7, OneLess, FiniteParts
  <2>4. \A q \in Peers : inUse'[q] = Cardinality(Protected(q)')
    <3>1. ASSUME NEW q \in Peers, q # p PROVE inUse'[q] = Cardinality(Protected(q)')
      BY <1>4, <2>2, <3>1, LoopSame DEF ReferencesExact
    <3>2. inUse'[p] = Cardinality(Protected(p)')
      BY <2>2, <2>3 DEF ReferencesExact
    <3> QED
      BY <3>1, <3>2
  <2> QED
    BY <1>3, <2>1, <2>4 DEF ReferencesExact
<1> QED
  BY <1>10, <1>11

(* ... and its reference after that. *)
LEMMA PutPacketCounts ==
    ASSUME IInv, FreedInv, RefInv, ReferencesExact, NEW w \in Workers, PutPacket(w)
    PROVE  RefInv' /\ ReferencesExact'
<1>1. PICK p \in Peers : held[w] = p
  BY DEF PutPacket, At, IInv, HandsInv, Holding, TypeOK, SerialOK
<1>2. PICK k \in Packets : packet[w] = k
  BY DEF PutPacket, At, IInv, HandsInv, Carrying, TypeOK, WorkOK
<1>3. /\ pc[w] = "putPacket" /\ pc'[w] = "peek"
      /\ UNCHANGED <<calls, list, held, fifo, peeked, inUse, removal>>
      /\ \A u \in Threads \ {w} : pc'[u] = pc[u]
      /\ \A v \in Workers \ {w} : packet'[v] = packet[v]
      /\ ref' = [ref EXCEPT ![PeerOf[k]] = @ - 1]
  BY <1>2 DEF PutPacket, At, Goto, queueVars, IInv, TypeOK, ThreadsOK, WorkOK, Threads
<1>0. ~Freed(p)
  BY <1>1, <1>3 DEF FreedInv, Carrying
<1>4. LoopStep(w, p)
  BY <1>1, <1>3 DEF LoopStep
<1>5. /\ Hand(p, "handle") = {} /\ Hand(p, "handle")' = {}
      /\ Hand(p, "putPacket") = {k} /\ Hand(p, "putPacket")' = {}
  BY <1>0, <1>1, <1>2, <1>3, OneHand
<1>6. k \notin SetOf(fifo[p]) /\ k # peeked[p]
  BY <1>1, <1>2, <1>3 DEF RefInv, KeptInv, Taking
<1>7. Protected(p)' = Protected(p) /\ k \notin Protected(p)
  <2>1. Protected(p) = SetOf(fifo[p]) \cup ({peeked[p]} \ {Nil}) \cup {}
    BY <1>5, Parts
  <2>2. Protected(p)' = SetOf(fifo[p]) \cup ({peeked[p]} \ {Nil}) \cup {}
    BY <1>3, <1>5, Parts
  <2> QED
    BY <1>6, <2>1, <2>2
<1>8. Kept(p)' = Kept(p) \ {k} /\ k \in Kept(p)
  <2>1. Kept(p) = Protected(p) \cup {k} /\ Kept(p)' = Protected(p)' \cup {}
    BY <1>5, Parts
  <2> QED
    BY <1>7, <2>1
<1>9. PeerOf[k] = p
  BY <1>8 DEF RefInv, KeptInv
<1>10. RefInv'
  <2>1. Once(fifo[p]) /\ peeked[p] \notin SetOf(fifo[p])
    BY DEF RefInv, KeptInv
  <2> QED
    BY <1>0, <1>3, <1>4, <1>8, <2>1, LoopKeeps DEF Taking
<1>11. k \notin Opening(p)
  <2>1. ASSUME NEW t \in Producers, pc[t] \in {"insert", "cleanup"}, Head(list[t]) = k
        PROVE  FALSE
    BY <1>8, <2>1, HeadIsFresh
  <2> QED
    BY <2>1, Members
<1>12. Counted(p)' = Counted(p) \ {k} /\ k \in Counted(p)
  <2>1. Counted(p) = Kept(p) \cup Opening(p) /\ Counted(p)' = Kept(p)' \cup Opening(p)
    BY <1>4, LoopSame DEF Counted, Kept, Opening
  <2> QED
    BY <1>8, <1>11, <2>1
<1>13. \A q \in Peers : Publishing(q)' = Publishing(q)
  BY <1>4, LoopSame, PublishingSame
<1>14. Cardinality(Counted(p)') + Cardinality(Publishing(p)')
         = Cardinality(Counted(p)) + Cardinality(Publishing(p)) + -1
  <2>1. Cardinality(Counted(p)') = Cardinality(Counted(p)) - 1
    BY <1>12, OneLess, FiniteParts
  <2> QED
    BY <1>13, <2>1, FiniteParts
<1>15. ref'[p] = ref[p] + -1 /\ \A q \in Peers \ {p} : ref'[q] = ref[q]
  BY <1>3, <1>9 DEF IInv, TypeOK, PeersOK
<1>16. \A q \in Peers \ {p} : Counted(q)' = Counted(q) /\ Protected(q)' = Protected(q)
  BY <1>4, LoopSame DEF Counted, Kept, Opening
<1> QED
  BY <1>3, <1>7, <1>10, <1>13, <1>14, <1>15, <1>16, CountMoves

-----------------------------------------------------------------------------
LEMMA InitCounts == Init => RefInv /\ ReferencesExact
<1> SUFFICES ASSUME Init PROVE RefInv /\ ReferencesExact
  OBVIOUS
<1>1. \A t \in Threads : pc[t] \in {"idle", "wait"}
  BY DEF Init
<1>2. \A t \in Producers : Fresh(t) = <<>>
  BY <1>1 DEF Fresh, Threads
<1>3. \A p \in Peers : SetOf(fifo[p]) = {} /\ peeked[p] = Nil /\ fifo[p] = <<>>
  BY DEF Init, SetOf
<1>4. SetOf(<<>>) = {} /\ Once(<<>>)
  BY DEF SetOf, Once
<1>5. ASSUME NEW p \in Peers
      PROVE  Protected(p) = {} /\ Kept(p) = {} /\ Counted(p) = {} /\ Publishing(p) = {}
  <2>1. \A k : k \notin Protected(p)
    BY <1>1, <1>3, Members DEF Threads
  <2>2. \A k : k \notin Kept(p)
    BY <1>1, <2>1, Members DEF Threads
  <2>3. \A k : k \notin Opening(p)
    BY <1>1, Members DEF Threads
  <2>4. Publishing(p) = {}
    BY <1>1 DEF Publishing
  <2> QED
    BY <2>1, <2>2, <2>3, <2>4 DEF Counted, Kept, Opening
<1>6. /\ \A c \in calls : Once(c)
      /\ \A c, d \in calls : c # d => SetOf(c) \cap SetOf(d) = {}
  <2>1. calls \in {RxCalls, TxCalls}
    BY DEF Init
  <2>2. \A c, d \in calls : \A i \in DOMAIN c, j \in DOMAIN d : c[i] = d[j] => c = d /\ i = j
    BY <2>1, PacketsAssumption
  <2> QED
    BY <2>2 DEF Once, SetOf
<1>7. FreshInv
  BY <1>2, <1>4, <1>6 DEF FreshInv
<1>8. NewInv /\ KeptInv
  BY <1>3, <1>4, <1>5, <1>1 DEF NewInv, KeptInv, Taking, Threads
<1>9. ReferencesExact
  <2>1. Cardinality({}) = 0
    BY FS_EmptySet
  <2>2. \A p \in Peers : ref[p] = 1 /\ inUse[p] = 0 /\ removal[p] = "no"
    BY DEF Init
  <2> QED
    BY <1>5, <2>1, <2>2 DEF ReferencesExact
<1> QED
  BY <1>7, <1>8, <1>9 DEF RefInv

LEMMA NextCounts ==
    ASSUME IInv, OrderInv, FreedInv, RefInv, ReferencesExact, [Next]_vars
    PROVE  RefInv' /\ ReferencesExact'
<1>1. CASE UNCHANGED vars
  <2>1. UNCHANGED <<fifo, peeked, held, packet, pc, list, calls, ref, inUse, removal>>
    BY <1>1 DEF vars, threadVars, queueVars, workVars, peerVars
  <2>2. Unopened
    BY <2>1, ProducersSame
  <2> QED
    BY <2>1, <2>2, QuietCounts DEF Unhandled, Unpublished
<1>2. ASSUME NEW t \in Producers, StartCall(t) \/ ProducerStep(t)
      PROVE  RefInv' /\ ReferencesExact'
  <2>1. t \in Threads
    BY DEF Threads
  <2> QED
    BY <1>2, <2>1, StartCallCounts, LookupCounts, InsertCounts, CleanupCounts, LinkCounts,
       PublishCounts, PutCounts
       DEF ProducerStep, EnqueuePerPeer
<1>3. ASSUME NEW w \in Workers, WorkerStep(w)
      PROVE  RefInv' /\ ReferencesExact'
  <2>1. w \in Threads
    BY DEF Threads
  <2> QED
    BY <1>3, <2>1, ServingCounts, PublishCounts, LinkCounts, PutCounts, PeekCounts,
       ReadStateCounts, HandleCounts, PutPacketCounts
       DEF WorkerStep, EnqueuePerPeer, Serving
<1>4. ASSUME NEW p \in Removable, PeerRemove(p) \/ PeerRemoveDone(p) \/ RcuRelease(p)
      PROVE  RefInv' /\ ReferencesExact'
  BY <1>4, PipelineAssumption, RemovalCounts
<1> QED
  BY <1>1, <1>2, <1>3, <1>4 DEF Next

-----------------------------------------------------------------------------
(* FreedInv.  A peer is freed with nothing left of it, ... *)
LEMMA ReleasedEmpty ==
    ASSUME IInv, OrderInv, FreedInv, ReferencesExact, NEW p \in Peers, RcuRelease(p)
    PROVE  FreedInv'
<1>1. /\ UNCHANGED <<fifo, peeked, held, pending, pc>> /\ ref[p] = 0 /\ removal[p] = "removed"
      /\ \A q \in Peers \ {p} : Freed(q)' <=> Freed(q)
  BY DEF RcuRelease, queueVars, workVars, threadVars, Freed, IInv, TypeOK, PeersOK
<1>2. Counted(p) = {}
  <2>1. Cardinality(Counted(p)) = 0
    BY <1>1, FiniteParts DEF ReferencesExact
  <2> QED
    BY <2>1, FiniteParts, FS_EmptySet
<1>3. fifo[p] = <<>> /\ peeked[p] = Nil
  <2>1. SetOf(fifo[p]) = {} /\ peeked[p] = Nil
    BY <1>2 DEF Counted, Protected
  <2>2. fifo[p] \in Seq(Packets)
    BY DEF IInv, TypeOK, QueuesOK
  <2>3. fifo[p] # <<>> => fifo[p][1] \in SetOf(fifo[p])
    BY <2>2 DEF SetOf
  <2> QED
    BY <2>1, <2>3
<1>4. ASSUME NEW w \in Workers, held[w] = p
      PROVE  pc[w] \notin Carrying
  <2>1. pc[w] # "state"
    BY <1>3, <1>4 DEF OrderInv, TakenInv, IInv, HandsInv, Carrying
  <2>2. \A k : k \notin Counted(p)
    BY <1>2
  <2>3. pc[w] \notin {"handle", "putPacket"}
    BY <1>4, <2>2 DEF Counted, Kept, Protected, At
  <2> QED
    BY <2>1, <2>3 DEF Carrying
<1>5. \A v, w \in Workers : held[v] = p /\ held[w] = p => v = w
  BY <1>1, PipelineAssumption DEF IInv, SingleConsumer, Freed
<1> QED
  BY <1>1, <1>3, <1>4, <1>5 DEF FreedInv

(* ... and then nothing comes. *)
LEMMA FreedUnmoved ==
    ASSUME FreedInv, UNCHANGED <<fifo, peeked, held, pending>>,
           \A p \in Peers : Freed(p)' <=> Freed(p),
           \A w \in Workers : pc'[w] \in Carrying => pc[w] \in Carrying
    PROVE  FreedInv'
  BY DEF FreedInv

LEMMA FreedAt ==
    ASSUME FreedInv, NEW w \in Workers, UNCHANGED removal,
           \A v \in Workers \ {w} :
             pc'[v] = pc[v] /\ held'[v] = held[v] /\ pending'[v] = pending[v],
           \A p \in Peers : Freed(p) => fifo'[p] = fifo[p] /\ peeked'[p] = peeked[p],
           \A p \in Peers : Freed(p) /\ held'[w] = p =>
             /\ pc'[w] \notin Carrying
             /\ pending'[w] = <<>> \/ (held[w] = p /\ pending'[w] = pending[w])
    PROVE  FreedInv'
<1> SUFFICES ASSUME NEW p \in Peers, Freed(p)
             PROVE  /\ fifo'[p] = <<>> /\ peeked'[p] = Nil
                    /\ \A v \in Workers : held'[v] = p => pc'[v] \notin Carrying
                    /\ \A u, v \in Workers : held'[u] = p /\ held'[v] = p =>
                         u = v \/ pending'[u] = <<>> \/ pending'[v] = <<>>
  BY DEF FreedInv, Freed
<1>1. fifo'[p] = <<>> /\ peeked'[p] = Nil
  BY DEF FreedInv
<1>2. \A v \in Workers : held'[v] = p => pc'[v] \notin Carrying
  BY DEF FreedInv
<1>3. \A v \in Workers : held'[v] = p /\ pending'[v] # <<>> =>
        held[v] = p /\ pending[v] # <<>>
  OBVIOUS
<1> QED
  BY <1>1, <1>2, <1>3 DEF FreedInv

LEMMA FreedInHand ==
    ASSUME IInv, OrderInv, FreedInv, NEW w \in Workers,
           \/ PeerSerialDequeue(w) \/ PrevQueuePeek(w) \/ ReadState(w) \/ Handle(w)
           \/ Indicate(w) \/ PeerSerialMaybeRetire(w)
    PROVE  FreedInv'
<1>0. /\ held \in [Workers -> Peers \cup {Nil}] /\ pending \in [Workers -> Seq(Packets)]
      /\ pc \in [Threads -> ProducerStates \cup WorkerStates] /\ w \in Threads
      /\ fifo \in [Peers -> Seq(Packets)] /\ peeked \in [Peers -> Packets \cup {Nil}]
      /\ packet \in [Workers -> Packets \cup {Nil}]
  BY DEF IInv, TypeOK, SerialOK, WorkOK, ThreadsOK, QueuesOK, Threads
<1>1. pc[w] \in Carrying => held[w] \in Peers /\ ~Freed(held[w])
  <2>1. pc[w] \in Carrying => held[w] # Nil
    BY DEF IInv, HandsInv, Holding, Carrying
  <2> QED
    BY <1>0, <2>1 DEF FreedInv
<1>2. CASE PeerSerialDequeue(w)
  <2>1. pending[w] = <<>>
    BY <1>2 DEF PeerSerialDequeue, At, OrderInv, TakenInv, Looping
  <2> QED
    BY <1>0, <1>2, <2>1, FreedAt
       DEF PeerSerialDequeue, At, Goto, queueVars, peerVars, Threads, Carrying
<1>3. CASE PrevQueuePeek(w)
  <2>1. held[w] \in Peers
    BY <1>0, <1>3 DEF PrevQueuePeek, At, IInv, HandsInv, Holding
  <2>2. Freed(held[w]) => UNCHANGED <<fifo, peeked>> /\ pc'[w] \in {"retire", "indicate"}
    BY <1>0, <1>3, <2>1 DEF PrevQueuePeek, Goto, AfterLoop, FreedInv
  <2>3. \A q \in Peers : q # held[w] => fifo'[q] = fifo[q] /\ peeked'[q] = peeked[q]
    BY <1>0, <1>3, <2>1 DEF PrevQueuePeek
  <2>4. /\ UNCHANGED <<removal, held, pending>>
        /\ \A v \in Workers \ {w} : pc'[v] = pc[v]
    BY <1>0, <1>3 DEF PrevQueuePeek, Goto, peerVars, serialVars, Threads
  <2> QED
    BY <2>2, <2>3, <2>4, FreedAt DEF Carrying
<1>4. CASE ReadState(w)
  <2>1. pc[w] \in Carrying
    BY <1>4 DEF ReadState, At, Carrying
  <2>2. \A q \in Peers : q # held[w] => peeked'[q] = peeked[q]
    BY <1>0, <1>1, <1>4, <2>1 DEF ReadState
  <2>3. /\ UNCHANGED <<removal, held, pending, fifo>>
        /\ \A v \in Workers \ {w} : pc'[v] = pc[v]
    BY <1>0, <1>4 DEF ReadState, Goto, peerVars, Threads
  <2> QED
    BY <1>1, <2>1, <2>2, <2>3, FreedAt
<1>5. CASE Handle(w)
  <2>1. pc[w] \in Carrying
    BY <1>5 DEF Handle, At, Carrying
  <2>2. /\ UNCHANGED <<removal, held, fifo, peeked>>
        /\ \A v \in Workers \ {w} : pc'[v] = pc[v] /\ pending'[v] = pending[v]
    BY <1>0, <1>5 DEF Handle, Goto, queueVars, serialVars, Threads
  <2> QED
    BY <1>1, <2>1, <2>2, FreedAt
<1>6. CASE Indicate(w)
  BY <1>0, <1>6, FreedAt DEF Indicate, Goto, queueVars, peerVars, Threads, Carrying
<1>7. CASE PeerSerialMaybeRetire(w)
  BY <1>0, <1>7, FreedAt, PipelineAssumption
     DEF PeerSerialMaybeRetire, Goto, queueVars, peerVars, Threads, Carrying
<1> QED
  BY <1>2, <1>3, <1>4, <1>5, <1>6, <1>7

LEMMA NextFreed ==
    ASSUME IInv, OrderInv, FreedInv, ReferencesExact, [Next]_vars
    PROVE  FreedInv'
<1>0. pc \in [Threads -> ProducerStates \cup WorkerStates]
  BY DEF IInv, TypeOK, ThreadsOK
<1>1. ASSUME NEW t \in Threads,
             \/ t \in Producers /\ (StartCall(t) \/ Lookup(t) \/ Link(t) \/ Cleanup(t)
                                      \/ Produce(t) \/ Bump(t))
             \/ Publish(t) \/ PeerSerialEnqueueIfNotBusy(t) \/ Put(t)
      PROVE  FreedInv'
  <2>1. UNCHANGED <<fifo, peeked, held, pending, removal>>
    BY <1>1 DEF StartCall, Lookup, Link, Cleanup, Produce, Bump, Publish,
       PeerSerialEnqueueIfNotBusy, Put, queueVars, workVars, peerVars
  <2>2. \A w \in Workers :
          pc'[w] = pc[w] \/ pc'[w] \in {"enqueue", "put", "publish", "dequeue", "bump"}
    BY <1>0, <1>1, PipelineAssumption
       DEF StartCall, Lookup, Link, Cleanup, Produce, Bump, Publish,
           PeerSerialEnqueueIfNotBusy, Put, Goto, Threads
  <2> QED
    BY <2>1, <2>2, FreedUnmoved DEF Freed, Carrying
<1>2. ASSUME NEW t \in Producers, Insert(t)
      PROVE  FreedInv'
  <2>1. /\ UNCHANGED <<peeked, held, pending, removal>>
        /\ \A w \in Workers : pc'[w] = pc[w]
    BY <1>0, <1>2, PipelineAssumption DEF Insert, Goto, queueVars, workVars, Threads
  <2>2. \A p \in Peers : Freed(p) => fifo'[p] = fifo[p]
    BY <1>2 DEF Insert, Freed, queueVars, IInv, TypeOK, QueuesOK
  <2> QED
    BY <2>1, <2>2 DEF FreedInv, Freed
<1>3. ASSUME NEW w \in Workers, Wake(w) \/ Consume(w) \/ PutPacket(w)
      PROVE  FreedInv'
  <2>1. UNCHANGED <<fifo, peeked, held, pending, removal>>
    BY <1>3 DEF Wake, Consume, PutPacket, queueVars, serialVars, workVars, peerVars
  <2>2. \A v \in Workers : pc'[v] = pc[v] \/ pc'[v] \in {"consume", "publish", "dequeue", "peek"}
    BY <1>0, <1>3 DEF Wake, Consume, PutPacket, Goto, Threads
  <2> QED
    BY <2>1, <2>2, FreedUnmoved DEF Freed, Carrying
<1>4. ASSUME NEW p \in Peers, PeerRemove(p) \/ PeerRemoveDone(p)
      PROVE  FreedInv'
  <2>1. UNCHANGED <<fifo, peeked, held, pending, pc>>
    BY <1>4 DEF PeerRemove, PeerRemoveDone, queueVars, workVars, threadVars
  <2>2. \A q \in Peers : Freed(q)' <=> Freed(q)
    BY <1>4 DEF PeerRemove, PeerRemoveDone, Freed, IInv, TypeOK, PeersOK
  <2> QED
    BY <2>1, <2>2, FreedUnmoved
<1>5. CASE UNCHANGED vars
  BY <1>5, FreedUnmoved DEF vars, threadVars, queueVars, serialVars, workVars, peerVars, Freed
<1> QED
  BY <1>1, <1>2, <1>3, <1>4, <1>5, FreedInHand, ReleasedEmpty, PipelineAssumption
     DEF Next, ProducerStep, WorkerStep, EnqueuePerPeer, Threads

-----------------------------------------------------------------------------
PipelineInv == IInv /\ OrderInv /\ FreedInv /\ RefInv /\ ReferencesExact

LEMMA PipelineInvHolds == Spec => []PipelineInv
<1>1. Init => PipelineInv
  <2>1. Init => FreedInv
    BY DEF Init, FreedInv, Freed
  <2> QED
    BY <2>1, InitInv, InitOrder, InitCounts DEF PipelineInv
<1>2. PipelineInv /\ [Next]_vars => PipelineInv'
  BY NextInv, NextOrder, NextFreed, NextCounts DEF PipelineInv
<1> QED
  BY <1>1, <1>2, PTL DEF Spec

(* However many workers decrypt or encrypt a peer's packets, in whatever order
   they finish, whoever of them holds the peer and even if it is freed in his
   hands, what NDIS or the socket is given of them is in the order in which they
   were queued (PacketPeerRxWork, PacketPeerTxWork: CounterValidate and the
   socket see them in that order).                                          *)
THEOREM DeliveredInOrder == Spec => []InOrder
<1>1. PipelineInv => InOrder
  BY OrderIsKept DEF PipelineInv
<1> QED
  BY <1>1, PipelineInvHolds, PTL

(* Every reference and every rundown protection of a peer is accounted for, so that a
   removal ends exactly when its packets have, and a peer is freed with no packet
   left (peer.c, PeerRemove; queueing.h, QueueEnqueuePerPeer), for any number of
   peers, packets and threads and whenever grace periods end: the worker under
   which a peer may be freed is one that has put its last reference.        *)
THEOREM ReferencesAccounted == Spec => []ReferencesExact
<1>1. PipelineInv => ReferencesExact
  BY DEF PipelineInv
<1> QED
  BY <1>1, PipelineInvHolds, PTL
=============================================================================
