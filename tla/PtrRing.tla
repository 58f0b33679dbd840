-------------------------------- MODULE PtrRing --------------------------------
(***************************************************************************)
(* The pointer ring of driver/containers.h (PTR_RING), through which packets  *)
(* and handshake messages reach the worker threads.  One producer at a time   *)
(* (ProducerLock) and one consumer at a time (ConsumerLock) work on it at     *)
(* once; they meet only in the places of Queue, where NULL means free.  The   *)
(* consumer clears the places it has read in batches, so they stay taken for  *)
(* a while.                                                                   *)
(***************************************************************************)
EXTENDS Integers, Sequences

CONSTANTS RingItems,  \* pointers that are produced, over and over
          Size,       \* places of the ring
          CacheBatch, \* SYSTEM_CACHE_ALIGNMENT_SIZE * 2 / sizeof(VOID *)
          Null

ASSUME RingAssumption == {Size, CacheBatch} \subseteq Nat /\ Size > 0 /\ Null \notin RingItems

VARIABLES Queue, Producer, ConsumerHead, ConsumerTail,
          inserting,  \* the item a producer found a free place for, or Null
          clearing,   \* places the consumer has still to set to NULL, highest first
          content     \* history: what was produced and not yet consumed, in order

ringVars == <<Queue, Producer, ConsumerHead, ConsumerTail, inserting, clearing, content>>

Places == 0 .. Size - 1

(* __PtrRingSetSize *)
Batch == IF CacheBatch > Size \div 2 \/ CacheBatch = 0 THEN 1 ELSE CacheBatch

(* PtrRingInit *)
RingInit ==
    /\ Queue = [i \in Places |-> Null]
    /\ Producer = 0 /\ ConsumerHead = 0 /\ ConsumerTail = 0
    /\ inserting = Null
    /\ clearing = <<>>
    /\ content = <<>>

(* __PtrRingProduce up to the barrier: a taken place refuses the item. *)
FindPlace(x) ==
    /\ inserting = Null
    /\ Queue[Producer] = Null
    /\ inserting' = x
    /\ UNCHANGED <<Queue, Producer, ConsumerHead, ConsumerTail, clearing, content>>

(* ... the pointer is written, and the place after it is the next. *)
WritePlace ==
    /\ inserting # Null
    /\ Queue' = [Queue EXCEPT ![Producer] = inserting]
    /\ Producer' = (Producer + 1) % Size
    /\ inserting' = Null
    /\ content' = Append(content, inserting)
    /\ UNCHANGED <<ConsumerHead, ConsumerTail, clearing>>

(* Mutant: the batch begins at the new head, which was not read yet. *)
ReadPlacesAndNext(head) == [i \in 1 .. head - ConsumerTail + 2 |-> (head + 2 - i) % Size]

(* What __PtrRingDiscardOne sets to NULL when it does, in its order. *)
ReadPlaces(head) == [i \in 1 .. head - ConsumerTail + 1 |-> head + 1 - i]

(* __PtrRingConsume: the item at the head is read, the head moves on, and at the
   end of a batch or of the array the places read so far are to be cleared.   *)
PtrRingConsume ==
    LET next == ConsumerHead + 1
        full == next - ConsumerTail >= Batch \/ next >= Size
    IN  /\ clearing = <<>>
        /\ Queue[ConsumerHead] # Null
        /\ clearing' = IF full THEN ReadPlaces(ConsumerHead) ELSE <<>>
        /\ ConsumerHead' = IF next >= Size THEN 0 ELSE next
        /\ ConsumerTail' = IF next >= Size THEN 0
                           ELSE IF full THEN next ELSE ConsumerTail
        /\ content' = Tail(content)
        /\ UNCHANGED <<Queue, Producer, inserting>>

ClearPlace ==
    /\ clearing # <<>>
    /\ Queue' = [Queue EXCEPT ![Head(clearing)] = Null]
    /\ clearing' = Tail(clearing)
    /\ UNCHANGED <<Producer, ConsumerHead, ConsumerTail, inserting, content>>

RingNext == (\E x \in RingItems : FindPlace(x)) \/ WritePlace \/ PtrRingConsume \/ ClearPlace

RingSpec == RingInit /\ [][RingNext]_ringVars

-----------------------------------------------------------------------------
(* The ring is a bounded first-in first-out queue (containers.h): while a producer
   fills places and the consumer clears what it read behind itself, the items not
   yet consumed lie in their order from the consumer's head on, none is
   overwritten or cleared, and the consumer finds one exactly when there is one. *)
RingIsFifo ==
    /\ Len(content) <= Size
    /\ \A i \in 1 .. Len(content) : Queue[(ConsumerHead + i - 1) % Size] = content[i]
    /\ (ConsumerHead + Len(content)) % Size = Producer
    /\ clearing = <<>> => (Queue[ConsumerHead] = Null <=> content = <<>>)
=============================================================================
