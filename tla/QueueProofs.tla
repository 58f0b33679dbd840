------------------------------ MODULE QueueProofs ------------------------------
(***************************************************************************)
(* The queues between threads, proved for any number of threads, items and *)
(* places: the pointer ring is a queue (RingIsFifo), no work is forgotten  *)
(* by the workers (NoWorkForgotten), the log's reader is awake when it     *)
(* should be (ReaderAwake), and the lock-free packet queue of a peer       *)
(* implements PacketFifo.  At the end, the ring of words behind a receive  *)
(* queue, the replay window, implements ReplayFilter.                      *)
(*                                                                         *)
(* RingInv divides the places of the ring into those with live items,      *)
(* those read and not yet cleared, and empty ones: the producer sees an    *)
(* empty place only when it is neither of the others. ThreadsInv and the   *)
(* types are all that the next two need.                                   *)
(*                                                                         *)
(* The packets of queued and the stub form one order, that of the exchanges  *)
(* of Head. SomeOrder says that the list is this order with gaps: a link   *)
(* that is missing will be stored by whoever made the exchange, and no     *)
(* other link is. From it follow which packet is behind Tail, and that a   *)
(* missing link means an empty queue or a producer at work.                *)
(***************************************************************************)
EXTENDS PrevQueue, PtrRing, WorkQueue, LogRing, ReplayCounter, TLAPS, SequenceTheorems,
        FiniteSetTheorems

-----------------------------------------------------------------------------
(* What % computes when it wraps around at most once. *)
LEMMA Wrap ==
    ASSUME NEW n \in Nat \ {0}, NEW a \in Nat, a < 2 * n
    PROVE  a % n = IF a < n THEN a ELSE a - n
<1> DEFINE q == a \div n  r == a % n
<1>1. q \in Nat /\ r \in 0 .. n - 1 /\ a = n * q + r
  OBVIOUS
<1>2. ASSUME q >= 2 PROVE FALSE
  <2>1. n * q >= n * 2
    BY <1>1, <1>2
  <2> HIDE DEF q, r
  <2> QED
    BY <1>1, <2>1
<1>3. q = 0 \/ q = 1
  BY <1>1, <1>2
<1> HIDE DEF q, r
<1>4. n * q = 0 \/ n * q = n
  BY <1>3
<1>5. r = IF a < n THEN a ELSE a - n
  BY <1>1, <1>4
<1> QED
  BY <1>5 DEF r

(* The place of the i-th item behind a head. *)
At(first, i) == (first + i - 1) % Size

LEMMA AtIs ==
    ASSUME NEW h \in Places, NEW i \in 1 .. Size + 1
    PROVE  /\ At(h, i) = IF h + i - 1 < Size THEN h + i - 1 ELSE h + i - 1 - Size
           /\ At(h, i) \in Places
<1> DEFINE a == h + i - 1  r == a % Size
<1>1. Size \in Nat \ {0} /\ a \in Nat /\ a < 2 * Size
  BY RingAssumption DEF Places
<1>2. r = IF a < Size THEN a ELSE a - Size
  <2> HIDE DEF a
  <2> QED
    BY <1>1, Wrap
<1>3. At(h, i) = r
  BY DEF At
<1>4. At(h, i) = IF h + i - 1 < Size THEN h + i - 1 ELSE h + i - 1 - Size
  <2> HIDE DEF r
  <2> QED
    BY <1>1, <1>2, <1>3, RingAssumption DEF Places
<1> QED
  BY <1>1, <1>4 DEF Places

(* No two of Size items lie at the same place, and a step of the head or to the next
   item is a step of one place.                                             *)
LEMMA AtFacts ==
    ASSUME NEW h \in Places
    PROVE  /\ At(h, 1) = h
           /\ \A i, j \in 1 .. Size : At(h, i) = At(h, j) => i = j
           /\ \A i \in 1 .. Size : At(At(h, 2), i) = At(h, i + 1)
           /\ \A i \in 1 .. Size : At(At(h, i), 2) = At(h, i + 1)
           /\ At(h, 2) = IF h + 1 >= Size THEN 0 ELSE h + 1
<1>0. Size \in Nat \ {0} /\ h \in 0 .. Size - 1
  BY RingAssumption DEF Places
<1>1. At(h, 1) = h
  BY <1>0, AtIs
<1>2. \A i, j \in 1 .. Size : At(h, i) = At(h, j) => i = j
  <2> TAKE i, j \in 1 .. Size
  <2> QED
    BY <1>0, AtIs
<1>3. ASSUME NEW i \in 1 .. Size
      PROVE  At(At(h, 2), i) = At(h, i + 1) /\ At(At(h, i), 2) = At(h, i + 1)
  <2>1. /\ At(h, 2) = IF h + 1 < Size THEN h + 1 ELSE h + 1 - Size
        /\ At(h, 2) \in Places
    BY <1>0, AtIs
  <2>2. /\ At(h, i) = IF h + i - 1 < Size THEN h + i - 1 ELSE h + i - 1 - Size
        /\ At(h, i) \in Places
    BY <1>0, AtIs
  <2>3. At(h, i + 1) = IF h + i < Size THEN h + i ELSE h + i - Size
    BY <1>0, AtIs
  <2>4. At(At(h, 2), i) = IF At(h, 2) + i - 1 < Size THEN At(h, 2) + i - 1
                                                     ELSE At(h, 2) + i - 1 - Size
    <3> DEFINE g == At(h, 2)
    <3>1. g \in Places /\ i \in 1 .. Size + 1
      BY <1>0, <2>1
    <3> HIDE DEF g
    <3>2. At(g, i) = IF g + i - 1 < Size THEN g + i - 1 ELSE g + i - 1 - Size
      BY <3>1, AtIs
    <3> QED
      BY <3>2 DEF g
  <2>5. At(At(h, i), 2) = IF At(h, i) + 1 < Size THEN At(h, i) + 1
                                                 ELSE At(h, i) + 1 - Size
    BY <1>0, <2>2, AtIs
  <2>6. At(At(h, 2), i) = At(h, i + 1)
    <3>1. CASE h + 1 < Size
      <4>1. At(h, 2) = h + 1
        BY <2>1, <3>1
      <4> QED
        BY <1>0, <2>3, <2>4, <4>1
    <3>2. CASE h + 1 = Size
      <4>1. At(h, 2) = 0
        BY <1>0, <2>1, <3>2
      <4> QED
        BY <1>0, <2>3, <2>4, <3>2, <4>1
    <3> QED
      BY <1>0, <3>1, <3>2
  <2>7. At(At(h, i), 2) = At(h, i + 1)
    <3>1. CASE h + i - 1 < Size
      BY <1>0, <2>2, <2>3, <2>5, <3>1
    <3>2. CASE ~ h + i - 1 < Size
      BY <1>0, <2>2, <2>3, <2>5, <3>2
    <3> QED
      BY <3>1, <3>2
  <2> QED
    BY <2>6, <2>7
<1>4. At(h, 2) = IF h + 1 >= Size THEN 0 ELSE h + 1
  BY <1>0, AtIs
<1> QED
  BY <1>1, <1>2, <1>3, <1>4

-----------------------------------------------------------------------------
RingTypeOK ==
    /\ Queue \in [Places -> RingItems \cup {Null}]
    /\ Producer \in Places /\ ConsumerHead \in Places /\ ConsumerTail \in 0 .. ConsumerHead
    /\ inserting \in RingItems \cup {Null}
    /\ clearing \in Seq(Places)
    /\ content \in Seq(RingItems)

(* The items not yet consumed lie behind the consumer's head, up to the producer. *)
LiveInv ==
    /\ Len(content) <= Size
    /\ Producer = At(ConsumerHead, Len(content) + 1)
    /\ \A i \in 1 .. Len(content) : Queue[At(ConsumerHead, i)] = content[i]

(* Read, and not cleared before the batch is full. *)
Unread == ConsumerTail .. ConsumerHead - 1

(* A place that was read, or is being cleared, is taken and holds nothing that is
   still to be consumed; each is cleared once.                              *)
ReadInv ==
    /\ \A k \in Unread : Queue[k] # Null
    /\ \A k \in Unread : \A i \in 1 .. Len(content) : k # At(ConsumerHead, i)
    /\ \A c \in 1 .. Len(clearing) : Queue[clearing[c]] # Null
    /\ \A c \in 1 .. Len(clearing) : \A i \in 1 .. Len(content) :
          clearing[c] # At(ConsumerHead, i)
    /\ \A c, d \in 1 .. Len(clearing) : clearing[c] = clearing[d] => c = d
    /\ clearing # <<>> => ConsumerTail = ConsumerHead

(* Nothing else is taken, and the producer's place does not stop being free. *)
FreeInv ==
    /\ inserting # Null => Queue[Producer] = Null
    /\ \A k \in Places :
          Queue[k] # Null =>
            \/ k \in Unread
            \/ \E c \in 1 .. Len(clearing) : k = clearing[c]
            \/ \E i \in 1 .. Len(content) : k = At(ConsumerHead, i)

RingInv == RingTypeOK /\ LiveInv /\ ReadInv /\ FreeInv

(* The number of items not yet consumed. *)
LEMMA ContentLen ==
    ASSUME RingInv
    PROVE  /\ Len(content) \in 0 .. Size /\ Size \in Nat \ {0}
           /\ \A i \in 1 .. Len(content) : content[i] \in RingItems /\ content[i] # Null
  BY RingAssumption, LenProperties DEF RingInv, RingTypeOK, LiveInv

LEMMA RingInitInv == RingInit => RingInv
<1> SUFFICES ASSUME RingInit PROVE RingInv
  OBVIOUS
<1>0. 0 \in Places /\ Size \in Nat \ {0}
  BY RingAssumption DEF Places
<1>1. RingTypeOK
  BY <1>0 DEF RingInit, RingTypeOK
<1>2. LiveInv
  BY <1>0, AtFacts DEF RingInit, LiveInv
<1>3. ReadInv /\ FreeInv
  BY DEF RingInit, ReadInv, FreeInv, Unread
<1> QED
  BY <1>1, <1>2, <1>3 DEF RingInv

LEMMA FindPlaceKeeps ==
    ASSUME RingInv, NEW x \in RingItems, FindPlace(x)
    PROVE  RingInv'
<1> USE DEF RingInv, FindPlace
<1>1. RingTypeOK'
  BY DEF RingTypeOK
<1>2. LiveInv'
  BY DEF LiveInv, At
<1>3. ReadInv'
  BY DEF ReadInv, Unread, At
<1>4. FreeInv'
  BY DEF FreeInv, Unread, At
<1> QED
  BY <1>1, <1>2, <1>3, <1>4

(* The producer's place is free, so the items fill at most the others. *)
LEMMA RoomLeft ==
    ASSUME RingInv, Queue[Producer] = Null
    PROVE  Len(content) < Size
<1>1. ASSUME Len(content) = Size PROVE FALSE
  <2>1. Producer = At(ConsumerHead, Size + 1)
    BY <1>1 DEF RingInv, LiveInv
  <2>2. ConsumerHead \in Places /\ Size \in Nat \ {0}
    BY RingAssumption DEF RingInv, RingTypeOK
  <2>3. Producer = At(ConsumerHead, 1)
    BY <2>1, <2>2, AtIs DEF Places
  <2>4. Queue[Producer] = content[1] /\ content[1] # Null
    BY <1>1, <2>2, <2>3, ContentLen DEF RingInv, LiveInv
  <2> QED
    BY <2>4
<1> QED
  BY <1>1, ContentLen

LEMMA WritePlaceKeeps ==
    ASSUME RingInv, WritePlace
    PROVE  RingInv'
<1> DEFINE n == Len(content)
<1> USE DEF WritePlace
<1>0. /\ Queue[Producer] = Null /\ inserting \in RingItems /\ inserting # Null
      /\ content' = Append(content, inserting) /\ content \in Seq(RingItems)
      /\ Queue' = [Queue EXCEPT ![Producer] = inserting] /\ inserting' = Null
      /\ Producer' = At(Producer, 2)
      /\ Queue \in [Places -> RingItems \cup {Null}]
      /\ Producer \in Places /\ ConsumerHead \in Places
      /\ UNCHANGED <<ConsumerHead, ConsumerTail, clearing>>
  <2>1. Producer \in Nat
    BY RingAssumption DEF RingInv, RingTypeOK, Places
  <2>2. Producer' = At(Producer, 2)
    BY <2>1 DEF At
  <2> QED
    BY <2>2, RingAssumption DEF RingInv, RingTypeOK, FreeInv
<1>1. n \in 0 .. Size - 1 /\ Size \in Nat \ {0}
  BY <1>0, RoomLeft, ContentLen
<1>2. /\ Len(content') = n + 1 /\ content' \in Seq(RingItems)
      /\ \A i \in 1 .. n : content'[i] = content[i]
      /\ content'[n + 1] = inserting
  BY <1>0
<1>3. Producer = At(ConsumerHead, n + 1)
  BY DEF RingInv, LiveInv
<1>4. /\ \A k \in Places \ {Producer} : Queue'[k] = Queue[k]
      /\ Queue'[Producer] = inserting
  BY <1>0
<1>5. \A i \in 1 .. n + 1 : At(ConsumerHead, i) \in Places
  BY <1>0, <1>1, AtIs
<1>6. RingTypeOK'
  <2>1. Producer' \in Places
    BY <1>0, <1>1, AtIs
  <2> QED
    BY <1>0, <1>2, <2>1 DEF RingInv, RingTypeOK, Places
<1>7. LiveInv'
  <2>1. Producer' = At(ConsumerHead, n + 2)
    <3>1. At(At(ConsumerHead, n + 1), 2) = At(ConsumerHead, n + 1 + 1)
      BY <1>0, <1>1, AtFacts
    <3> QED
      BY <1>0, <1>1, <1>3, <3>1
  <2>2. ASSUME NEW i \in 1 .. n + 1 PROVE Queue'[At(ConsumerHead, i)] = content'[i]
    <3>1. CASE i = n + 1
      BY <1>0, <1>2, <1>3, <1>4, <3>1
    <3>2. CASE i \in 1 .. n
      <4>1. Queue[At(ConsumerHead, i)] = content[i] /\ content[i] # Null
        BY <3>2, ContentLen DEF RingInv, LiveInv
      <4>2. At(ConsumerHead, i) # Producer
        BY <1>0, <4>1
      <4> QED
        BY <1>2, <1>4, <1>5, <3>2, <4>1, <4>2
    <3> QED
      BY <1>1, <3>1, <3>2
  <2> QED
    BY <1>0, <1>1, <1>2, <2>1, <2>2 DEF LiveInv, At
<1>8. ReadInv'
  <2>1. /\ \A k \in Unread : k \in Places /\ k # Producer
        /\ \A c \in 1 .. Len(clearing) : clearing[c] \in Places /\ clearing[c] # Producer
    <3>1. \A k \in Unread : k \in Places
      BY RingAssumption DEF RingInv, RingTypeOK, Unread, Places
    <3>2. \A c \in 1 .. Len(clearing) : clearing[c] \in Places
      BY LenProperties DEF RingInv, RingTypeOK
    <3>3. /\ \A k \in Unread : Queue[k] # Null
          /\ \A c \in 1 .. Len(clearing) : Queue[clearing[c]] # Null
      BY DEF RingInv, ReadInv
    <3> QED
      BY <1>0, <3>1, <3>2, <3>3
  <2>2. Unread' = Unread
    BY <1>0 DEF Unread
  <2>3. \A i \in 1 .. n + 1 : i \in 1 .. n \/ At(ConsumerHead, i) = Producer
    BY <1>1, <1>3
  <2>4. \A k \in Unread : Queue'[k] # Null
    BY <1>4, <2>1 DEF RingInv, ReadInv
  <2>5. \A c \in 1 .. Len(clearing) : Queue'[clearing[c]] # Null
    BY <1>4, <2>1 DEF RingInv, ReadInv
  <2>6. \A k \in Unread : \A i \in 1 .. n + 1 : k # At(ConsumerHead, i)
    BY <2>1, <2>3 DEF RingInv, ReadInv
  <2>7. \A c \in 1 .. Len(clearing) : \A i \in 1 .. n + 1 :
           clearing[c] # At(ConsumerHead, i)
    BY <2>1, <2>3 DEF RingInv, ReadInv
  <2> QED
    BY <1>0, <1>2, <2>2, <2>4, <2>5, <2>6, <2>7 DEF RingInv, ReadInv, At
<1>9. FreeInv'
  <2>1. ASSUME NEW k \in Places, Queue'[k] # Null
        PROVE  \/ k \in Unread
               \/ \E c \in 1 .. Len(clearing) : k = clearing[c]
               \/ \E i \in 1 .. n + 1 : k = At(ConsumerHead, i)
    <3>1. CASE k = Producer
      BY <1>1, <1>3, <3>1
    <3>2. CASE k # Producer
      BY <1>1, <1>4, <2>1, <3>2 DEF RingInv, FreeInv
    <3> QED
      BY <3>1, <3>2
  <2> QED
    BY <1>0, <1>2, <2>1 DEF FreeInv, Unread, At
<1> QED
  BY <1>6, <1>7, <1>8, <1>9 DEF RingInv

(* A place that is cleared had been read, so that nothing else changes. *)
LEMMA ClearPlaceKeeps ==
    ASSUME RingInv, ClearPlace
    PROVE  RingInv'
<1> DEFINE p == Head(clearing)
<1> USE DEF ClearPlace
<1>0. /\ clearing # <<>> /\ clearing \in Seq(Places)
      /\ Queue' = [Queue EXCEPT ![p] = Null] /\ clearing' = Tail(clearing)
      /\ Queue \in [Places -> RingItems \cup {Null}]
      /\ ConsumerTail = ConsumerHead /\ Unread = {}
      /\ UNCHANGED <<Producer, ConsumerHead, ConsumerTail, inserting, content>>
  <2>1. ConsumerTail = ConsumerHead /\ ConsumerHead \in Nat
    BY RingAssumption DEF RingInv, RingTypeOK, ReadInv, Places
  <2>2. Unread = {}
    BY <2>1 DEF Unread
  <2> QED
    BY <2>1, <2>2 DEF RingInv, RingTypeOK
<1>1. /\ Len(clearing) \in Nat \ {0} /\ Tail(clearing) \in Seq(Places)
      /\ Len(clearing') = Len(clearing) - 1
      /\ p = clearing[1] /\ p \in Places
      /\ \A c \in 1 .. Len(clearing) - 1 : clearing'[c] = clearing[c + 1]
  BY <1>0, HeadTailProperties, LenProperties
<1>2. /\ \A k \in Places \ {p} : Queue'[k] = Queue[k]
      /\ Queue'[p] = Null
  BY <1>0, <1>1
<1>3. /\ \A c \in 1 .. Len(clearing) : clearing[c] \in Places
      /\ \A c \in 1 .. Len(clearing) - 1 : clearing'[c] # p /\ clearing'[c] \in Places
  <2>1. \A c \in 1 .. Len(clearing) : clearing[c] \in Places
    BY <1>0, LenProperties
  <2>2. \A c \in 1 .. Len(clearing) - 1 : clearing[c + 1] # clearing[1]
    BY <1>1 DEF RingInv, ReadInv
  <2> QED
    BY <1>1, <2>1, <2>2
<1>4. /\ Len(content) \in 0 .. Size
      /\ \A i \in 1 .. Len(content) : At(ConsumerHead, i) \in Places
      /\ \A i \in 1 .. Len(content) : At(ConsumerHead, i) # p
  <2>1. \A i \in 1 .. Len(content) : At(ConsumerHead, i) # p
    BY <1>1 DEF RingInv, ReadInv
  <2> QED
    BY <2>1, ContentLen, AtIs DEF RingInv, RingTypeOK
<1>5. RingTypeOK'
  BY <1>0, <1>1 DEF RingInv, RingTypeOK, Places
<1>6. LiveInv'
  BY <1>0, <1>2, <1>4 DEF RingInv, LiveInv, At
<1>7. ReadInv'
  <2>1. \A c \in 1 .. Len(clearing') : clearing'[c] # p /\ clearing'[c] \in Places
                                        /\ c + 1 \in 1 .. Len(clearing)
                                        /\ clearing'[c] = clearing[c + 1] /\ c \in Nat
    BY <1>1, <1>3
  <2>2. \A c \in 1 .. Len(clearing') : Queue'[clearing'[c]] # Null
    BY <1>2, <2>1 DEF RingInv, ReadInv
  <2>3. \A c \in 1 .. Len(clearing') : \A i \in 1 .. Len(content) :
           clearing'[c] # At(ConsumerHead, i)
    BY <2>1 DEF RingInv, ReadInv
  <2>4. \A c, d \in 1 .. Len(clearing') : clearing'[c] = clearing'[d] => c = d
    <3> TAKE c, d \in 1 .. Len(clearing')
    <3> HAVE clearing'[c] = clearing'[d]
    <3>1. c + 1 = d + 1
      BY <2>1 DEF RingInv, ReadInv
    <3> QED
      BY <2>1, <3>1
  <2>5. Unread' = {}
    BY <1>0 DEF Unread
  <2> QED
    BY <1>0, <2>2, <2>3, <2>4, <2>5 DEF ReadInv, At
<1>8. FreeInv'
  <2>1. inserting' # Null => Queue'[Producer'] = Null
    BY <1>0, <1>2 DEF RingInv, FreeInv, RingTypeOK
  <2>2. ASSUME NEW k \in Places, Queue'[k] # Null
        PROVE  \/ \E c \in 1 .. Len(clearing') : k = clearing'[c]
               \/ \E i \in 1 .. Len(content) : k = At(ConsumerHead, i)
    <3>1. k # p /\ Queue[k] # Null
      BY <1>2, <2>2
    <3>2. \/ \E c \in 1 .. Len(clearing) : k = clearing[c]
          \/ \E i \in 1 .. Len(content) : k = At(ConsumerHead, i)
      BY <1>0, <3>1 DEF RingInv, FreeInv
    <3>3. ASSUME NEW c \in 1 .. Len(clearing), k = clearing[c]
          PROVE  c - 1 \in 1 .. Len(clearing') /\ k = clearing'[c - 1]
      BY <1>1, <3>1, <3>3
    <3> QED
      BY <3>2, <3>3
  <2> QED
    BY <1>0, <2>1, <2>2 DEF FreeInv, At
<1> QED
  BY <1>5, <1>6, <1>7, <1>8 DEF RingInv

(* The item at the head is the oldest one; its place is read, and cleared at once or
   left for the end of the batch.                                           *)
LEMMA ConsumeKeeps ==
    ASSUME RingInv, PtrRingConsume
    PROVE  RingInv' /\ content # <<>>
<1> DEFINE n == Len(content)
           next == ConsumerHead + 1
           full == next - ConsumerTail >= Batch \/ next >= Size
<1>0. /\ clearing = <<>> /\ Queue[ConsumerHead] # Null
      /\ clearing' = IF full THEN ReadPlaces(ConsumerHead) ELSE <<>>
      /\ ConsumerHead' = IF next >= Size THEN 0 ELSE next
      /\ ConsumerTail' = IF next >= Size THEN 0 ELSE IF full THEN next ELSE ConsumerTail
      /\ content' = Tail(content)
      /\ UNCHANGED <<Queue, Producer, inserting>>
  BY DEF PtrRingConsume
<1> HIDE DEF full
<1>a. /\ Size \in Nat \ {0} /\ ConsumerHead \in Places /\ ConsumerHead \in Nat
      /\ ConsumerTail \in 0 .. ConsumerHead
      /\ ConsumerTail' \in 0 .. ConsumerHead'
      /\ full \/ next < Size
  BY <1>0, RingAssumption DEF RingInv, RingTypeOK, Places, full
<1>b. ConsumerHead' = At(ConsumerHead, 2)
  BY <1>0, <1>a, AtFacts
<1>c. ConsumerHead \notin Unread
  BY <1>a DEF Unread
<1>d. n \in 1 .. Size /\ content # <<>>
  <2>1. PICK i \in 1 .. n : ConsumerHead = At(ConsumerHead, i)
    BY <1>0, <1>a, <1>c DEF RingInv, FreeInv
  <2>2. n \in Nat /\ n # 0
    BY <2>1, ContentLen
  <2> QED
    BY <2>2, ContentLen
<1>e. /\ content \in Seq(RingItems) /\ content' \in Seq(RingItems)
      /\ Len(content') = n - 1
      /\ \A i \in 1 .. n - 1 : content'[i] = content[i + 1]
  BY <1>0, <1>d, HeadTailProperties, LenProperties DEF RingInv, RingTypeOK
<1>f. \A i \in 1 .. n - 1 : At(ConsumerHead', i) = At(ConsumerHead, i + 1)
                           /\ i + 1 \in 1 .. n
  BY <1>a, <1>b, <1>d, AtFacts
<1>g. /\ \A c \in 1 .. Len(clearing') : clearing'[c] = ConsumerHead + 1 - c
      /\ Len(clearing') = IF full THEN ConsumerHead - ConsumerTail + 1 ELSE 0
      /\ clearing' \in Seq(Places)
  <2>1. CASE full
    <3>1. /\ ReadPlaces(ConsumerHead) \in Seq(Places)
          /\ Len(ReadPlaces(ConsumerHead)) = ConsumerHead - ConsumerTail + 1
      <4>1. ConsumerHead - ConsumerTail + 1 \in Nat
        BY <1>a
      <4>2. \A i \in 1 .. ConsumerHead - ConsumerTail + 1 : ConsumerHead + 1 - i \in Places
        BY <1>a DEF Places
      <4> QED
        BY <4>1, <4>2 DEF ReadPlaces
    <3>2. \A c \in 1 .. ConsumerHead - ConsumerTail + 1 :
             ReadPlaces(ConsumerHead)[c] = ConsumerHead + 1 - c
      BY DEF ReadPlaces
    <3> QED
      BY <1>0, <2>1, <3>1, <3>2
  <2>2. CASE ~full
    BY <1>0, <2>2
  <2> QED
    BY <2>1, <2>2
<1>h. ASSUME NEW c \in 1 .. Len(clearing')
      PROVE  clearing'[c] \in Unread \cup {ConsumerHead}
  BY <1>a, <1>g DEF Unread
<1>i. Unread' \subseteq Unread \cup {ConsumerHead}
  BY <1>0, <1>a DEF Unread
<1>j. ASSUME NEW k \in Unread \cup {ConsumerHead}, NEW i \in 1 .. n - 1
      PROVE  k # At(ConsumerHead', i) /\ Queue[k] # Null
  <2>1. k # At(ConsumerHead, i + 1)
    <3>1. CASE k \in Unread
      BY <1>f, <3>1 DEF RingInv, ReadInv
    <3>2. CASE k = ConsumerHead
      <4>1. ConsumerHead = At(ConsumerHead, 1) /\ i + 1 # 1 /\ i + 1 \in 1 .. Size
        BY <1>a, <1>d, AtFacts
      <4> QED
        BY <1>a, <3>2, <4>1, AtFacts
    <3> QED
      BY <3>1, <3>2
  <2> QED
    BY <1>0, <1>f, <2>1 DEF RingInv, ReadInv
<1>k. \A k \in Unread \cup {ConsumerHead} : Queue[k] # Null
  BY <1>0 DEF RingInv, ReadInv
<1>1. RingTypeOK'
  <2>1. ConsumerHead' \in Places
    BY <1>a, <1>b, AtIs
  <2> QED
    BY <1>0, <1>a, <1>e, <1>g, <2>1 DEF RingInv, RingTypeOK, Places
<1>2. LiveInv'
  <2>1. Producer = At(ConsumerHead, n + 1)
    BY DEF RingInv, LiveInv
  <2>2. Producer' = At(ConsumerHead', n)
    BY <1>0, <1>a, <1>b, <1>d, <2>1, AtFacts
  <2>3. \A i \in 1 .. n - 1 : Queue[At(ConsumerHead', i)] = content'[i]
    BY <1>e, <1>f DEF RingInv, LiveInv
  <2> QED
    <3>1. /\ Len(content') + 1 = n /\ Len(content') <= Size
          /\ \A i \in 1 .. Len(content') : Queue'[At(ConsumerHead', i)] = content'[i]
      BY <1>0, <1>a, <1>d, <1>e, <2>3
    <3>2. Producer' = At(ConsumerHead', Len(content') + 1)
      BY <2>2, <3>1
    <3> QED
      BY <3>1, <3>2 DEF LiveInv
<1>3. ReadInv'
  <2>1. \A k \in Unread' : Queue'[k] # Null
    BY <1>0, <1>i, <1>k
  <2>2. \A k \in Unread' : \A i \in 1 .. Len(content') : k # At(ConsumerHead', i)
    BY <1>e, <1>i, <1>j
  <2>3. \A c \in 1 .. Len(clearing') : Queue'[clearing'[c]] # Null
    BY <1>0, <1>h, <1>k
  <2>4. \A c \in 1 .. Len(clearing') : \A i \in 1 .. Len(content') :
           clearing'[c] # At(ConsumerHead', i)
    BY <1>e, <1>h, <1>j
  <2>5. \A c, d \in 1 .. Len(clearing') : clearing'[c] = clearing'[d] => c = d
    <3> TAKE c, d \in 1 .. Len(clearing')
    <3>1. c \in Nat /\ d \in Nat
      BY <1>a, <1>g
    <3> QED
      BY <1>a, <1>g, <3>1
  <2>6. clearing' # <<>> => ConsumerTail' = ConsumerHead'
    BY <1>0
  <2> QED
    BY <2>1, <2>2, <2>3, <2>4, <2>5, <2>6 DEF ReadInv, At
<1>4. FreeInv'
  <2>1. inserting' # Null => Queue'[Producer'] = Null
    BY <1>0 DEF RingInv, FreeInv
  <2>2. ASSUME NEW k \in Places, Queue[k] # Null
        PROVE  \/ k \in Unread'
               \/ \E c \in 1 .. Len(clearing') : k = clearing'[c]
               \/ \E i \in 1 .. Len(content') : k = At(ConsumerHead', i)
    <3>1. \/ k \in Unread \cup {ConsumerHead}
          \/ \E i \in 2 .. n : k = At(ConsumerHead, i)
      <4>1. k \in Unread \/ \E i \in 1 .. n : k = At(ConsumerHead, i)
        BY <1>0, <2>2 DEF RingInv, FreeInv
      <4> QED
        BY <1>a, <1>d, <4>1, AtFacts
    <3>2. ASSUME NEW i \in 2 .. n, k = At(ConsumerHead, i)
          PROVE  i - 1 \in 1 .. Len(content') /\ k = At(ConsumerHead', i - 1)
      <4>1. i - 1 \in 1 .. n - 1 /\ (i - 1) + 1 = i
        BY <1>d
      <4> QED
        BY <1>e, <1>f, <3>2, <4>1
    <3>3. CASE k \in Unread \cup {ConsumerHead} /\ full
      <4>1. /\ ConsumerHead + 1 - k \in 1 .. Len(clearing')
            /\ ConsumerHead + 1 - (ConsumerHead + 1 - k) = k
        BY <1>a, <1>g, <3>3 DEF Unread
      <4> QED
        BY <1>g, <4>1
    <3>4. CASE k \in Unread \cup {ConsumerHead} /\ ~full
      BY <1>0, <1>a, <3>4 DEF Unread
    <3> QED
      BY <3>1, <3>2, <3>3, <3>4
  <2> QED
    BY <1>0, <2>1, <2>2 DEF FreeInv, At
<1> QED
  BY <1>1, <1>2, <1>3, <1>4, <1>d DEF RingInv

(* The producer, and the consumer with its batches, keep the ring's invariant. *)
THEOREM RingInvariance == RingSpec => []RingInv
<1>1. RingInit => RingInv
  BY RingInitInv
<1>2. RingInv /\ [RingNext]_ringVars => RingInv'
  <2> SUFFICES ASSUME RingInv, [RingNext]_ringVars PROVE RingInv'
    OBVIOUS
  <2>1. CASE UNCHANGED ringVars
    BY <2>1 DEF ringVars, RingInv, RingTypeOK, LiveInv, ReadInv, FreeInv, Unread, At
  <2>2. CASE RingNext
    BY <2>2, FindPlaceKeeps, WritePlaceKeeps, ConsumeKeeps, ClearPlaceKeeps DEF RingNext
  <2> QED
    BY <2>1, <2>2
<1> QED
  BY <1>1, <1>2, PTL DEF RingSpec

(* Whatever the size of the ring and of the batches: the items produced and not yet
   consumed lie in their order behind the consumer's head, and none is overwritten
   or cleared before it was consumed. *)
THEOREM RingOrder == RingSpec => []RingIsFifo
<1>1. RingInv => RingIsFifo
  <2> SUFFICES ASSUME RingInv PROVE RingIsFifo
    OBVIOUS
  <2> DEFINE n == Len(content)
  <2>1. /\ n \in 0 .. Size /\ Size \in Nat \ {0}
        /\ ConsumerHead \in Places /\ ConsumerHead \in Nat
        /\ \A i \in 1 .. n : content[i] # Null
    BY ContentLen DEF RingInv, RingTypeOK, Places
  <2>2. \A i \in 1 .. n : Queue[(ConsumerHead + i - 1) % Size] = content[i]
    BY DEF RingInv, LiveInv, At
  <2>3. (ConsumerHead + n) % Size = Producer
    <3>1. ConsumerHead + (n + 1) - 1 = ConsumerHead + n
      BY <2>1
    <3>2. Producer = (ConsumerHead + (n + 1) - 1) % Size
      BY DEF RingInv, LiveInv, At
    <3> QED
      BY <3>1, <3>2
  <2>4. ASSUME clearing = <<>> PROVE Queue[ConsumerHead] = Null <=> content = <<>>
    <3>1. ASSUME content = <<>> PROVE Queue[ConsumerHead] = Null
      <4>1. ConsumerHead \notin Unread
        BY <2>1 DEF Unread
      <4> QED
        BY <2>1, <2>4, <3>1, <4>1 DEF RingInv, FreeInv
    <3>2. ASSUME content # <<>> PROVE Queue[ConsumerHead] # Null
      <4>1. n # 0
        BY <3>2, EmptySeq DEF RingInv, RingTypeOK
      <4>2. 1 \in 1 .. n /\ At(ConsumerHead, 1) = ConsumerHead
        BY <2>1, <4>1, AtFacts
      <4> QED
        BY <2>1, <4>2 DEF RingInv, LiveInv
    <3> QED
      BY <3>1, <3>2
  <2> QED
    BY <2>1, <2>2, <2>3, <2>4 DEF RingIsFifo
<1> QED
  BY <1>1, RingInvariance, PTL

-----------------------------------------------------------------------------
(* Work threads. *)
WorkTypeOK ==
    /\ threads \in Seq(Processors) /\ spawning \in Seq(Processors)
    /\ thread \in [Processors -> {"none", "wait", "work", "gone"}]
    /\ spawner \in {"wait", "spawn", "gone"}
    /\ NewWork \in BOOLEAN /\ NewCpus \in BOOLEAN /\ Dead \in BOOLEAN
    /\ items \in Nat /\ bumping \in Nat
    /\ destroy \in {"no", "deregistered", "spawner", "threads", "done"}

(* A thread belongs to a work thread of the list, also the one about to be made; none
   is made any more when the spawner has ended.                              *)
ThreadsInv ==
    /\ \A p \in Processors : thread[p] # "none" => p \in Arrived
    /\ destroy \in {"threads", "done"} => spawner = "gone"
    /\ spawner = "spawn" => \A i \in DOMAIN spawning : spawning[i] \in Arrived

WorkInv == WorkTypeOK /\ ThreadsInv /\ NoWorkForgotten

LEMMA SpawnerKeeps ==
    ASSUME WorkInv, SpawnerStep
    PROVE  WorkInv'
<1> USE DEF WorkInv, SpawnerStep, Arrived, NoWorkForgotten
<1>1. CASE SpawnerWakes
  <2> USE <1>1 DEF SpawnerWakes
  <2>0. threads \in Seq(Processors)
    BY DEF WorkTypeOK
  <2>1. spawning' \in Seq(Processors) /\ spawner' \in {"wait", "spawn", "gone"}
    <3>1. CASE NewCpus
      BY <2>0, <3>1
    <3>2. CASE ~NewCpus
      BY <3>2
    <3> QED
      BY <3>1, <3>2
  <2>2. WorkTypeOK'
    BY <2>1 DEF WorkTypeOK
  <2>3. ThreadsInv'
    BY DEF ThreadsInv
  <2> QED
    BY <2>2, <2>3
<1>2. CASE SpawnOne
  <2> DEFINE p == Head(spawning)
  <2>1. /\ spawning \in Seq(Processors) /\ spawning # <<>> /\ spawner = "spawn"
        /\ thread' = [thread EXCEPT ![p] = "wait"] /\ spawning' = Tail(spawning)
        /\ thread[p] = "none" /\ thread \in [Processors -> {"none", "wait", "work", "gone"}]
        /\ UNCHANGED <<threads, spawner, NewWork, NewCpus, Dead, items, bumping, destroy>>
    BY <1>2 DEF SpawnOne, WorkTypeOK
  <2>2. /\ p \in Processors /\ p = spawning[1] /\ 1 \in DOMAIN spawning
        /\ Tail(spawning) \in Seq(Processors)
        /\ \A i \in DOMAIN Tail(spawning) :
              i + 1 \in DOMAIN spawning /\ Tail(spawning)[i] = spawning[i + 1]
    BY <2>1, HeadTailProperties, LenProperties
  <2>3. WorkTypeOK'
    BY <2>1, <2>2 DEF WorkTypeOK
  <2>4. p \in Arrived
    BY <2>1, <2>2 DEF ThreadsInv
  <2>5. ThreadsInv'
    BY <2>1, <2>2, <2>4 DEF ThreadsInv
  <2>6. \A q \in Processors : thread[q] = "work" => thread'[q] = "work"
    BY <2>1, <2>2
  <2> QED
    BY <2>1, <2>3, <2>5, <2>6
<1>3. CASE SpawnEnds
  BY <1>3 DEF SpawnEnds, WorkTypeOK, ThreadsInv
<1> QED
  BY <1>1, <1>2, <1>3

LEMMA ProducerKeeps ==
    ASSUME WorkInv, PutItem \/ WorkQueueBump \/ \E p \in Processors : NewCpuArrival(p)
    PROVE  WorkInv'
<1> USE DEF WorkInv, NoWorkForgotten
<1>1. CASE PutItem
  <2> USE <1>1 DEF PutItem
  <2>1. WorkTypeOK' /\ ThreadsInv' /\ bumping' > 0
    BY DEF WorkTypeOK, ThreadsInv, Arrived
  <2> QED
    BY <2>1
<1>2. CASE WorkQueueBump
  <2> USE <1>2 DEF WorkQueueBump
  <2>1. WorkTypeOK' /\ ThreadsInv' /\ NewWork'
    BY DEF WorkTypeOK, ThreadsInv, Arrived
  <2> QED
    BY <2>1
<1>3. ASSUME NEW p \in Processors, NewCpuArrival(p) PROVE WorkInv'
  <2> USE <1>3 DEF NewCpuArrival
  <2>1. /\ threads' = <<p>> \o threads /\ threads \in Seq(Processors)
        /\ threads' \in Seq(Processors)
    BY DEF WorkTypeOK
  <2>2. WorkTypeOK'
    BY <2>1 DEF WorkTypeOK
  <2>3. \A i \in DOMAIN threads : i + 1 \in DOMAIN threads' /\ threads'[i + 1] = threads[i]
    BY <2>1, LenProperties
  <2>4. Arrived \subseteq Arrived'
    BY <2>3 DEF Arrived
  <2>5. ThreadsInv'
    BY <2>4 DEF ThreadsInv
  <2> QED
    BY <2>2, <2>5
<1> QED
  BY <1>1, <1>2, <1>3

(* A thread that stops looking at the queue has found it empty; one that wakes up
   is there to look.                                                         *)
LEMMA WorkerKeeps ==
    ASSUME WorkInv, NEW p \in Processors, WorkerThread(p)
    PROVE  WorkInv'
<1> USE DEF WorkInv, WorkerThread, NoWorkForgotten
<1>1. CASE WorkerWakes(p)
  <2> USE <1>1 DEF WorkerWakes
  <2>1. WorkTypeOK'
    BY DEF WorkTypeOK
  <2>2. ThreadsInv'
    BY DEF WorkTypeOK, ThreadsInv, Arrived
  <2>3. CASE NewWork
    BY <2>1, <2>2, <2>3 DEF WorkTypeOK
  <2>4. CASE ~NewWork
    <3>1. \A q \in Processors : thread[q] = "work" => thread'[q] = "work"
      BY DEF WorkTypeOK
    <3> QED
      BY <2>1, <2>2, <2>4, <3>1
  <2> QED
    BY <2>3, <2>4
<1>2. CASE TakeItem(p)
  BY <1>2 DEF TakeItem, WorkTypeOK, ThreadsInv, Arrived
<1>3. CASE RoutineReturns(p)
  <2> USE <1>3 DEF RoutineReturns, QueueFoundEmpty
  <2>1. WorkTypeOK'
    BY DEF WorkTypeOK
  <2>2. ThreadsInv'
    BY DEF WorkTypeOK, ThreadsInv, Arrived
  <2> QED
    BY <2>1, <2>2
<1> QED
  BY <1>1, <1>2, <1>3

LEMMA DestroyKeeps ==
    ASSUME WorkInv, Deregister \/ DestroyStep
    PROVE  WorkInv'
<1> USE DEF WorkInv, NoWorkForgotten
<1>1. CASE Deregister \/ SetDead \/ AwaitSpawner
  BY <1>1 DEF Deregister, SetDead, AwaitSpawner, WorkTypeOK, ThreadsInv, Arrived
<1>2. CASE AwaitThreads
  <2> USE <1>2 DEF AwaitThreads
  <2>1. WorkTypeOK'
    BY DEF WorkTypeOK
  <2>2. ThreadsInv'
    BY DEF ThreadsInv
  <2>3. \A p \in Processors : thread[p] # "work"
    BY DEF ThreadsInv
  <2> QED
    BY <2>1, <2>2, <2>3
<1> QED
  BY <1>1, <1>2 DEF DestroyStep

(* Whatever number of processors and producers, bumps and workers that come and go:
   while there are items, somebody will look at the queue. *)
THEOREM WorkIsDone == WorkQueueSpec => []NoWorkForgotten
<1>1. WorkQueueInit => WorkInv
  <2> SUFFICES ASSUME WorkQueueInit PROVE WorkInv
    OBVIOUS
  <2> USE DEF WorkQueueInit
  <2>0. threads \in Seq(Processors) /\ spawning \in Seq(Processors)
    OBVIOUS
  <2>1. WorkTypeOK
    BY <2>0 DEF WorkTypeOK
  <2> QED
    BY <2>1 DEF WorkQueueInit, WorkInv, ThreadsInv, NoWorkForgotten
<1>2. WorkInv /\ [WorkQueueNext]_wqVars => WorkInv'
  <2> SUFFICES ASSUME WorkInv, [WorkQueueNext]_wqVars PROVE WorkInv'
    OBVIOUS
  <2>1. CASE UNCHANGED wqVars
    BY <2>1 DEF wqVars, WorkInv, WorkTypeOK, ThreadsInv, Arrived, NoWorkForgotten
  <2>2. CASE WorkQueueNext
    BY <2>2, SpawnerKeeps, ProducerKeeps, WorkerKeeps, DestroyKeeps DEF WorkQueueNext
  <2> QED
    BY <2>1, <2>2
<1>3. WorkInv => NoWorkForgotten
  BY DEF WorkInv
<1> QED
  BY <1>1, <1>2, <1>3, PTL DEF WorkQueueSpec

-----------------------------------------------------------------------------
(* The log. *)
LogTypeOK ==
    /\ logWriter \in [Writers -> [at : {"out", "check", "enter", "claim", "write", "leave"},
                                  checking : BOOLEAN]]
    /\ NewEntry \in BOOLEAN /\ IsDeviceRemoving \in BOOLEAN /\ announcing \in BOOLEAN
    /\ logReader \in [LogReaders -> {"gone", "out", "check", "look", "wait", "copy"}]
    /\ Length \in 0 .. BUFFERED_LOG_ENTRIES

(* A reader that has taken the event of a removal leaves and does not read again. *)
RemovalHeard ==
    IsDeviceRemoving => \/ NewEntry \/ announcing
                        \/ \E r \in LogReaders : logReader[r] \in {"check", "copy", "out"}

LinesHeard ==
    Asleep /\ Length > 0 => NewEntry \/ \E w \in Writers : logWriter[w].at = "write"

LogInv == LogTypeOK /\ RemovalHeard /\ LinesHeard

LEMMA WriterKeeps ==
    ASSUME LogInv, NEW w \in Writers,
           \/ BeginCheck(w) \/ NewInterval(w) \/ EndCheck(w) \/ LogInfo(w)
           \/ EnterRing(w) \/ ClaimEntry(w) \/ WriteEntry(w) \/ LeaveRing(w)
    PROVE  LogInv'
<1> USE LogRingAssumption DEF LogInv, NoLine, removalVars
<1>1. CASE ClaimEntry(w)
  <2> USE <1>1 DEF ClaimEntry
  <2>1. LogTypeOK'
    BY DEF LogTypeOK
  <2>2. logWriter'[w].at = "write"
    BY DEF LogTypeOK
  <2> QED
    BY <2>1, <2>2 DEF RemovalHeard, LinesHeard
<1>2. CASE WriteEntry(w)
  <2> USE <1>2 DEF WriteEntry
  <2>1. LogTypeOK'
    BY DEF LogTypeOK
  <2> QED
    BY <2>1 DEF RemovalHeard, LinesHeard
<1>3. CASE \/ BeginCheck(w) \/ NewInterval(w) \/ EndCheck(w) \/ LogInfo(w) \/ EnterRing(w)
           \/ LeaveRing(w)
  <2>1. LogTypeOK'
    <3>1. /\ logWriter' \in [Writers -> [at : {"out", "check", "enter", "claim", "write", "leave"},
                                         checking : BOOLEAN]]
          /\ UNCHANGED <<Length, NewEntry, removalVars, logReader>>
      <4> USE DEF LogTypeOK
      <4>1. CASE BeginCheck(w)
        BY <4>1 DEF BeginCheck
      <4>2. CASE NewInterval(w)
        BY <4>2 DEF NewInterval
      <4>3. CASE EndCheck(w)
        BY <4>3 DEF EndCheck
      <4>4. CASE LogInfo(w)
        BY <4>4 DEF LogInfo
      <4>5. CASE EnterRing(w)
        BY <4>5 DEF EnterRing
      <4>6. CASE LeaveRing(w)
        BY <4>6 DEF LeaveRing
      <4> QED
        BY <1>3, <4>1, <4>2, <4>3, <4>4, <4>5, <4>6
    <3> QED
      BY <3>1 DEF LogTypeOK
  <2>2. /\ UNCHANGED <<Length, NewEntry, removalVars, logReader>>
        /\ \A v \in Writers : logWriter[v].at = "write" => logWriter'[v].at = "write"
    BY <1>3
    DEF LogTypeOK, BeginCheck, NewInterval, EndCheck, LogInfo, EnterRing, LeaveRing
  <2> QED
    BY <2>1, <2>2 DEF RemovalHeard, LinesHeard, Asleep
<1> QED
  BY <1>1, <1>2, <1>3

(* A reader that moves, to wherever it goes but to sleep. *)
LEMMA LogReaderKeeps ==
    ASSUME LogInv, NEW r \in LogReaders,
           \/ ReadLogLine(r) \/ CheckWhileFalse(r) \/ TakeEntry(r) \/ ReturnLine(r)
           \/ WakeReader(r)
    PROVE  LogInv'
<1> USE LogRingAssumption DEF LogInv, LogTypeOK, removalVars, LogReaderAt
<1>1. CASE ReadLogLine(r)
  BY <1>1 DEF ReadLogLine, RemovalHeard, LinesHeard, Asleep
<1>2. CASE CheckWhileFalse(r)
  BY <1>2 DEF CheckWhileFalse, RemovalHeard, LinesHeard, Asleep
<1>3. CASE TakeEntry(r)
  <2>1. LogTypeOK'
    BY <1>3 DEF TakeEntry
  <2>2. RemovalHeard'
    BY <1>3 DEF TakeEntry, RemovalHeard
  <2>3. LinesHeard'
    BY <1>3 DEF TakeEntry, LinesHeard, Asleep
  <2> QED
    BY <2>1, <2>2, <2>3
<1>4. CASE ReturnLine(r)
  <2>1. LogTypeOK' /\ RemovalHeard'
    BY <1>4 DEF ReturnLine, RemovalHeard
  <2>2. Asleep' => Asleep
    BY <1>4 DEF ReturnLine, Asleep
  <2> QED
    BY <1>4, <2>1, <2>2 DEF ReturnLine, LinesHeard
<1>5. CASE WakeReader(r)
  BY <1>5 DEF WakeReader, RemovalHeard, LinesHeard, Asleep
<1> QED
  BY <1>1, <1>2, <1>3, <1>4, <1>5

LEMMA RemovalKeeps ==
    ASSUME LogInv,
           \/ IntervalEnds \/ AnnounceRemoval \/ \E removing \in BOOLEAN : DispatchPnp(removing)
    PROVE  LogInv'
<1> USE LogRingAssumption
    DEF LogInv, LogTypeOK, RemovalHeard, LinesHeard, Asleep, removalVars
<1>1. CASE IntervalEnds
  BY <1>1 DEF IntervalEnds
<1>2. CASE AnnounceRemoval
  BY <1>2 DEF AnnounceRemoval
<1>3. ASSUME NEW removing \in BOOLEAN, DispatchPnp(removing) PROVE LogInv'
  BY <1>3 DEF DispatchPnp
<1> QED
  BY <1>1, <1>2, <1>3

(* Whatever number of threads log and read: while there is a line, or the device
   goes, the readers do not all sleep, unless one is about to be woken (logging.c,
   LogRingRead and LogRingWrite; ioctl.c, DispatchPnp).  A reader that is alone
   is all of them.                                                           *)
THEOREM ReaderIsWoken == LogRingSpec => []ReaderAwake
<1>1. LogRingInit => LogInv
  <2> SUFFICES ASSUME LogRingInit PROVE LogInv
    OBVIOUS
  <2>0. logWriter \in [Writers -> [at : {"out", "check", "enter", "claim", "write", "leave"},
                                  checking : BOOLEAN]]
    BY DEF LogRingInit, NoLine
  <2>1. Length \in 0 .. BUFFERED_LOG_ENTRIES
    BY LogRingAssumption DEF LogRingInit
  <2>2. LogTypeOK
    BY <2>0, <2>1 DEF LogRingInit, LogTypeOK
  <2> QED
    BY <2>2 DEF LogRingInit, LogInv, RemovalHeard, LinesHeard
<1>2. LogInv /\ [LogRingNext]_logVars => LogInv'
  <2> SUFFICES ASSUME LogInv, [LogRingNext]_logVars PROVE LogInv'
    OBVIOUS
  <2>1. CASE UNCHANGED logVars
    BY <2>1 DEF logVars, LogInv, LogTypeOK, RemovalHeard, LinesHeard, Asleep
  <2>2. CASE LogRingNext
    BY <2>2, WriterKeeps, LogReaderKeeps, RemovalKeeps DEF LogRingNext
  <2> QED
    BY <2>1, <2>2
<1>3. LogInv => ReaderAwake
  BY DEF LogInv, LogTypeOK, RemovalHeard, LinesHeard, ReaderAwake, Asleep
<1> QED
  BY <1>1, <1>2, <1>3, PTL DEF LogRingSpec

-----------------------------------------------------------------------------
(* The packet queue of a peer. *)

(* The packets that have a place but have not taken it yet. *)
Reserved == {t \in Enqueuers : pstate[t] = "exchange"}

(* A packet is with one producer, or in the queue, or with the consumer. *)
ExclusiveInv ==
    /\ \A t \in Enqueuers : pstate[t] = "idle" <=> pnode[t] = NULL
    /\ \A t, u \in Enqueuers : pnode[t] # NULL /\ pnode[t] = pnode[u] => t = u
    /\ \A t \in Reserved : pnode[t] # Peeked /\ \A i \in 1 .. Len(queued) : pnode[t] # queued[i]
    /\ \A i, j \in 1 .. Len(queued) : queued[i] = queued[j] => i = j
    /\ \A i \in 1 .. Len(queued) : Peeked # queued[i]

(* Count has the places taken and those reserved. *)
CountInv == count = Len(queued) + Cardinality(Reserved)

(* The nodes by the order of their exchanges from Tail to Head: the packets of queued,
   and the stub behind the first s of them, or nowhere (s = -1).             *)
IsOrder(order, s) ==
    /\ Len(order) = IF s = -1 THEN Len(queued) ELSE Len(queued) + 1
    /\ \A i \in 1 .. Len(queued) : queued[i] = order[IF s # -1 /\ s < i THEN i + 1 ELSE i]
    /\ s # -1 => order[s + 1] = Stub
    /\ \A i, j \in 1 .. Len(order) : order[i] = order[j] => i = j
    /\ Len(order) > 0 /\ order[1] = tail /\ order[Len(order)] = head

(* Somebody is between the exchange that returned a and the store of b. *)
Pending(a, b) ==
    \/ \E t \in Enqueuers : pstate[t] = "link" /\ pprev[t] = a /\ pnode[t] = b
    \/ cstate = "linkStub" /\ cprev = a /\ b = Stub

(* Each node is linked to the one after it, or is about to be, and no link is stored
   for any other reason.                                                    *)
LinksInv(order) ==
    /\ \A i \in 1 .. Len(order) - 1 :
          link[order[i]] = order[i + 1] \/ (link[order[i]] = NULL /\ Pending(order[i], order[i + 1]))
    /\ link[order[Len(order)]] = NULL
    /\ \A t \in Enqueuers : pstate[t] = "link" =>
          \E i \in 1 .. Len(order) - 1 :
             pprev[t] = order[i] /\ pnode[t] = order[i + 1] /\ link[order[i]] = NULL
    /\ cstate = "linkStub" =>
          \E i \in 1 .. Len(order) - 1 :
             cprev = order[i] /\ Stub = order[i + 1] /\ link[order[i]] = NULL

(* Where the consumer is, and why it may answer "empty". *)
ConsumerInv(order, s) ==
    /\ cstate \notin {"idle", "first"} => tail # Stub
    /\ cstate \in {"second", "clearStub", "exchangeStub"} => s = -1
    /\ cstate = "exchangeStub" => link[Stub] = NULL
    /\ cstate # "idle" => Peeked = NULL
    /\ cstate # "idle" /\ ~disturbed =>
         /\ \A t \in Enqueuers : pstate[t] # "link"
         /\ cstate \in {"compare", "clearStub", "exchangeStub"} => Len(order) = 1
         /\ cstate = "linkStub" => cprev = tail
         /\ cstate = "last" => link[tail] # NULL

OrderInv(order, s) == IsOrder(order, s) /\ LinksInv(order) /\ ConsumerInv(order, s)

SomeOrder == \E order \in Seq(Nodes), s \in -1 .. Len(queued) : OrderInv(order, s)

QInv == QueueTypeOK /\ ExclusiveInv /\ CountInv /\ SomeOrder
-----------------------------------------------------------------------------
(* A step of the queue keeps the packets with whom they are. *)
LEMMA FifoLen ==
    ASSUME QueueTypeOK
    PROVE  /\ Len(queued) \in Nat
           /\ \A i \in 1 .. Len(queued) : queued[i] \in Nbls /\ queued[i] # Stub /\ queued[i] # NULL
  BY PrevQueueAssumption, LenProperties DEF QueueTypeOK

(* What the order of the nodes consists of. *)
LEMMA OrderElems ==
    ASSUME QueueTypeOK, NEW order \in Seq(Nodes), NEW s \in -1 .. Len(queued), IsOrder(order, s)
    PROVE  /\ Len(order) \in Nat \ {0}
           /\ \A j \in 1 .. Len(order) : order[j] \in Nodes /\ order[j] # NULL
           /\ \A j \in 1 .. Len(order) :
                 order[j] = Stub \/ \E i \in 1 .. Len(queued) : order[j] = queued[i]
           /\ s = -1 => \A j \in 1 .. Len(order) : order[j] # Stub
           /\ tail # Stub => s # 0 /\ Len(queued) > 0 /\ queued[1] = tail
           /\ tail = Stub => s = 0
<1>0. Len(queued) \in Nat /\ s \in Int
  BY FifoLen
<1>1. /\ Len(order) \in Nat \ {0}
      /\ Len(order) = IF s = -1 THEN Len(queued) ELSE Len(queued) + 1
  BY LenProperties DEF IsOrder
<1>2. \A j \in 1 .. Len(order) : order[j] \in Nodes /\ order[j] # NULL
  BY <1>1, LenProperties, PrevQueueAssumption DEF Nodes
<1>3. ASSUME NEW j \in 1 .. Len(order)
      PROVE  \/ s # -1 /\ j = s + 1 /\ order[j] = Stub
             \/ \E i \in 1 .. Len(queued) : order[j] = queued[i]
  <2>1. CASE s = -1
    BY <1>0, <1>1, <2>1 DEF IsOrder
  <2>2. CASE s # -1 /\ j = s + 1
    BY <2>2 DEF IsOrder
  <2>3. CASE s # -1 /\ j < s + 1
    <3>1. j \in 1 .. Len(queued) /\ ~(s < j)
      BY <1>0, <2>3
    <3> QED
      BY <2>3, <3>1 DEF IsOrder
  <2>4. CASE s # -1 /\ j > s + 1
    <3>1. j - 1 \in 1 .. Len(queued) /\ s < j - 1 /\ (j - 1) + 1 = j
      BY <1>0, <1>1, <2>4
    <3>2. queued[j - 1] = order[j]
      BY <2>4, <3>1 DEF IsOrder
    <3> QED
      BY <3>1, <3>2
  <2> QED
    BY <1>0, <2>1, <2>2, <2>3, <2>4
<1>4. s = -1 => \A j \in 1 .. Len(order) : order[j] # Stub
  BY <1>3, FifoLen
<1>5. tail # Stub => s # 0 /\ Len(queued) > 0 /\ queued[1] = tail
  <2> SUFFICES ASSUME tail # Stub PROVE s # 0 /\ Len(queued) > 0 /\ queued[1] = tail
    OBVIOUS
  <2>1. s # 0
    BY DEF IsOrder
  <2>2. Len(queued) > 0
    BY <1>0, <1>1, <2>1
  <2>3. 1 \in 1 .. Len(queued) /\ ~(s # -1 /\ s < 1)
    BY <1>0, <2>1, <2>2
  <2> QED
    BY <2>1, <2>2, <2>3 DEF IsOrder
<1>6. tail = Stub => s = 0
  <2> SUFFICES ASSUME tail = Stub PROVE s = 0
    OBVIOUS
  <2>1. order[1] = Stub /\ 1 \in 1 .. Len(order)
    BY <1>1 DEF IsOrder
  <2>2. s # -1
    BY <1>4, <2>1
  <2>3. order[s + 1] = Stub /\ s + 1 \in 1 .. Len(order)
    BY <1>0, <1>1, <2>2 DEF IsOrder
  <2>4. s + 1 = 1
    BY <2>1, <2>3 DEF IsOrder
  <2> QED
    BY <1>0, <2>4
<1> QED
  BY <1>1, <1>2, <1>3, <1>4, <1>5, <1>6

-----------------------------------------------------------------------------
(* A producer takes the last place, and owes the link to it. *)
LEMMA ExchangeOrder ==
    ASSUME QueueTypeOK, ExclusiveInv, NEW t \in Enqueuers, Exchange(t),
           NEW order \in Seq(Nodes), NEW s \in -1 .. Len(queued), OrderInv(order, s)
    PROVE  SomeOrder'
<1> PICK k \in Nbls : k = pnode[t]
  BY PrevQueueAssumption DEF Exchange, ExclusiveInv, QueueTypeOK
<1> PICK n \in Nat : n = Len(order)
  BY LenProperties
<1> PICK m \in Nat : m = Len(queued)
  BY FifoLen
<1> DEFINE new == Append(order, k)
<1>0. /\ pstate[t] = "exchange" /\ k # Stub /\ k # NULL
      /\ link' = [link EXCEPT ![k] = NULL] /\ pprev' = [pprev EXCEPT ![t] = head]
      /\ head' = k /\ pstate' = [pstate EXCEPT ![t] = "link"]
      /\ queued' = Append(queued, k) /\ disturbed' = (cstate # "idle")
      /\ UNCHANGED <<tail, count, Peeked, pnode, cstate, cprev>>
      /\ \A i \in 1 .. m : k # queued[i]
  BY PrevQueueAssumption DEF Exchange, ExclusiveInv, Reserved
<1>1. /\ new \in Seq(Nodes) /\ Len(new) = n + 1 /\ new[n + 1] = k
      /\ \A i \in 1 .. n : new[i] = order[i]
  BY DEF Nodes
<1>2. /\ queued' \in Seq(Nbls) /\ Len(queued') = m + 1 /\ queued'[m + 1] = k
      /\ \A i \in 1 .. m : queued'[i] = queued[i]
  BY <1>0 DEF QueueTypeOK
<1> HIDE DEF new
<1>3. /\ n > 0 /\ \A i \in 1 .. n : order[i] # k /\ order[i] \in Nodes
      /\ order[1] = tail /\ order[n] = head
      /\ n = IF s = -1 THEN m ELSE m + 1
      /\ \A i, j \in 1 .. n : order[i] = order[j] => i = j
  <2>1. /\ n > 0 /\ order[1] = tail /\ order[n] = head
        /\ n = IF s = -1 THEN m ELSE m + 1
        /\ \A i, j \in 1 .. n : order[i] = order[j] => i = j
    BY DEF OrderInv, IsOrder
  <2>2. /\ \A i \in 1 .. n : order[i] \in Nodes
        /\ \A i \in 1 .. n : order[i] = Stub \/ \E j \in 1 .. m : order[i] = queued[j]
    BY OrderElems DEF OrderInv
  <2>3. \A i \in 1 .. n : order[i] # k
    BY <1>0, <2>2
  <2> QED
    BY <2>1, <2>2, <2>3
<1>4. IsOrder(new, s)'
  <2>1. \A i \in 1 .. m : queued[i] = order[IF s # -1 /\ s < i THEN i + 1 ELSE i]
    BY DEF OrderInv, IsOrder
  <2>2. ASSUME NEW i \in 1 .. m + 1
        PROVE  queued'[i] = new[IF s # -1 /\ s < i THEN i + 1 ELSE i]
    <3>1. CASE i = m + 1
      BY <1>1, <1>2, <1>3, <3>1
    <3>2. CASE i \in 1 .. m
      <4>1. (IF s # -1 /\ s < i THEN i + 1 ELSE i) \in 1 .. n
        BY <1>3, <3>2
      <4> QED
        BY <1>1, <1>2, <2>1, <3>2, <4>1
    <3> QED
      BY <3>1, <3>2
  <2>3. s # -1 => new[s + 1] = Stub
    <3>1. s # -1 => s + 1 \in 1 .. n /\ order[s + 1] = Stub
      BY <1>3 DEF OrderInv, IsOrder
    <3> QED
      BY <1>1, <3>1
  <2>4. \A i, j \in 1 .. n + 1 : new[i] = new[j] => i = j
    BY <1>1, <1>3
  <2>5. Len(new) > 0 /\ new[1] = tail' /\ new[Len(new)] = head'
    BY <1>0, <1>1, <1>3
  <2> QED
    BY <1>1, <1>2, <1>3, <2>2, <2>3, <2>4, <2>5 DEF IsOrder
<1>5. /\ \A i \in 1 .. n : link'[order[i]] = link[order[i]]
      /\ link'[k] = NULL /\ link[order[n]] = NULL
      /\ \A u \in Enqueuers \ {t} : pstate'[u] = pstate[u] /\ pprev'[u] = pprev[u]
      /\ pstate'[t] = "link" /\ pprev'[t] = order[n] /\ pnode'[t] = k
      /\ pstate[t] # "link"
  BY <1>0, <1>3 DEF QueueTypeOK, OrderInv, LinksInv, Nodes
<1>6. LinksInv(new)'
  <2>1. ASSUME NEW i \in 1 .. n
        PROVE  \/ link'[new[i]] = new[i + 1]
               \/ link'[new[i]] = NULL /\ Pending(new[i], new[i + 1])'
    <3>1. CASE i = n
      BY <1>0, <1>1, <1>3, <1>5, <3>1 DEF Pending
    <3>2. CASE i \in 1 .. n - 1
      <4>1. /\ new[i] = order[i] /\ new[i + 1] = order[i + 1]
            /\ link'[new[i]] = link[order[i]]
        BY <1>1, <1>5, <3>2
      <4>2. CASE link[order[i]] = order[i + 1]
        BY <4>1, <4>2
      <4>3. CASE link[order[i]] = NULL /\ Pending(order[i], order[i + 1])
        <5>1. Pending(order[i], order[i + 1])'
          BY <1>0, <1>5, <4>3 DEF Pending
        <5> QED
          BY <4>1, <4>3, <5>1 DEF Pending
      <4> QED
        BY <3>2, <4>2, <4>3 DEF OrderInv, LinksInv
    <3> QED
      BY <3>1, <3>2
  <2>2. link'[new[Len(new)]] = NULL
    BY <1>1, <1>5
  <2>3. ASSUME NEW u \in Enqueuers, pstate'[u] = "link"
        PROVE  \E i \in 1 .. n : /\ pprev'[u] = new[i] /\ pnode'[u] = new[i + 1]
                                 /\ link'[new[i]] = NULL
    <3>1. CASE u = t
      BY <1>1, <1>3, <1>5, <3>1
    <3>2. CASE u # t
      <4>1. PICK i \in 1 .. n - 1 : /\ pprev[u] = order[i] /\ pnode[u] = order[i + 1]
                                   /\ link[order[i]] = NULL
        BY <1>5, <2>3, <3>2 DEF OrderInv, LinksInv
      <4>2. i \in 1 .. n /\ i + 1 \in 1 .. n /\ i # n + 1 /\ i + 1 # n + 1
        BY <1>1, <4>1
      <4>3. new[i] = order[i] /\ new[i + 1] = order[i + 1]
        BY <1>1, <4>2
      <4>4. link'[order[i]] = link[order[i]]
        BY <1>5, <4>2
      <4>5. pnode'[u] = pnode[u] /\ pprev'[u] = pprev[u]
        BY <1>0, <1>5, <3>2
      <4> QED
        BY <4>1, <4>2, <4>3, <4>4, <4>5
    <3> QED
      BY <3>1, <3>2
  <2>4. ASSUME cstate' = "linkStub"
        PROVE  \E i \in 1 .. n : /\ cprev' = new[i] /\ Stub = new[i + 1]
                                 /\ link'[new[i]] = NULL
    <3>1. PICK i \in 1 .. n - 1 : /\ cprev = order[i] /\ Stub = order[i + 1]
                                 /\ link[order[i]] = NULL
      BY <1>0, <2>4 DEF OrderInv, LinksInv
    <3>2. /\ i \in 1 .. n /\ new[i] = order[i] /\ new[i + 1] = order[i + 1]
          /\ link'[order[i]] = link[order[i]] /\ cprev' = cprev
      BY <1>0, <1>1, <1>5, <3>1
    <3> QED
      BY <3>1, <3>2
  <2>5. Len(new) - 1 = n
    BY <1>1
  <2> QED
    BY <2>1, <2>2, <2>3, <2>4, <2>5 DEF LinksInv
<1>7. ConsumerInv(new, s)'
  <2>1. link'[Stub] = link[Stub]
    BY <1>0 DEF QueueTypeOK, Nodes
  <2> QED
    BY <1>0, <2>1 DEF OrderInv, ConsumerInv
<1>8. s \in -1 .. Len(queued')
  BY <1>2
<1> QED
  BY <1>1, <1>4, <1>6, <1>7, <1>8 DEF SomeOrder, OrderInv

(* The link that was owed is stored, and no other is touched. *)
LEMMA LinkPreviousOrder ==
    ASSUME QueueTypeOK, ExclusiveInv, NEW t \in Enqueuers, LinkPrevious(t),
           NEW order \in Seq(Nodes), NEW s \in -1 .. Len(queued), OrderInv(order, s)
    PROVE  SomeOrder'
<1> PICK n \in Nat : n = Len(order)
  BY LenProperties
<1> PICK p \in 1 .. n - 1 : /\ pprev[t] = order[p] /\ pnode[t] = order[p + 1]
                           /\ link[order[p]] = NULL
  BY DEF LinkPrevious, OrderInv, LinksInv
<1> DEFINE a == order[p]
<1>0. /\ pstate[t] = "link" /\ link' = [link EXCEPT ![a] = order[p + 1]]
      /\ pstate' = [pstate EXCEPT ![t] = "idle"] /\ pnode' = [pnode EXCEPT ![t] = NULL]
      /\ pprev' = [pprev EXCEPT ![t] = NULL]
      /\ UNCHANGED <<head, tail, count, Peeked, cstate, cprev, queued, disturbed>>
  BY DEF LinkPrevious
<1>1. /\ n > 0 /\ \A i \in 1 .. n : order[i] \in Nodes /\ order[i] # NULL
      /\ s = -1 => a # Stub
  BY SMTT(30), OrderElems DEF OrderInv
<1>2. \A i, j \in 1 .. n : order[i] = order[j] => i = j
  BY DEF OrderInv, IsOrder
<1>3. order[p + 1] # NULL /\ order[p + 1] # Stub
  BY <1>0, <1>1, PrevQueueAssumption DEF ExclusiveInv, QueueTypeOK
<1>4. /\ link'[a] = order[p + 1]
      /\ \A x \in Nodes \ {a} : link'[x] = link[x]
      /\ \A i \in 1 .. n : i # p => link'[order[i]] = link[order[i]]
      /\ \A u \in Enqueuers \ {t} :
            pstate'[u] = pstate[u] /\ pprev'[u] = pprev[u] /\ pnode'[u] = pnode[u]
      /\ pstate'[t] # "link"
  BY <1>0, <1>1, <1>2 DEF QueueTypeOK
<1> HIDE DEF a
<1>5. IsOrder(order, s)'
  BY <1>0 DEF OrderInv, IsOrder
<1>6. LinksInv(order)'
  <2>1. ASSUME NEW i \in 1 .. n - 1
        PROVE  \/ link'[order[i]] = order[i + 1]
               \/ link'[order[i]] = NULL /\ Pending(order[i], order[i + 1])'
    <3>1. CASE i = p
      BY <1>4, <3>1 DEF a
    <3>2. CASE i # p
      <4>1. order[i] # pprev[t] /\ link'[order[i]] = link[order[i]]
        BY <1>2, <1>4, <3>2
      <4>2. Pending(order[i], order[i + 1]) => Pending(order[i], order[i + 1])'
        BY <1>0, <1>4, <4>1 DEF Pending
      <4> QED
        BY <4>1, <4>2 DEF OrderInv, LinksInv
    <3> QED
      BY <3>1, <3>2
  <2>2. link'[order[n]] = NULL
    BY <1>1, <1>4 DEF OrderInv, LinksInv
  <2>3. ASSUME NEW u \in Enqueuers, pstate'[u] = "link"
        PROVE  \E i \in 1 .. n - 1 : /\ pprev'[u] = order[i] /\ pnode'[u] = order[i + 1]
                                     /\ link'[order[i]] = NULL
    <3>1. u # t /\ pstate[u] = "link"
      BY <1>4, <2>3
    <3>2. PICK i \in 1 .. n - 1 : /\ pprev[u] = order[i] /\ pnode[u] = order[i + 1]
                                 /\ link[order[i]] = NULL
      BY <3>1 DEF OrderInv, LinksInv
    <3>3. i # p
      BY <1>3, <3>1, <3>2 DEF ExclusiveInv
    <3>4. link'[order[i]] = NULL /\ pprev'[u] = order[i] /\ pnode'[u] = order[i + 1]
      BY <1>4, <3>1, <3>2, <3>3
    <3> QED
      BY <3>4
  <2>4. ASSUME cstate' = "linkStub"
        PROVE  \E i \in 1 .. n - 1 : /\ cprev' = order[i] /\ Stub = order[i + 1]
                                     /\ link'[order[i]] = NULL
    <3>1. PICK i \in 1 .. n - 1 : /\ cprev = order[i] /\ Stub = order[i + 1]
                                 /\ link[order[i]] = NULL
      BY <1>0, <2>4 DEF OrderInv, LinksInv
    <3>2. link'[order[i]] = NULL
      BY <1>3, <1>4, <3>1
    <3> QED
      BY <1>0, <3>1, <3>2
  <2> QED
    BY <2>1, <2>2, <2>3, <2>4 DEF LinksInv
<1>7. ConsumerInv(order, s)'
  <2>1. s = -1 => link'[Stub] = link[Stub]
    BY <1>1, <1>4 DEF Nodes
  <2>2. cstate # "idle" => disturbed
    BY <1>0 DEF OrderInv, ConsumerInv
  <2> QED
    BY <1>0, <2>1, <2>2 DEF OrderInv, ConsumerInv
<1> QED
  BY <1>0, <1>5, <1>6, <1>7 DEF SomeOrder, OrderInv

LEMMA LinkStubOrder ==
    ASSUME QueueTypeOK, ExclusiveInv, LinkStub,
           NEW order \in Seq(Nodes), NEW s \in -1 .. Len(queued), OrderInv(order, s)
    PROVE  SomeOrder'
<1> PICK n \in Nat : n = Len(order)
  BY LenProperties
<1> PICK p \in 1 .. n - 1 : /\ cprev = order[p] /\ Stub = order[p + 1]
                           /\ link[order[p]] = NULL
  BY DEF LinkStub, OrderInv, LinksInv
<1>0. /\ cstate = "linkStub" /\ cstate' = "last"
      /\ link' = [link EXCEPT ![order[p]] = Stub]
      /\ UNCHANGED <<head, tail, count, Peeked, pstate, pnode, pprev, cprev, queued, disturbed>>
  BY DEF LinkStub, producerVars
<1>1. /\ n > 0 /\ \A i \in 1 .. n : order[i] \in Nodes /\ order[i] # NULL
  BY OrderElems DEF OrderInv
<1>2. \A i, j \in 1 .. n : order[i] = order[j] => i = j
  BY DEF OrderInv, IsOrder
<1>3. /\ link'[order[p]] = Stub /\ Stub # NULL
      /\ \A i \in 1 .. n : i # p => link'[order[i]] = link[order[i]]
  BY <1>0, <1>1, <1>2, PrevQueueAssumption DEF QueueTypeOK
<1>4. IsOrder(order, s)'
  BY <1>0 DEF OrderInv, IsOrder
<1>5. LinksInv(order)'
  <2>1. ASSUME NEW i \in 1 .. n - 1
        PROVE  \/ link'[order[i]] = order[i + 1]
               \/ link'[order[i]] = NULL /\ Pending(order[i], order[i + 1])'
    <3>1. CASE i = p
      BY <1>3, <3>1
    <3>2. CASE i # p
      <4>1. order[i] # cprev /\ link'[order[i]] = link[order[i]]
        BY <1>2, <1>3, <3>2
      <4>2. Pending(order[i], order[i + 1]) => Pending(order[i], order[i + 1])'
        BY <1>0, <4>1 DEF Pending
      <4> QED
        BY <4>1, <4>2 DEF OrderInv, LinksInv
    <3> QED
      BY <3>1, <3>2
  <2>2. link'[order[n]] = NULL
    BY <1>1, <1>3 DEF OrderInv, LinksInv
  <2>3. ASSUME NEW u \in Enqueuers, pstate'[u] = "link"
        PROVE  \E i \in 1 .. n - 1 : /\ pprev'[u] = order[i] /\ pnode'[u] = order[i + 1]
                                     /\ link'[order[i]] = NULL
    <3>1. PICK i \in 1 .. n - 1 : /\ pprev[u] = order[i] /\ pnode[u] = order[i + 1]
                                 /\ link[order[i]] = NULL
      BY <1>0, <2>3 DEF OrderInv, LinksInv
    <3>2. pnode[u] # Stub
      BY PrevQueueAssumption DEF QueueTypeOK
    <3>3. link'[order[i]] = NULL
      BY <1>3, <3>1, <3>2
    <3> QED
      BY <1>0, <3>1, <3>3
  <2> QED
    BY <1>0, <2>1, <2>2, <2>3 DEF LinksInv
<1>6. ConsumerInv(order, s)'
  BY <1>0, <1>3 DEF OrderInv, ConsumerInv
<1> QED
  BY <1>0, <1>4, <1>5, <1>6 DEF SomeOrder, OrderInv

(* The consumer moves Tail on to the next node. *)
LEMMA AdvanceOrder ==
    ASSUME QueueTypeOK, NEW order \in Seq(Nodes), NEW s \in -1 .. Len(queued),
           OrderInv(order, s), cstate # "linkStub", cstate' # "linkStub",
           link[tail] # NULL, tail' = link[tail],
           queued' = IF tail = Stub THEN queued ELSE Tail(queued),
           UNCHANGED <<head, link, pstate, pnode, pprev>>
    PROVE  LET new == Tail(order)
               r == IF s <= 0 THEN -1 ELSE s - 1
           IN  /\ new \in Seq(Nodes) /\ r \in -1 .. Len(queued')
               /\ IsOrder(new, r)' /\ LinksInv(new)'
<1> PICK n \in Nat : n = Len(order)
  BY LenProperties
<1> PICK m \in Nat : m = Len(queued)
  BY FifoLen
<1> DEFINE new == Tail(order)
           r == IF s <= 0 THEN -1 ELSE s - 1
<1>0. /\ n > 0 /\ order[1] = tail /\ order[n] = head
      /\ \A i, j \in 1 .. n : order[i] = order[j] => i = j
      /\ \A i \in 1 .. n : order[i] \in Nodes /\ order[i] # NULL
      /\ n = IF s = -1 THEN m ELSE m + 1
      /\ tail # Stub => s # 0 /\ m > 0
      /\ tail = Stub => s = 0
      /\ s \in -1 .. m
  BY OrderElems DEF OrderInv, IsOrder
<1>1. n > 1 /\ link[order[n]] = NULL
  BY <1>0 DEF OrderInv, LinksInv
<1>2. tail' = order[2]
  <2>1. 1 \in 1 .. n - 1
    BY <1>1
  <2>2. link[order[1]] = order[1 + 1]
    BY <1>0, <2>1 DEF OrderInv, LinksInv
  <2> QED
    BY <1>0, <2>2
<1>3. /\ new \in Seq(Nodes) /\ Len(new) = n - 1
      /\ \A i \in 1 .. n - 1 : new[i] = order[i + 1]
  BY <1>1, HeadTailProperties, EmptySeq
<1> HIDE DEF new
<1>4. /\ queued' \in Seq(Nbls) /\ tail = Stub => queued' = queued
      /\ tail # Stub => /\ Len(queued') = m - 1
                        /\ \A i \in 1 .. m - 1 : queued'[i] = queued[i + 1]
  <2>1. CASE tail = Stub
    BY <2>1 DEF QueueTypeOK
  <2>2. CASE tail # Stub
    <3>1. queued # <<>> /\ queued' = Tail(queued) /\ queued \in Seq(Nbls)
      BY <1>0, <2>2 DEF QueueTypeOK
    <3> QED
      BY <2>2, <3>1, HeadTailProperties
  <2> QED
    BY <2>1, <2>2
<1>5. r \in -1 .. Len(queued')
  BY <1>0, <1>4
<1>6. IsOrder(new, r)'
  <2>1. Len(new) = IF r = -1 THEN Len(queued') ELSE Len(queued') + 1
    BY SMTT(30), <1>0, <1>3, <1>4
  <2>2. ASSUME NEW i \in 1 .. Len(queued')
        PROVE  queued'[i] = new[IF r # -1 /\ r < i THEN i + 1 ELSE i]
    <3>1. CASE tail = Stub
      <4>1. s = 0 /\ r = -1 /\ i \in 1 .. m /\ i \in 1 .. n - 1
        BY <1>0, <1>4, <2>2, <3>1
      <4>2. queued[i] = order[i + 1]
        BY <4>1 DEF OrderInv, IsOrder
      <4> QED
        BY <1>3, <1>4, <3>1, <4>1, <4>2
    <3>2. CASE tail # Stub
      <4>1. i \in 1 .. m - 1 /\ i + 1 \in 1 .. m /\ queued'[i] = queued[i + 1]
        BY <1>4, <2>2, <3>2
      <4>2. queued[i + 1] = order[IF s # -1 /\ s < i + 1 THEN i + 1 + 1 ELSE i + 1]
        BY <4>1 DEF OrderInv, IsOrder
      <4>3. CASE s = -1
        <5>1. r = -1 /\ i \in 1 .. n - 1
          BY <1>0, <4>1, <4>3
        <5> QED
          BY <1>3, <4>1, <4>2, <4>3, <5>1
      <4>4. CASE s # -1 /\ s < i + 1
        <5>1. r # -1 /\ r < i /\ i + 1 \in 1 .. n - 1
          BY <1>0, <3>2, <4>1, <4>4
        <5> QED
          BY <1>3, <4>1, <4>2, <4>4, <5>1
      <4>5. CASE s # -1 /\ ~(s < i + 1)
        <5>1. ~(r < i) /\ i \in 1 .. n - 1
          BY <1>0, <3>2, <4>1, <4>5
        <5> QED
          BY <1>3, <4>1, <4>2, <4>5, <5>1
      <4> QED
        BY <4>3, <4>4, <4>5
    <3> QED
      BY <3>1, <3>2
  <2>3. r # -1 => new[r + 1] = Stub
    <3>1. r # -1 => s + 1 \in 2 .. n /\ r + 1 = s /\ order[s + 1] = Stub
      BY <1>0 DEF OrderInv, IsOrder
    <3>2. r # -1 => s \in 1 .. n - 1
      BY <1>0, <3>1
    <3> QED
      BY <1>3, <3>1, <3>2
  <2>4. \A i, j \in 1 .. n - 1 : new[i] = new[j] => i = j
    <3> TAKE i, j \in 1 .. n - 1
    <3> HAVE new[i] = new[j]
    <3>1. i + 1 \in 1 .. n /\ j + 1 \in 1 .. n /\ order[i + 1] = order[j + 1]
      BY SMTT(30), <1>3
    <3>2. i + 1 = j + 1
      BY <1>0, <3>1
    <3> QED
      BY <3>2
  <2>5. Len(new) > 0 /\ new[1] = tail' /\ new[Len(new)] = head'
    BY <1>0, <1>1, <1>2, <1>3
  <2> QED
    BY <1>3, <2>1, <2>2, <2>3, <2>4, <2>5 DEF IsOrder
<1>7. LinksInv(new)'
  <2>1. ASSUME NEW i \in 1 .. n - 2
        PROVE  \/ link'[new[i]] = new[i + 1]
               \/ link'[new[i]] = NULL /\ Pending(new[i], new[i + 1])'
    <3>1. /\ i + 1 \in 1 .. n - 1 /\ new[i] = order[i + 1]
          /\ new[i + 1] = order[i + 1 + 1] /\ link' = link
      BY SMTT(30), <1>3
    <3>2. \/ link[order[i + 1]] = order[i + 1 + 1]
          \/ link[order[i + 1]] = NULL /\ Pending(order[i + 1], order[i + 1 + 1])
      BY <3>1 DEF OrderInv, LinksInv
    <3>3. Pending(order[i + 1], order[i + 1 + 1]) => Pending(new[i], new[i + 1])'
      BY <3>1 DEF Pending
    <3> QED
      BY <3>1, <3>2, <3>3
  <2>2. link'[new[n - 1]] = NULL
    BY <1>1, <1>3
  <2>3. ASSUME NEW u \in Enqueuers, pstate'[u] = "link"
        PROVE  \E i \in 1 .. n - 2 : /\ pprev'[u] = new[i] /\ pnode'[u] = new[i + 1]
                                     /\ link'[new[i]] = NULL
    <3>1. PICK i \in 1 .. n - 1 : /\ pprev[u] = order[i] /\ pnode[u] = order[i + 1]
                                 /\ link[order[i]] = NULL
      BY <2>3 DEF OrderInv, LinksInv
    <3>2. i # 1
      BY <1>0, <3>1
    <3>3. /\ i - 1 \in 1 .. n - 2 /\ new[i - 1] = order[i] /\ new[(i - 1) + 1] = order[i + 1]
      BY <1>3, <3>1, <3>2
    <3> QED
      BY <3>1, <3>3
  <2> QED
    BY <1>3, <2>1, <2>2, <2>3 DEF LinksInv
<1> QED
  BY <1>3, <1>5, <1>6, <1>7 DEF new

(* A step that moves no node and stores no link of one. *)
LEMMA SameOrder ==
    ASSUME NEW order \in Seq(Nodes), NEW s \in -1 .. Len(queued), OrderInv(order, s),
           cstate # "linkStub", cstate' # "linkStub",
           UNCHANGED <<head, tail, queued, pstate, pnode, pprev>>,
           \A i \in 1 .. Len(order) : link'[order[i]] = link[order[i]]
    PROVE  IsOrder(order, s)' /\ LinksInv(order)' /\ s \in -1 .. Len(queued')
<1> PICK n \in Nat : n = Len(order)
  BY LenProperties
<1>1. IsOrder(order, s)'
  BY DEF OrderInv, IsOrder
<1>2. LinksInv(order)'
  <2>1. ASSUME NEW i \in 1 .. n - 1
        PROVE  \/ link'[order[i]] = order[i + 1]
               \/ link'[order[i]] = NULL /\ Pending(order[i], order[i + 1])'
    <3>1. Pending(order[i], order[i + 1]) => Pending(order[i], order[i + 1])'
      BY DEF Pending
    <3>2. i \in 1 .. n
      OBVIOUS
    <3> QED
      BY <3>1, <3>2 DEF OrderInv, LinksInv
  <2>2. link'[order[n]] = NULL
    BY DEF OrderInv, LinksInv, IsOrder
  <2>3. ASSUME NEW u \in Enqueuers, pstate'[u] = "link"
        PROVE  \E i \in 1 .. n - 1 : /\ pprev'[u] = order[i] /\ pnode'[u] = order[i + 1]
                                     /\ link'[order[i]] = NULL
    <3>1. pstate[u] = "link" /\ pnode' = pnode /\ pprev' = pprev
      BY <2>3
    <3>2. PICK i \in 1 .. n - 1 : /\ pprev[u] = order[i] /\ pnode[u] = order[i + 1]
                                 /\ link[order[i]] = NULL
      BY <3>1 DEF OrderInv, LinksInv
    <3>3. i \in 1 .. n
      OBVIOUS
    <3> QED
      BY <3>1, <3>2, <3>3
  <2> QED
    BY <2>1, <2>2, <2>3 DEF LinksInv
<1> QED
  BY <1>1, <1>2

LEMMA ReserveOrder ==
    ASSUME QueueTypeOK, NEW t \in Enqueuers, NEW k \in Nbls, Reserve(t, k), SomeOrder
    PROVE  SomeOrder'
<1> PICK order \in Seq(Nodes), s \in -1 .. Len(queued) : OrderInv(order, s)
  BY DEF SomeOrder
<1> USE DEF Reserve
<1>1. IsOrder(order, s)'
  BY DEF OrderInv, IsOrder
<1>2. \A u \in Enqueuers :
         /\ pstate[u] = "link" => pstate'[u] = "link" /\ pnode'[u] = pnode[u]
         /\ pstate'[u] = "link" => pstate[u] = "link" /\ pnode'[u] = pnode[u]
  <2>1. /\ pstate' = [pstate EXCEPT ![t] = "exchange"] /\ pstate[t] = "idle"
        /\ pnode' = [pnode EXCEPT ![t] = k]
    OBVIOUS
  <2>2. DOMAIN pstate = Enqueuers /\ DOMAIN pnode = Enqueuers
    BY DEF QueueTypeOK
  <2>3. pstate'[t] = "exchange"
    BY <2>1, <2>2
  <2>4. \A u \in Enqueuers : u # t => pstate'[u] = pstate[u] /\ pnode'[u] = pnode[u]
    BY <2>1, <2>2
  <2>5. ASSUME NEW u \in Enqueuers
        PROVE  /\ pstate[u] = "link" => pstate'[u] = "link" /\ pnode'[u] = pnode[u]
               /\ pstate'[u] = "link" => pstate[u] = "link" /\ pnode'[u] = pnode[u]
    <3>1. CASE u = t
      BY <2>1, <2>3, <3>1
    <3>2. CASE u # t
      BY <2>4, <3>2
    <3> QED
      BY <3>1, <3>2
  <2> QED
    BY <2>5
<1>3. LinksInv(order)'
  <2>1. \A a, b \in Nodes \cup {NULL} : Pending(a, b) => Pending(a, b)'
    BY <1>2 DEF Pending
  <2>2. \A i \in 1 .. Len(order) - 1 : order[i] \in Nodes /\ order[i + 1] \in Nodes
    BY LenProperties
  <2>3. \A i \in 1 .. Len(order) - 1 :
           Pending(order[i], order[i + 1]) => Pending(order[i], order[i + 1])'
    BY <2>1, <2>2
  <2> QED
    BY SMTT(30), <1>2, <2>3 DEF OrderInv, LinksInv
<1>4. ConsumerInv(order, s)'
  BY <1>2 DEF OrderInv, ConsumerInv
<1> QED
  BY <1>1, <1>3, <1>4 DEF SomeOrder, OrderInv

LEMMA StartOrder ==
    ASSUME QueueTypeOK, StartPeek \/ DropPeeked, SomeOrder
    PROVE  SomeOrder'
<1> PICK order \in Seq(Nodes), s \in -1 .. Len(queued) : OrderInv(order, s)
  BY DEF SomeOrder
<1>0. /\ cstate = "idle" /\ cstate' # "linkStub"
      /\ UNCHANGED <<head, tail, queued, link, pstate, pnode, pprev>>
  BY DEF StartPeek, DropPeeked, producerVars
<1>1. IsOrder(order, s)' /\ LinksInv(order)' /\ s \in -1 .. Len(queued')
  BY <1>0, SameOrder
<1>2. ConsumerInv(order, s)'
  BY DEF ConsumerInv, StartPeek, DropPeeked, unlinked, producerVars
<1> QED
  BY <1>1, <1>2 DEF SomeOrder, OrderInv

(* No link behind Tail, and nobody about to store it: there is one node only. *)
LEMMA LastNode ==
    ASSUME QueueTypeOK, NEW order \in Seq(Nodes), NEW s \in -1 .. Len(queued),
           OrderInv(order, s), cstate # "linkStub", link[tail] = NULL,
           \A t \in Enqueuers : pstate[t] # "link"
    PROVE  Len(order) = 1
<1> PICK n \in Nat : n = Len(order)
  BY LenProperties
<1>0. n # 0 /\ order[1] = tail
  BY OrderElems DEF OrderInv, IsOrder
<1>1. ASSUME n # 1 PROVE FALSE
  <2>1. 1 \in 1 .. n - 1 /\ 1 + 1 \in 1 .. n
    BY <1>0, <1>1
  <2>2. link[order[1]] = order[1 + 1]
    BY <2>1 DEF OrderInv, LinksInv, Pending
  <2> QED
    BY <1>0, <2>1, <2>2, OrderElems DEF OrderInv
<1> QED
  BY <1>1

(* The packet at Tail is returned. *)
LEMMA ReturnOrder ==
    ASSUME QueueTypeOK, NEW order \in Seq(Nodes), NEW s \in -1 .. Len(queued),
           OrderInv(order, s), cstate # "linkStub",
           tail # Stub, link[tail] # NULL, ReturnTail(tail, link[tail])
    PROVE  SomeOrder'
<1> DEFINE new == Tail(order)
           r == IF s <= 0 THEN -1 ELSE s - 1
<1>1. /\ new \in Seq(Nodes) /\ r \in -1 .. Len(queued')
      /\ IsOrder(new, r)' /\ LinksInv(new)'
  BY AdvanceOrder DEF ReturnTail, producerVars
<1> HIDE DEF new, r
<1>2. ConsumerInv(new, r)'
  BY DEF ReturnTail, ConsumerInv
<1> QED
  BY <1>1, <1>2 DEF SomeOrder, OrderInv

LEMMA NullOrder ==
    ASSUME QueueTypeOK, NEW order \in Seq(Nodes), NEW s \in -1 .. Len(queued),
           OrderInv(order, s), cstate # "linkStub", ReturnNull
    PROVE  SomeOrder'
<1>0. cstate' = "idle" /\ UNCHANGED <<head, tail, queued, link, pstate, pnode, pprev>>
  BY DEF ReturnNull, producerVars
<1>1. IsOrder(order, s)' /\ LinksInv(order)' /\ s \in -1 .. Len(queued')
  BY <1>0, SameOrder
<1>2. ConsumerInv(order, s)'
  BY DEF ReturnNull, ConsumerInv
<1> QED
  BY <1>1, <1>2 DEF SomeOrder, OrderInv

(* Tail has no successor, and is going to be compared with Head. *)
LEMMA ToCompareOrder ==
    ASSUME QueueTypeOK, NEW order \in Seq(Nodes), NEW s \in -1 .. Len(queued),
           OrderInv(order, s), cstate \in {"first", "second"},
           tail # Stub, link[tail] = NULL, ConsumerGoto("compare"), UNCHANGED tail
    PROVE  SomeOrder'
<1>0. cstate' = "compare" /\ UNCHANGED <<head, tail, queued, link, pstate, pnode, pprev>>
  BY DEF ConsumerGoto, producerVars
<1>1. IsOrder(order, s)' /\ LinksInv(order)' /\ s \in -1 .. Len(queued')
  BY <1>0, SameOrder
<1>2. ~disturbed => Len(order) = 1
  BY LastNode DEF OrderInv, ConsumerInv
<1>3. ConsumerInv(order, s)'
  BY <1>2 DEF OrderInv, ConsumerGoto, ConsumerInv, producerVars
<1> QED
  BY <1>1, <1>3 DEF SomeOrder, OrderInv

LEMMA ReadFirstOrder ==
    ASSUME QueueTypeOK, ReadFirst, SomeOrder
    PROVE  SomeOrder'
<1> PICK order \in Seq(Nodes), s \in -1 .. Len(queued) : OrderInv(order, s)
  BY DEF SomeOrder
<1>0. cstate = "first"
  BY DEF ReadFirst
<1>1. CASE tail = Stub /\ link[tail] = NULL /\ ReturnNull
  BY <1>0, <1>1, NullOrder
<1>2. CASE tail = Stub /\ link[tail] # NULL /\ tail' = link[tail] /\ ConsumerGoto("second")
  <2> DEFINE new == Tail(order)
             r == IF s <= 0 THEN -1 ELSE s - 1
  <2>1. /\ new \in Seq(Nodes) /\ r \in -1 .. Len(queued')
        /\ IsOrder(new, r)' /\ LinksInv(new)'
    BY <1>0, <1>2, AdvanceOrder DEF ConsumerGoto, producerVars
  <2>2. r = -1
    <3>1. s = 0
      BY <1>2, OrderElems DEF OrderInv
    <3> QED
      BY <3>1
  <2> HIDE DEF new, r
  <2>3. tail' # Stub
    <3> PICK n \in Nat : n = Len(order)
      BY LenProperties
    <3>1. /\ n # 0 /\ order[1] = Stub /\ link[order[n]] = NULL
          /\ \A i, j \in 1 .. n : order[i] = order[j] => i = j
      BY <1>2, OrderElems DEF OrderInv, IsOrder, LinksInv
    <3>2. n # 1
      BY <1>2, <3>1
    <3>3. 1 \in 1 .. n - 1 /\ 1 + 1 \in 1 .. n /\ 1 \in 1 .. n
      BY <3>1, <3>2
    <3>4. link[order[1]] = order[1 + 1]
      BY <1>2, <3>1, <3>3 DEF OrderInv, LinksInv
    <3>5. order[1 + 1] # order[1]
      BY <3>1, <3>3
    <3> QED
      BY <1>2, <3>1, <3>4, <3>5
  <2>4. ConsumerInv(new, r)'
    BY <1>0, <1>2, <2>2, <2>3 DEF ConsumerGoto, ConsumerInv, OrderInv, producerVars
  <2> QED
    BY <2>1, <2>4 DEF SomeOrder, OrderInv
<1>3. CASE tail # Stub /\ link[tail] # NULL /\ ReturnTail(tail, link[tail])
  BY <1>0, <1>3, ReturnOrder
<1>4. CASE tail # Stub /\ link[tail] = NULL /\ ConsumerGoto("compare") /\ UNCHANGED tail
  BY <1>0, <1>4, ToCompareOrder
<1> QED
  BY <1>1, <1>2, <1>3, <1>4 DEF ReadFirst

LEMMA ReadSecondOrder ==
    ASSUME QueueTypeOK, ReadSecond, SomeOrder
    PROVE  SomeOrder'
<1> PICK order \in Seq(Nodes), s \in -1 .. Len(queued) : OrderInv(order, s)
  BY DEF SomeOrder
<1>0. cstate = "second" /\ tail # Stub
  BY DEF ReadSecond, OrderInv, ConsumerInv
<1>1. CASE link[tail] # NULL /\ ReturnTail(tail, link[tail])
  BY <1>0, <1>1, ReturnOrder
<1>2. CASE link[tail] = NULL /\ ConsumerGoto("compare") /\ UNCHANGED tail
  BY <1>0, <1>2, ToCompareOrder
<1> QED
  BY <1>1, <1>2 DEF ReadSecond

LEMMA CompareHeadOrder ==
    ASSUME QueueTypeOK, CompareHead, SomeOrder
    PROVE  SomeOrder'
<1> PICK order \in Seq(Nodes), s \in -1 .. Len(queued) : OrderInv(order, s)
  BY DEF SomeOrder
<1>0. cstate = "compare" /\ tail # Stub
  BY DEF CompareHead, OrderInv, ConsumerInv
<1>1. CASE tail # head /\ ReturnNull
  BY <1>0, <1>1, NullOrder
<1>2. CASE tail = head /\ ConsumerGoto("clearStub") /\ UNCHANGED tail
  <2>0. cstate' = "clearStub" /\ UNCHANGED <<head, tail, queued, link, pstate, pnode, pprev>>
    BY <1>2 DEF ConsumerGoto, producerVars
  <2>1. IsOrder(order, s)' /\ LinksInv(order)' /\ s \in -1 .. Len(queued')
    BY <1>0, <2>0, SameOrder
  <2>2. s = -1
    <3>1. /\ Len(order) \in Nat \ {0} /\ order[1] = order[Len(order)]
          /\ Len(queued) \in Nat \ {0}
          /\ \A i, j \in 1 .. Len(order) : order[i] = order[j] => i = j
          /\ Len(order) = IF s = -1 THEN Len(queued) ELSE Len(queued) + 1
      BY <1>0, <1>2, OrderElems, FifoLen DEF OrderInv, IsOrder
    <3> PICK n \in Nat : n = Len(order)
      BY LenProperties
    <3>2. 1 \in 1 .. n /\ n \in 1 .. n
      BY <3>1
    <3>3. n = 1
      BY <3>1, <3>2
    <3> QED
      BY <3>1, <3>3
  <2>3. ConsumerInv(order, s)'
    BY <1>0, <1>2, <2>2 DEF ConsumerGoto, ConsumerInv, OrderInv, producerVars
  <2> QED
    BY <2>1, <2>3 DEF SomeOrder, OrderInv
<1> QED
  BY <1>1, <1>2 DEF CompareHead

LEMMA ClearStubOrder ==
    ASSUME QueueTypeOK, ClearStub, SomeOrder
    PROVE  SomeOrder'
<1> PICK order \in Seq(Nodes), s \in -1 .. Len(queued) : OrderInv(order, s)
  BY DEF SomeOrder
<1>0. /\ cstate = "clearStub" /\ cstate' = "exchangeStub" /\ s = -1 /\ tail # Stub
      /\ link' = [link EXCEPT ![Stub] = NULL]
      /\ UNCHANGED <<head, tail, count, Peeked, pstate, pnode, pprev, cprev, queued, disturbed>>
  BY DEF ClearStub, OrderInv, ConsumerInv, producerVars
<1>1. \A i \in 1 .. Len(order) : order[i] # Stub /\ order[i] \in Nodes
  BY <1>0, OrderElems DEF OrderInv
<1>2. link'[Stub] = NULL /\ \A i \in 1 .. Len(order) : link'[order[i]] = link[order[i]]
  BY <1>0, <1>1 DEF QueueTypeOK, Nodes
<1>3. IsOrder(order, s)' /\ LinksInv(order)' /\ s \in -1 .. Len(queued')
  BY <1>0, <1>2, SameOrder
<1>4. ConsumerInv(order, s)'
  BY <1>0, <1>2 DEF ConsumerInv, OrderInv
<1> QED
  BY <1>3, <1>4 DEF SomeOrder, OrderInv

(* The stub becomes the last node. *)
LEMMA ExchangeStubOrder ==
    ASSUME QueueTypeOK, ExchangeStub, SomeOrder
    PROVE  SomeOrder'
<1> PICK order \in Seq(Nodes), s \in -1 .. Len(queued) : OrderInv(order, s)
  BY DEF SomeOrder
<1> PICK n \in Nat : n = Len(order)
  BY LenProperties
<1> PICK m \in Nat : m = Len(queued)
  BY FifoLen
<1> DEFINE new == Append(order, Stub)
<1>0. /\ cstate = "exchangeStub" /\ cstate' = "linkStub" /\ s = -1 /\ tail # Stub
      /\ link[Stub] = NULL /\ cprev' = head /\ head' = Stub
      /\ UNCHANGED <<tail, link, count, Peeked, pstate, pnode, pprev, queued, disturbed>>
  BY DEF ExchangeStub, OrderInv, ConsumerInv, producerVars
<1>1. /\ new \in Seq(Nodes) /\ Len(new) = n + 1 /\ new[n + 1] = Stub
      /\ \A i \in 1 .. n : new[i] = order[i]
  BY DEF Nodes
<1> HIDE DEF new
<1>2. /\ n > 0 /\ n = m /\ order[1] = tail /\ order[n] = head
      /\ \A i, j \in 1 .. n : order[i] = order[j] => i = j
      /\ \A i \in 1 .. m : queued[i] = order[i]
  BY <1>0 DEF OrderInv, IsOrder
<1>3. \A i \in 1 .. n : order[i] # Stub
  BY <1>0, OrderElems DEF OrderInv
<1>4. IsOrder(new, m)'
  <2>1. \A i, j \in 1 .. n + 1 : new[i] = new[j] => i = j
    BY <1>1, <1>2, <1>3
  <2>2. \A i \in 1 .. m : queued'[i] = new[IF m # -1 /\ m < i THEN i + 1 ELSE i]
    BY <1>0, <1>1, <1>2
  <2> QED
    BY <1>0, <1>1, <1>2, <2>1, <2>2 DEF IsOrder
<1>5. LinksInv(new)'
  <2>1. ASSUME NEW i \in 1 .. n
        PROVE  \/ link'[new[i]] = new[i + 1]
               \/ link'[new[i]] = NULL /\ Pending(new[i], new[i + 1])'
    <3>1. CASE i = n
      <4>1. link[order[n]] = NULL
        BY DEF OrderInv, LinksInv
      <4>2. Pending(order[n], Stub)'
        BY <1>0, <1>2 DEF Pending
      <4> QED
        BY <1>0, <1>1, <3>1, <4>1, <4>2
    <3>2. CASE i \in 1 .. n - 1
      <4>1. new[i] = order[i] /\ new[i + 1] = order[i + 1]
        BY <1>1, <3>2
      <4>2. \/ link[order[i]] = order[i + 1]
            \/ link[order[i]] = NULL /\ Pending(order[i], order[i + 1])
        BY <3>2 DEF OrderInv, LinksInv
      <4>3. Pending(order[i], order[i + 1]) => Pending(new[i], new[i + 1])'
        BY <1>0, <4>1 DEF Pending
      <4> QED
        BY <1>0, <4>1, <4>2, <4>3
    <3> QED
      BY <3>1, <3>2
  <2>2. link'[new[n + 1]] = NULL
    BY <1>0, <1>1
  <2>3. ASSUME NEW u \in Enqueuers, pstate'[u] = "link"
        PROVE  \E i \in 1 .. n : /\ pprev'[u] = new[i] /\ pnode'[u] = new[i + 1]
                                 /\ link'[new[i]] = NULL
    <3>1. PICK i \in 1 .. n - 1 : /\ pprev[u] = order[i] /\ pnode[u] = order[i + 1]
                                 /\ link[order[i]] = NULL
      BY <1>0, <2>3 DEF OrderInv, LinksInv
    <3>2. i \in 1 .. n /\ new[i] = order[i] /\ new[i + 1] = order[i + 1]
      BY <1>1, <3>1
    <3> QED
      BY <1>0, <3>1, <3>2
  <2>4. n \in 1 .. n /\ cprev' = new[n] /\ Stub = new[n + 1] /\ link'[new[n]] = NULL
    BY <1>0, <1>1, <1>2 DEF OrderInv, LinksInv
  <2> QED
    BY <1>1, <2>1, <2>2, <2>3, <2>4 DEF LinksInv
<1>6. ConsumerInv(new, m)'
  <2>1. ~disturbed => cprev' = tail
    BY <1>0, <1>2 DEF OrderInv, ConsumerInv
  <2> QED
    BY <1>0, <2>1 DEF ConsumerInv, OrderInv
<1>7. m \in -1 .. Len(queued')
  BY <1>0
<1> QED
  BY <1>1, <1>4, <1>5, <1>6, <1>7 DEF SomeOrder, OrderInv

LEMMA ReadLastOrder ==
    ASSUME QueueTypeOK, ReadLast, SomeOrder
    PROVE  SomeOrder'
<1> PICK order \in Seq(Nodes), s \in -1 .. Len(queued) : OrderInv(order, s)
  BY DEF SomeOrder
<1>0. cstate = "last" /\ tail # Stub
  BY DEF ReadLast, OrderInv, ConsumerInv
<1>1. CASE link[tail] # NULL /\ ReturnTail(tail, link[tail])
  BY <1>0, <1>1, ReturnOrder
<1>2. CASE link[tail] = NULL /\ ReturnNull
  BY <1>0, <1>2, NullOrder
<1> QED
  BY <1>1, <1>2 DEF ReadLast

-----------------------------------------------------------------------------
(* Reservations and places add up to Count. *)
LEMMA ReservedFacts ==
    ASSUME QueueTypeOK
    PROVE  IsFiniteSet(Reserved) /\ Cardinality(Reserved) \in Nat
<1>1. Reserved \subseteq Enqueuers
  BY DEF Reserved
<1> QED
  BY <1>1, PrevQueueAssumption, FS_Subset, FS_CardinalityType

LEMMA ReserveKeeps ==
    ASSUME QInv, NEW t \in Enqueuers, NEW k \in Nbls, Reserve(t, k)
    PROVE  QueueTypeOK' /\ ExclusiveInv' /\ CountInv'
<1>0. /\ pstate[t] = "idle" /\ count # MaxQueued /\ count' = count + 1
      /\ pstate' = [pstate EXCEPT ![t] = "exchange"] /\ pnode' = [pnode EXCEPT ![t] = k]
      /\ UNCHANGED <<head, tail, link, Peeked, pprev, cstate, cprev, queued, disturbed>>
  BY DEF Reserve
<1>1. /\ \A u \in Enqueuers : pnode[u] # k
      /\ \A i \in 1 .. Len(queued) : queued[i] # k
      /\ Peeked # k /\ k # NULL
  <2>1. k \notin Owned
    BY DEF Reserve
  <2>2. \A i \in 1 .. Len(queued) : queued[i] \in Range(queued)
    BY LenProperties DEF Range, QInv, QueueTypeOK
  <2> QED
    BY <2>1, <2>2, PrevQueueAssumption DEF Owned
<1>2. /\ pstate'[t] = "exchange" /\ pnode'[t] = k
      /\ \A u \in Enqueuers : u # t => pstate'[u] = pstate[u] /\ pnode'[u] = pnode[u]
  BY <1>0 DEF QInv, QueueTypeOK
<1>3. QueueTypeOK'
  BY <1>0, PrevQueueAssumption DEF QInv, QueueTypeOK
<1>4. ExclusiveInv'
  <2>1. \A u \in Enqueuers : pstate'[u] = "idle" <=> pnode'[u] = NULL
    BY <1>1, <1>2 DEF QInv, ExclusiveInv
  <2>2. \A u, v \in Enqueuers : pnode'[u] # NULL /\ pnode'[u] = pnode'[v] => u = v
    BY <1>1, <1>2 DEF QInv, ExclusiveInv
  <2>3. \A u \in Reserved' : u \in Enqueuers /\ (u = t \/ u \in Reserved)
    BY <1>2 DEF Reserved
  <2>4. \A u \in Reserved' : pnode'[u] # Peeked /\ \A i \in 1 .. Len(queued) : pnode'[u] # queued[i]
    BY <1>1, <1>2, <2>3 DEF QInv, ExclusiveInv
  <2> QED
    BY <1>0, <2>1, <2>2, <2>4 DEF QInv, ExclusiveInv
<1>5. CountInv'
  <2>1. Reserved' = Reserved \cup {t} /\ t \notin Reserved
    BY <1>0, <1>2 DEF Reserved
  <2>2. Cardinality(Reserved') = Cardinality(Reserved) + 1
    BY <2>1, ReservedFacts, FS_AddElement DEF QInv
  <2> QED
    BY <1>0, <2>2, ReservedFacts, FifoLen DEF QInv, CountInv
<1> QED
  BY <1>3, <1>4, <1>5

LEMMA ExchangeKeeps ==
    ASSUME QInv, NEW t \in Enqueuers, Exchange(t)
    PROVE  QueueTypeOK' /\ ExclusiveInv' /\ CountInv'
<1> PICK k \in Nbls : k = pnode[t]
  BY PrevQueueAssumption DEF Exchange, QInv, ExclusiveInv, QueueTypeOK
<1> PICK m \in Nat : m = Len(queued)
  BY FifoLen DEF QInv
<1>0. /\ pstate[t] = "exchange"
      /\ link' = [link EXCEPT ![k] = NULL] /\ pprev' = [pprev EXCEPT ![t] = head]
      /\ head' = k /\ pstate' = [pstate EXCEPT ![t] = "link"]
      /\ queued' = Append(queued, k) /\ disturbed' = (cstate # "idle")
      /\ UNCHANGED <<tail, count, Peeked, pnode, cstate, cprev>>
      /\ \A i \in 1 .. m : k # queued[i]
      /\ k # Peeked
  BY DEF Exchange, QInv, ExclusiveInv, Reserved
<1>1. /\ queued' \in Seq(Nbls) /\ Len(queued') = m + 1 /\ queued'[m + 1] = k
      /\ \A i \in 1 .. m : queued'[i] = queued[i]
  BY <1>0 DEF QInv, QueueTypeOK
<1>2. /\ pstate'[t] = "link"
      /\ \A u \in Enqueuers : u # t => pstate'[u] = pstate[u]
  BY <1>0 DEF QInv, QueueTypeOK
<1>3. QueueTypeOK'
  <2>1. disturbed' \in BOOLEAN
    BY <1>0
  <2> QED
    BY <1>0, <1>1, <2>1 DEF QInv, QueueTypeOK, Nodes
<1>4. ExclusiveInv'
  <2>1. \A u \in Enqueuers : pstate'[u] = "idle" <=> pnode'[u] = NULL
    BY <1>0, <1>2 DEF QInv, ExclusiveInv
  <2>2. \A u \in Reserved' : u \in Enqueuers /\ u # t /\ u \in Reserved
    BY <1>2 DEF Reserved
  <2>3. \A u \in Reserved' : pnode[u] # k
    BY <2>2, PrevQueueAssumption DEF QInv, ExclusiveInv
  <2>4. \A u \in Reserved' : pnode[u] # Peeked /\ \A i \in 1 .. m + 1 : pnode[u] # queued'[i]
    BY <1>1, <2>2, <2>3 DEF QInv, ExclusiveInv
  <2>5. \A i, j \in 1 .. m + 1 : queued'[i] = queued'[j] => i = j
    BY <1>0, <1>1 DEF QInv, ExclusiveInv
  <2>6. \A i \in 1 .. m + 1 : Peeked # queued'[i]
    BY <1>0, <1>1 DEF QInv, ExclusiveInv
  <2> QED
    BY <1>0, <1>1, <2>1, <2>4, <2>5, <2>6 DEF QInv, ExclusiveInv
<1>5. CountInv'
  <2>1. Reserved' = Reserved \ {t} /\ t \in Reserved
    BY <1>0, <1>2 DEF Reserved
  <2>2. Cardinality(Reserved') = Cardinality(Reserved) - 1
    BY <2>1, ReservedFacts, FS_RemoveElement DEF QInv
  <2>3. PICK c \in Nat : c = Cardinality(Reserved)
    BY ReservedFacts DEF QInv
  <2>4. count = m + c
    BY <2>3 DEF QInv, CountInv
  <2>5. m \in Nat /\ count' = count /\ Len(queued') = m + 1
    BY <1>0, <1>1
  <2>6. Cardinality(Reserved') = c - 1
    BY <2>2, <2>3
  <2>7. m + c = (m + 1) + (c - 1)
    BY <2>5
  <2> QED
    BY <2>4, <2>5, <2>6, <2>7 DEF CountInv
<1> QED
  BY <1>3, <1>4, <1>5

LEMMA LinkPreviousKeeps ==
    ASSUME QInv, NEW t \in Enqueuers, LinkPrevious(t)
    PROVE  QueueTypeOK' /\ ExclusiveInv' /\ CountInv'
<1>0. /\ pstate[t] = "link" /\ link' = [link EXCEPT ![pprev[t]] = pnode[t]]
      /\ pstate' = [pstate EXCEPT ![t] = "idle"] /\ pnode' = [pnode EXCEPT ![t] = NULL]
      /\ pprev' = [pprev EXCEPT ![t] = NULL]
      /\ UNCHANGED <<head, tail, count, Peeked, cstate, cprev, queued, disturbed>>
  BY DEF LinkPrevious
<1>1. /\ pstate'[t] = "idle" /\ pnode'[t] = NULL
      /\ \A u \in Enqueuers : u # t => pstate'[u] = pstate[u] /\ pnode'[u] = pnode[u]
  BY <1>0 DEF QInv, QueueTypeOK
<1>2. QueueTypeOK'
  BY <1>0 DEF QInv, QueueTypeOK, Nodes
<1>3. Reserved' = Reserved
  BY <1>0, <1>1 DEF Reserved
<1>4. ExclusiveInv'
  <2>1. \A u \in Enqueuers : pstate'[u] = "idle" <=> pnode'[u] = NULL
    BY <1>1 DEF QInv, ExclusiveInv
  <2>2. \A u, v \in Enqueuers : pnode'[u] # NULL /\ pnode'[u] = pnode'[v] => u = v
    BY <1>1 DEF QInv, ExclusiveInv
  <2>3. \A u \in Reserved : u \in Enqueuers /\ u # t
    BY <1>0 DEF Reserved
  <2> QED
    BY <1>0, <1>1, <1>3, <2>1, <2>2, <2>3 DEF QInv, ExclusiveInv
<1>5. CountInv'
  BY <1>0, <1>3 DEF QInv, CountInv
<1> QED
  BY <1>2, <1>4, <1>5

(* The consumer takes the oldest packet, or leaves the packets where they are. *)
LEMMA ReturnKeeps ==
    ASSUME QInv, tail # Stub, link[tail] # NULL, ReturnTail(tail, link[tail])
    PROVE  QueueTypeOK' /\ ExclusiveInv' /\ CountInv'
<1> PICK order \in Seq(Nodes), s \in -1 .. Len(queued) : OrderInv(order, s)
  BY DEF QInv, SomeOrder
<1> PICK m \in Nat : m = Len(queued)
  BY FifoLen DEF QInv
<1>0. /\ tail' = link[tail] /\ count' = count - 1 /\ Peeked' = tail /\ queued' = Tail(queued)
      /\ cstate' = "idle" /\ cprev' = NULL /\ disturbed' = FALSE
      /\ UNCHANGED <<head, link, pstate, pnode, pprev>>
  BY DEF ReturnTail, producerVars
<1>1. m > 0 /\ queued[1] = tail
  BY OrderElems DEF QInv, OrderInv
<1>2. /\ queued' \in Seq(Nbls) /\ Len(queued') = m - 1
      /\ \A i \in 1 .. m - 1 : queued'[i] = queued[i + 1]
  BY <1>0, <1>1, HeadTailProperties DEF QInv, QueueTypeOK
<1>3. Reserved' = Reserved
  BY <1>0 DEF Reserved
<1>4. QueueTypeOK'
  <2>1. count' \in 0 .. MaxQueued
    <3>1. count = m + Cardinality(Reserved) /\ Cardinality(Reserved) \in Nat
      BY ReservedFacts DEF QInv, CountInv
    <3>2. count >= 1
      BY <1>1, <3>1
    <3> QED
      BY <1>0, <3>2, PrevQueueAssumption DEF QInv, QueueTypeOK
  <2>2. tail' \in Nodes /\ Peeked' \in Nbls \cup {NULL}
    BY <1>0 DEF QInv, QueueTypeOK, Nodes
  <2> QED
    BY <1>0, <1>2, <2>1, <2>2 DEF QInv, QueueTypeOK, ConsumerStates
<1>5. ExclusiveInv'
  <2>1. \A u \in Reserved : u \in Enqueuers /\ pnode[u] # tail
    BY <1>1 DEF QInv, ExclusiveInv, Reserved
  <2>2. \A u \in Reserved : \A i \in 1 .. m - 1 : pnode[u] # queued'[i]
    BY <1>2 DEF QInv, ExclusiveInv
  <2>3. \A i, j \in 1 .. m - 1 : queued'[i] = queued'[j] => i = j
    <3> TAKE i, j \in 1 .. m - 1
    <3> HAVE queued'[i] = queued'[j]
    <3>1. i + 1 = j + 1
      BY <1>2 DEF QInv, ExclusiveInv
    <3> QED
      BY <3>1
  <2>4. \A i \in 1 .. m - 1 : tail # queued'[i]
    <3> TAKE i \in 1 .. m - 1
    <3>1. i + 1 \in 1 .. m /\ i + 1 # 1 /\ 1 \in 1 .. m
      BY <1>1
    <3> QED
      BY <1>1, <1>2, <3>1 DEF QInv, ExclusiveInv
  <2> QED
    BY <1>0, <1>2, <1>3, <2>1, <2>2, <2>3, <2>4 DEF QInv, ExclusiveInv
<1>6. CountInv'
  <2>1. Cardinality(Reserved) \in Nat
    BY ReservedFacts DEF QInv
  <2> QED
    BY SMTT(30), <1>0, <1>2, <1>3, <2>1 DEF QInv, CountInv
<1> QED
  BY <1>4, <1>5, <1>6

(* The other steps of the consumer leave the packets where they are. *)
LEMMA ConsumerMoves ==
    ASSUME QInv,
           UNCHANGED <<count, pstate, pnode, pprev, queued>>,
           Peeked' \in {Peeked, NULL}, head' \in Nodes, tail' \in Nodes,
           link' \in [Nodes -> Nodes \cup {NULL}],
           cstate' \in ConsumerStates, cprev' \in Nodes \cup {NULL}, disturbed' \in BOOLEAN
    PROVE  QueueTypeOK' /\ ExclusiveInv' /\ CountInv'
<1>1. QueueTypeOK'
  BY DEF QInv, QueueTypeOK
<1>2. Reserved' = Reserved
  BY DEF Reserved
<1>3. ExclusiveInv'
  <2>1. \A i \in 1 .. Len(queued) : queued[i] # NULL
    BY FifoLen DEF QInv
  <2>2. \A u \in Reserved : u \in Enqueuers /\ pnode[u] # NULL
    BY DEF Reserved, QInv, ExclusiveInv
  <2> QED
    BY <1>2, <2>1, <2>2 DEF QInv, ExclusiveInv
<1>4. CountInv'
  BY <1>2 DEF QInv, CountInv
<1> QED
  BY <1>1, <1>3, <1>4

LEMMA ConsumerKeeps ==
    ASSUME QInv, Consumer
    PROVE  QueueTypeOK' /\ ExclusiveInv' /\ CountInv'
<1>0. /\ head \in Nodes /\ tail \in Nodes /\ link \in [Nodes -> Nodes \cup {NULL}]
      /\ cprev \in Nodes \cup {NULL} /\ disturbed \in BOOLEAN /\ Stub \in Nodes
  BY DEF QInv, QueueTypeOK, Nodes
<1>1. CASE StartPeek \/ DropPeeked
  <2>1. /\ UNCHANGED <<head, tail, link, count, pstate, pnode, pprev, cprev, queued>>
        /\ Peeked' \in {Peeked, NULL} /\ cstate' \in ConsumerStates /\ disturbed' \in BOOLEAN
    BY <1>0, <1>1 DEF StartPeek, DropPeeked, producerVars, ConsumerStates
  <2> QED
    BY <1>0, <2>1, ConsumerMoves
<1>2. CASE ReturnNull
  <2>1. /\ UNCHANGED <<head, tail, link, count, Peeked, pstate, pnode, pprev, queued>>
        /\ cstate' \in ConsumerStates /\ cprev' = NULL /\ disturbed' \in BOOLEAN
    BY <1>2 DEF ReturnNull, producerVars, ConsumerStates
  <2> QED
    BY <1>0, <2>1, ConsumerMoves
<1>3. ASSUME NEW l \in ConsumerStates, ConsumerGoto(l), tail' \in Nodes
      PROVE  QueueTypeOK' /\ ExclusiveInv' /\ CountInv'
  <2>1. /\ UNCHANGED <<head, link, count, Peeked, pstate, pnode, pprev, cprev, queued, disturbed>>
        /\ cstate' \in ConsumerStates
    BY <1>3 DEF ConsumerGoto, producerVars
  <2> QED
    BY <1>0, <1>3, <2>1, ConsumerMoves
<1>4. CASE ReadFirst
  <2>1. CASE tail = Stub /\ link[tail] # NULL /\ tail' = link[tail] /\ ConsumerGoto("second")
    <3>1. tail' \in Nodes /\ "second" \in ConsumerStates
      BY <1>0, <2>1 DEF ConsumerStates
    <3> QED
      BY <1>3, <2>1, <3>1
  <2>2. CASE tail # Stub /\ link[tail] = NULL /\ ConsumerGoto("compare") /\ UNCHANGED tail
    BY <1>0, <1>3, <2>2 DEF ConsumerStates
  <2> QED
    BY <1>2, <1>4, <2>1, <2>2, ReturnKeeps DEF ReadFirst
<1>5. CASE ReadSecond
  <2>1. tail # Stub
    BY <1>5 DEF ReadSecond, QInv, SomeOrder, OrderInv, ConsumerInv
  <2>2. CASE link[tail] = NULL /\ ConsumerGoto("compare") /\ UNCHANGED tail
    BY <1>0, <1>3, <2>2 DEF ConsumerStates
  <2> QED
    BY <1>5, <2>1, <2>2, ReturnKeeps DEF ReadSecond
<1>6. CASE CompareHead
  <2>1. CASE tail = head /\ ConsumerGoto("clearStub") /\ UNCHANGED tail
    BY <1>0, <1>3, <2>1 DEF ConsumerStates
  <2> QED
    BY <1>2, <1>6, <2>1 DEF CompareHead
<1>7. CASE ClearStub \/ ExchangeStub
  <2>1. /\ UNCHANGED <<tail, count, Peeked, pstate, pnode, pprev, queued, disturbed>>
        /\ cstate' \in ConsumerStates /\ link' \in [Nodes -> Nodes \cup {NULL}]
        /\ head' \in Nodes /\ cprev' \in Nodes \cup {NULL}
    BY <1>0, <1>7 DEF ClearStub, ExchangeStub, producerVars, ConsumerStates
  <2> QED
    BY <1>0, <2>1, ConsumerMoves
<1>8. CASE LinkStub
  <2>1. /\ UNCHANGED <<head, tail, count, Peeked, pstate, pnode, pprev, cprev, queued, disturbed>>
        /\ cstate' \in ConsumerStates /\ link' \in [Nodes -> Nodes \cup {NULL}]
    BY <1>0, <1>8 DEF LinkStub, producerVars, ConsumerStates
  <2> QED
    BY <1>0, <2>1, ConsumerMoves
<1>9. CASE ReadLast
  <2>1. tail # Stub
    BY <1>9 DEF ReadLast, QInv, SomeOrder, OrderInv, ConsumerInv
  <2> QED
    BY <1>2, <1>9, <2>1, ReturnKeeps DEF ReadLast
<1> QED
  BY <1>1, <1>4, <1>5, <1>6, <1>7, <1>8, <1>9 DEF Consumer, Dequeue

-----------------------------------------------------------------------------
LEMMA QueueInitInv == PrevQueueInit => QInv
<1> SUFFICES ASSUME PrevQueueInit PROVE QInv
  OBVIOUS
<1> USE DEF PrevQueueInit
<1>1. QueueTypeOK
  <2>1. link \in [Nodes -> Nodes \cup {NULL}] /\ head \in Nodes
    BY DEF Nodes
  <2>2. count \in 0 .. MaxQueued
    BY PrevQueueAssumption
  <2>3. queued \in Seq(Nbls)
    OBVIOUS
  <2> QED
    BY <2>1, <2>2, <2>3 DEF QueueTypeOK, ConsumerStates
<1>2. Reserved = {}
  BY DEF Reserved
<1>3. ExclusiveInv
  BY <1>2 DEF ExclusiveInv
<1>4. CountInv
  BY <1>2, FS_EmptySet DEF CountInv
<1>5. SomeOrder
  <2> DEFINE order == <<Stub>>
  <2>1. order \in Seq(Nodes) /\ Len(order) = 1 /\ order[1] = Stub /\ Len(queued) = 0
    BY DEF Nodes
  <2>2. link[Stub] = NULL
    BY DEF Nodes
  <2> HIDE DEF order
  <2>3. IsOrder(order, 0)
    BY <2>1 DEF IsOrder
  <2>4. LinksInv(order) /\ ConsumerInv(order, 0)
    BY <2>1, <2>2 DEF LinksInv, ConsumerInv
  <2>5. 0 \in -1 .. Len(queued)
    BY <2>1
  <2> QED
    BY <2>1, <2>3, <2>4, <2>5 DEF SomeOrder, OrderInv
<1> QED
  BY <1>1, <1>3, <1>4, <1>5 DEF QInv

LEMMA QueueNextInv == QInv /\ [PrevQueueNext]_pqVars => QInv'
<1> SUFFICES ASSUME QInv, [PrevQueueNext]_pqVars PROVE QInv'
  OBVIOUS
<1> PICK order \in Seq(Nodes), s \in -1 .. Len(queued) : OrderInv(order, s)
  BY DEF QInv, SomeOrder
<1>0. QueueTypeOK /\ ExclusiveInv /\ SomeOrder
  BY DEF QInv
<1>1. CASE UNCHANGED pqVars
  <2> USE <1>1 DEF pqVars
  <2>1. QueueTypeOK' /\ ExclusiveInv' /\ CountInv'
    BY DEF QInv, QueueTypeOK, ExclusiveInv, CountInv, Reserved
  <2>2. IsOrder(order, s)'
    BY DEF OrderInv, IsOrder
  <2>3. LinksInv(order)'
    BY DEF OrderInv, LinksInv, Pending
  <2>4. ConsumerInv(order, s)'
    BY DEF OrderInv, ConsumerInv
  <2> QED
    BY <2>1, <2>2, <2>3, <2>4 DEF QInv, SomeOrder, OrderInv
<1>2. ASSUME NEW t \in Enqueuers, NEW k \in Nbls, Reserve(t, k) PROVE QInv'
  BY <1>0, <1>2, ReserveKeeps, ReserveOrder DEF QInv
<1>3. ASSUME NEW t \in Enqueuers, Exchange(t) PROVE QInv'
  BY <1>0, <1>3, ExchangeKeeps, ExchangeOrder DEF QInv
<1>4. ASSUME NEW t \in Enqueuers, LinkPrevious(t) PROVE QInv'
  BY <1>0, <1>4, LinkPreviousKeeps, LinkPreviousOrder DEF QInv
<1>5. CASE Consumer
  <2>1. SomeOrder'
    BY <1>0, <1>5, StartOrder, ReadFirstOrder, ReadSecondOrder, CompareHeadOrder,
       ClearStubOrder, ExchangeStubOrder, LinkStubOrder, ReadLastOrder
       DEF Consumer, Dequeue
  <2> QED
    BY <1>5, <2>1, ConsumerKeeps DEF QInv
<1> QED
  BY <1>1, <1>2, <1>3, <1>4, <1>5 DEF PrevQueueNext

-----------------------------------------------------------------------------
(* Whatever number of processors enqueue, and wherever they are interrupted: the nodes
   lie behind each other in the order of the exchanges, and every packet is with one
   owner. *)
THEOREM QueueInvariance == PrevQueueSpec => []QInv
<1> QED
  BY QueueInitInv, QueueNextInv, PTL DEF PrevQueueSpec

(* "Empty" is answered for an empty queue, or because of a producer that was between
   its exchange and its store. *)
LEMMA NullRefines ==
    ASSUME QInv, ReturnNull, cstate # "idle", queued = <<>> \/ disturbed
    PROVE  Fifo!Next
  BY DEF ReturnNull, Fifo!Next, Fifo!PeekNothing, unlinked, producerVars

LEMMA ReturnRefines ==
    ASSUME QInv, cstate # "idle", tail # Stub, ReturnTail(tail, link[tail])
    PROVE  Fifo!Next
<1> PICK order \in Seq(Nodes), s \in -1 .. Len(queued) : OrderInv(order, s)
  BY DEF QInv, SomeOrder
<1>1. queued # <<>> /\ Head(queued) = tail
  <2>1. Len(queued) > 0 /\ queued[1] = tail
    BY OrderElems DEF QInv, OrderInv
  <2> QED
    BY <2>1, HeadTailProperties DEF QInv, QueueTypeOK
<1>2. tail \notin unlinked
  <2> SUFFICES ASSUME NEW t \in Enqueuers, pstate[t] = "link", pnode[t] = tail
               PROVE  FALSE
    BY DEF unlinked
  <2>1. PICK i \in 1 .. Len(order) - 1 : pnode[t] = order[i + 1]
    BY DEF OrderInv, LinksInv
  <2>2. /\ order[1] = tail /\ Len(order) \in Nat \ {0}
        /\ \A j, k \in 1 .. Len(order) : order[j] = order[k] => j = k
    BY OrderElems DEF QInv, OrderInv, IsOrder
  <2>3. 1 \in 1 .. Len(order) /\ i + 1 \in 1 .. Len(order) /\ i + 1 # 1
    BY <2>2
  <2> QED
    BY <2>1, <2>2, <2>3
<1>3. Fifo!PeekOldest
  BY <1>1, <1>2 DEF Fifo!PeekOldest, ReturnTail, unlinked, producerVars
<1> QED
  BY <1>3 DEF Fifo!Next

LEMMA QueueStepRefines ==
    ASSUME QInv, [PrevQueueNext]_pqVars
    PROVE  [Fifo!Next]_(Fifo!vars)
<1> PICK order \in Seq(Nodes), s \in -1 .. Len(queued) : OrderInv(order, s)
  BY DEF QInv, SomeOrder
<1> USE DEF Fifo!vars
<1>1. CASE UNCHANGED pqVars
  BY <1>1 DEF pqVars, unlinked
<1>2. ASSUME NEW t \in Enqueuers, NEW k \in Nbls, Reserve(t, k)
      PROVE  UNCHANGED Fifo!vars
  <2>1. \A u \in Enqueuers :
           /\ pstate[u] = "link" <=> pstate'[u] = "link"
           /\ pstate[u] = "link" => pnode'[u] = pnode[u]
    BY <1>2 DEF Reserve, QInv, QueueTypeOK
  <2>2. unlinked' = unlinked
    <3>1. \A x \in unlinked : x \in unlinked'
      BY <2>1 DEF unlinked
    <3>2. \A x \in unlinked' : x \in unlinked
      BY <2>1 DEF unlinked
    <3> QED
      BY <3>1, <3>2
  <2> QED
    BY <1>2, <2>2 DEF Reserve
<1>3. ASSUME NEW t \in Enqueuers, Exchange(t)
      PROVE  Fifo!Next
  <2> PICK k \in Nbls : k = pnode[t]
    BY <1>3, PrevQueueAssumption DEF Exchange, QInv, ExclusiveInv, QueueTypeOK
  <2>1. Len(queued) < MaxQueued
    <3>1. t \in Reserved
      BY <1>3 DEF Exchange, Reserved
    <3>2. Cardinality(Reserved) # 0
      BY <3>1, ReservedFacts, FS_EmptySet DEF QInv
    <3>3. PICK c \in Nat : c = Cardinality(Reserved)
      BY ReservedFacts DEF QInv
    <3> QED
      BY <3>2, <3>3, FifoLen, PrevQueueAssumption DEF QInv, CountInv, QueueTypeOK
  <2>2. k # Peeked /\ \A i \in DOMAIN queued : queued[i] # k
    BY <1>3, LenProperties DEF Exchange, QInv, ExclusiveInv, Reserved, QueueTypeOK
  <2>3. unlinked' = unlinked \cup {k}
    <3>1. /\ pstate'[t] = "link" /\ pnode' = pnode
          /\ \A u \in Enqueuers : u # t => pstate'[u] = pstate[u]
      BY <1>3 DEF Exchange, QInv, QueueTypeOK
    <3>2. pstate[t] # "link"
      BY <1>3 DEF Exchange
    <3> QED
      BY <3>1, <3>2 DEF unlinked
  <2>4. Fifo!Enqueue(k)
    BY <1>3, <2>1, <2>2, <2>3 DEF Exchange, Fifo!Enqueue
  <2> QED
    BY <2>4 DEF Fifo!Next
<1>4. ASSUME NEW t \in Enqueuers, LinkPrevious(t)
      PROVE  Fifo!Next
  <2> PICK k \in Nbls : k = pnode[t]
    BY <1>4, PrevQueueAssumption DEF LinkPrevious, QInv, ExclusiveInv, QueueTypeOK
  <2>1. k \in unlinked
    BY <1>4 DEF LinkPrevious, unlinked
  <2>2. unlinked' = unlinked \ {k}
    <3>1. /\ pstate'[t] # "link" /\ pstate[t] = "link"
          /\ \A u \in Enqueuers : u # t => pstate'[u] = pstate[u] /\ pnode'[u] = pnode[u]
      BY <1>4 DEF LinkPrevious, QInv, QueueTypeOK
    <3>2. \A u \in Enqueuers : pnode[u] = k => u = t
      BY PrevQueueAssumption DEF QInv, ExclusiveInv
    <3> QED
      BY <3>1, <3>2 DEF unlinked
  <2>3. Fifo!Link(k)
    BY <1>4, <2>1, <2>2 DEF LinkPrevious, Fifo!Link
  <2> QED
    BY <2>3 DEF Fifo!Next
<1>5. CASE StartPeek
  <2>1. Fifo!StartPeek
    BY <1>5 DEF StartPeek, Fifo!StartPeek, unlinked, producerVars
  <2> QED
    BY <2>1 DEF Fifo!Next
<1>6. CASE DropPeeked
  <2>1. Fifo!Drop
    BY <1>6 DEF DropPeeked, Fifo!Drop, unlinked, producerVars
  <2> QED
    BY <2>1 DEF Fifo!Next
<1>7. ASSUME NEW l \in ConsumerStates \ {"idle"}, ConsumerGoto(l), cstate # "idle"
      PROVE  UNCHANGED Fifo!vars
  BY <1>7 DEF ConsumerGoto, unlinked, producerVars
<1>8. ASSUME link[tail] = NULL, cstate # "idle", cstate # "linkStub",
             tail = Stub \/ cstate = "last"
      PROVE  queued = <<>> \/ disturbed
  <2> SUFFICES ASSUME ~disturbed PROVE queued = <<>>
    BY DEF QInv, QueueTypeOK
  <2>1. \A t \in Enqueuers : pstate[t] # "link"
    BY <1>8 DEF OrderInv, ConsumerInv
  <2>2. Len(order) = 1
    BY <1>8, <2>1, LastNode DEF QInv
  <2>3. tail = Stub
    BY <1>8 DEF OrderInv, ConsumerInv
  <2>4. s = 0
    BY <2>3, OrderElems DEF QInv, OrderInv
  <2>5. Len(queued) = 0
    <3> PICK m \in Nat : m = Len(queued)
      BY FifoLen DEF QInv
    <3>1. Len(order) = m + 1
      BY <2>4 DEF OrderInv, IsOrder
    <3> QED
      BY <2>2, <3>1
  <2> QED
    BY <2>5, EmptySeq DEF QInv, QueueTypeOK
<1>9. CASE ReadFirst
  <2>0. cstate = "first"
    BY <1>9 DEF ReadFirst
  <2>1. CASE tail = Stub /\ link[tail] = NULL /\ ReturnNull
    BY <1>8, <2>0, <2>1, NullRefines
  <2>2. CASE tail # Stub /\ link[tail] # NULL /\ ReturnTail(tail, link[tail])
    BY <2>0, <2>2, ReturnRefines
  <2> QED
    BY <1>7, <1>9, <2>0, <2>1, <2>2 DEF ReadFirst, ConsumerStates
<1>10. CASE ReadSecond
  <2>0. cstate = "second" /\ tail # Stub
    BY <1>10 DEF ReadSecond, OrderInv, ConsumerInv
  <2> QED
    BY <1>7, <1>10, <2>0, ReturnRefines DEF ReadSecond, ConsumerStates
<1>11. CASE CompareHead
  <2>0. cstate = "compare"
    BY <1>11 DEF CompareHead
  <2>1. CASE tail # head /\ ReturnNull
    <3>1. disturbed
      <4> SUFFICES ASSUME ~disturbed PROVE FALSE
        BY DEF QInv, QueueTypeOK
      <4>1. Len(order) = 1 /\ order[1] = tail /\ order[Len(order)] = head
        BY <2>0 DEF OrderInv, ConsumerInv, IsOrder
      <4> QED
        BY <2>1, <4>1
    <3> QED
      BY <2>0, <2>1, <3>1, NullRefines
  <2> QED
    BY <1>7, <1>11, <2>0, <2>1 DEF CompareHead, ConsumerStates
<1>12. CASE ClearStub \/ ExchangeStub \/ LinkStub
  BY <1>12 DEF ClearStub, ExchangeStub, LinkStub, unlinked, producerVars
<1>13. CASE ReadLast
  <2>0. cstate = "last" /\ tail # Stub
    BY <1>13 DEF ReadLast, OrderInv, ConsumerInv
  <2>1. CASE link[tail] = NULL /\ ReturnNull
    BY <1>8, <2>0, <2>1, NullRefines
  <2> QED
    BY <1>13, <2>0, <2>1, ReturnRefines DEF ReadLast
<1> QED
  BY <1>1, <1>2, <1>3, <1>4, <1>5, <1>6, <1>9, <1>10, <1>11, <1>12, <1>13
     DEF PrevQueueNext, Consumer, Dequeue

(* PrevQueueEnqueue and PrevQueueDequeue implement a bounded first-in first-out queue,
   for any number of processors and packets: no packet is lost, duplicated or
   overtaken, and "empty" is answered for a queue with packets only while a producer is
   between its exchange and its store. *)
THEOREM QueueImplementsFifo == PrevQueueSpec => ImplementsFifo
<1>1. PrevQueueInit => Fifo!Init
  BY DEF PrevQueueInit, Fifo!Init, unlinked
<1>2. QInv /\ [PrevQueueNext]_pqVars => [Fifo!Next]_(Fifo!vars)
  BY QueueStepRefines
<1> QED
  BY <1>1, <1>2, QueueInvariance, PTL DEF PrevQueueSpec, ImplementsFifo, Fifo!Spec
-----------------------------------------------------------------------------
(* ReplayCounter: the window is right for every word size, ring size and    *)
(* counter width.                                                          *)

(* What shift and mask compute: quotient and remainder. *)
LEMMA DivMod ==
    ASSUME NEW a \in Nat, NEW b \in Nat \ {0}
    PROVE  /\ a \div b \in Nat
           /\ a % b \in 0 .. b - 1
           /\ a = b * (a \div b) + (a % b)
OBVIOUS

(* Multiplication by a positive number is monotone. *)
LEMMA MulMono ==
    ASSUME NEW b \in Nat \ {0}, NEW p \in Int, NEW q \in Int, p <= q
    PROVE  b * p <= b * q
OBVIOUS

LEMMA MulStep ==
    ASSUME NEW b \in Nat \ {0}, NEW p \in Int, NEW q \in Int, p + 1 <= q
    PROVE  b * p + b <= b * q
<1>1. b * (p + 1) <= b * q
  BY MulMono
<1>2. b * (p + 1) = b * p + b
  OBVIOUS
<1> QED BY <1>1, <1>2

(* A smaller counter lies in the same word or an earlier one. *)
LEMMA DivMono ==
    ASSUME NEW x \in Nat, NEW y \in Nat, NEW b \in Nat \ {0}, x <= y
    PROVE  x \div b <= y \div b
<1> DEFINE p == x \div b  q == y \div b
<1>1. /\ p \in Nat /\ q \in Nat
      /\ x % b \in 0 .. b - 1 /\ y % b \in 0 .. b - 1
      /\ x = b * p + (x % b) /\ y = b * q + (y % b)
  BY DivMod
<1>2. ASSUME q + 1 <= p PROVE FALSE
  <2>1. b * q + b <= b * p
    BY <1>1, <1>2, MulStep
  <2> HIDE DEF p, q
  <2>2. b * p \in Int /\ b * q \in Int
    BY <1>1
  <2> QED BY <1>1, <2>1, <2>2
<1> HIDE DEF p, q
<1> QED BY <1>1, <1>2 DEF p, q

(* Two numbers less than b apart with the same remainder are equal. *)
LEMMA ModInj ==
    ASSUME NEW x \in Nat, NEW y \in Nat, NEW b \in Nat \ {0},
           x % b = y % b, x <= y, y < x + b
    PROVE  x = y
<1> DEFINE p == x \div b  q == y \div b
<1>1. /\ p \in Nat /\ q \in Nat
      /\ x % b \in 0 .. b - 1
      /\ x = b * p + (x % b) /\ y = b * q + (x % b)
  BY DivMod
<1>2. p <= q
  BY DivMono
<1>3. ASSUME p + 1 <= q PROVE FALSE
  <2>1. b * p + b <= b * q
    BY <1>1, <1>3, MulStep
  <2> HIDE DEF p, q
  <2>2. b * p \in Int /\ b * q \in Int
    BY <1>1
  <2> QED BY <1>1, <2>1, <2>2
<1> HIDE DEF p, q
<1>4. p = q
  BY <1>1, <1>2, <1>3
<1> QED BY <1>1, <1>4

(* Word and bit together identify a counter. *)
LEMMA WordBit ==
    ASSUME NEW x \in Nat, NEW y \in Nat, Word(x) = Word(y), Bit(x) = Bit(y)
    PROVE  x = y
BY DivMod, ReplayAssumption DEF Word, Bit

LEMMA WordType ==
    ASSUME NEW x \in Nat
    PROVE  Word(x) \in Nat /\ Bit(x) \in 0 .. WordBits - 1 /\ Slot(Word(x)) \in 0 .. Words - 1
BY DivMod, ReplayAssumption DEF Word, Bit, Slot

(* A counter that is not too old lies in a word of the current lap. *)
LEMMA WindowIsLive ==
    ASSUME NEW x \in Nat, NEW c \in Nat, c <= COUNTER_WINDOW_SIZE + x
    PROVE  Word(c) < Word(x) + Words
<1> USE ReplayAssumption
<1> DEFINE p == Word(x)  q == Word(c)
<1>1. /\ p \in Nat /\ q \in Nat
      /\ Bit(x) \in 0 .. WordBits - 1 /\ Bit(c) \in 0 .. WordBits - 1
      /\ x = WordBits * p + Bit(x) /\ c = WordBits * q + Bit(c)
  BY DivMod DEF Word, Bit
<1>2. ASSUME p + Words <= q PROVE FALSE
  <2>1. WordBits * (p + Words) <= WordBits * q
    BY <1>1, <1>2, MulMono
  <2>2. WordBits * (p + Words) = WordBits * p + WordBits * Words
    BY <1>1
  <2> HIDE DEF p, q
  <2>3. WordBits * p \in Int /\ WordBits * q \in Int /\ WordBits * Words \in Int
    BY <1>1
  <2> QED BY <1>1, <2>1, <2>2, <2>3 DEF COUNTER_WINDOW_SIZE
<1> HIDE DEF p, q
<1> QED BY <1>1, <1>2 DEF p, q

-----------------------------------------------------------------------------
LEMMA LimitType ==
    /\ COUNTER_WINDOW_SIZE \in Nat
    /\ REJECT_AFTER_MESSAGES \in Nat \ {0}
    /\ REJECT_AFTER_MESSAGES + COUNTER_WINDOW_SIZE + 2 = Modulus
    /\ Modulus \in Nat \ {0}
<1>1. WordBits * Words \in Nat /\ WordBits * 1 <= WordBits * Words
  BY ReplayAssumption, MulMono
<1>2. WordBits * 1 = WordBits
  BY ReplayAssumption
<1> QED BY <1>1, <1>2, ReplayAssumption DEF COUNTER_WINDOW_SIZE, REJECT_AFTER_MESSAGES

(* No addition of CounterValidate wraps around for a nonce it looks at: the
   limit leaves room for the window.                                        *)
LEMMA NoOverflow ==
    ASSUME NEW n \in 0 .. REJECT_AFTER_MESSAGES - 1
    PROVE  /\ (n + 1) % Modulus = n + 1
           /\ (COUNTER_WINDOW_SIZE + (n + 1)) % Modulus = COUNTER_WINDOW_SIZE + n + 1
<1>1. n + 1 \in 0 .. Modulus - 1 /\ COUNTER_WINDOW_SIZE + n + 1 \in 0 .. Modulus - 1
  BY LimitType
<1>2. ASSUME NEW a \in 0 .. Modulus - 1 PROVE a % Modulus = a
  BY LimitType
<1> HIDE DEF COUNTER_WINDOW_SIZE
<1> QED BY <1>1, <1>2, LimitType

(* Every slot of the ring is the slot of one of any Words consecutive words. *)
LEMMA SlotCovered ==
    ASSUME NEW v \in Nat, NEW w \in Nat, v < w
    PROVE  \E i \in 1 .. Words : Slot(i + v) = Slot(w)
<1> USE ReplayAssumption
<1> DEFINE d == w - v - 1
           i == (d % Words) + 1
           q == d \div Words
<1>1. /\ d \in Nat /\ q \in Nat /\ i \in 1 .. Words
      /\ d = Words * q + (i - 1)
  BY DivMod
<1>2. w = Words * q + (i + v)
  BY <1>1
<1>3. (i + v) % Words = w % Words
  <2> HIDE DEF i, q, d
  <2>1. i + v \in Nat
    BY <1>1
  <2> DEFINE a == (i + v) \div Words  r == (i + v) % Words
             b == w \div Words        t == w % Words
  <2>2. /\ a \in Nat /\ r \in 0 .. Words - 1 /\ i + v = Words * a + r
        /\ b \in Nat /\ t \in 0 .. Words - 1 /\ w = Words * b + t
    BY <2>1, DivMod
  <2>3. w = Words * (q + a) + r
    BY <1>1, <1>2, <2>2
  <2> HIDE DEF a, r, b, t
  <2>4. Words * (q + a) \in Int /\ Words * b \in Int
    BY <1>1, <2>2
  <2>5. ASSUME b + 1 <= q + a PROVE FALSE
    <3>1. Words * b + Words <= Words * (q + a)
      BY <2>5, <2>2, <1>1, MulStep
    <3> QED BY <3>1, <2>2, <2>3, <2>4
  <2>6. ASSUME (q + a) + 1 <= b PROVE FALSE
    <3>1. Words * (q + a) + Words <= Words * b
      BY <2>6, <2>2, <1>1, MulStep
    <3> QED BY <3>1, <2>2, <2>3, <2>4
  <2>7. b = q + a
    BY <2>5, <2>6, <2>2, <1>1
  <2>8. t = r
    BY <2>7, <2>3, <2>2, <2>4
  <2> QED BY <2>8 DEF t, r
<1> QED BY <1>1, <1>3 DEF Slot

-----------------------------------------------------------------------------
LEMMA InitInv == ReplayInit => IInv
<1> SUFFICES ASSUME ReplayInit PROVE IInv
  OBVIOUS
<1> USE ReplayAssumption, LimitType DEF ReplayInit
<1>1. ReplayTypeOK
  BY DEF ReplayTypeOK
<1>2. CounterIsTop
  BY DEF CounterIsTop
<1>3. BitmapExact
  BY WordType DEF BitmapExact, Nonces
<1> QED BY <1>1, <1>2, <1>3 DEF IInv

(* Sliding the window to x keeps every bit of the words that stay live and
   clears the words that become live.                                       *)
LEMMA SlideExact ==
    ASSUME IInv, NEW x \in Nonces, x > counter,
           NEW y \in Nonces, Word(y) <= Word(x), Word(x) < Word(y) + Words
    PROVE  Bit(y) \in Slide(x)[Slot(Word(y))] <=> y - 1 \in accepted
<1> USE ReplayAssumption, LimitType
<1> DEFINE s == Slot(Word(y))
<1>0. /\ counter \in Nat /\ x \in Nat /\ y \in Nat
      /\ Word(x) \in Nat /\ Word(y) \in Nat /\ Word(counter) \in Nat
      /\ Word(counter) <= Word(x)
      /\ s \in 0 .. Words - 1 /\ Words \in Nat
      /\ Top(x) \in Nat /\ Top(x) <= Words /\ Top(x) <= Word(x) - Word(counter)
  <2>1. counter \in Nat /\ x \in Nat /\ y \in Nat
    BY DEF IInv, ReplayTypeOK, Nonces
  <2>2. Word(x) \in Nat /\ Word(y) \in Nat /\ Word(counter) \in Nat /\ s \in 0 .. Words - 1
    BY <2>1, WordType
  <2>3. Word(counter) <= Word(x)
    BY <2>1, DivMono DEF Word
  <2> QED BY <2>1, <2>2, <2>3 DEF Top
<1>1. Slide(x)[s] = IF s \in Cleared(x) THEN {} ELSE backtrack[s]
  BY <1>0 DEF Slide
<1>2. CASE Word(y) <= Word(counter)
  <2>1. Live(y)
    BY <1>0, <1>2 DEF Live
  <2>2. s \notin Cleared(x)
    <3> SUFFICES ASSUME NEW i \in 1 .. Top(x), Slot(i + Word(counter)) = s
                 PROVE FALSE
      BY DEF Cleared
    <3> DEFINE j == i + Word(counter)
    <3>1. j \in Nat /\ Word(y) < j /\ j < Word(y) + Words
      BY <1>0, <1>2
    <3>2. Word(y) = j
      BY <3>1, <1>0, ModInj DEF Slot
    <3> QED BY <3>1, <3>2
  <2> QED BY <2>1, <2>2, <1>1 DEF IInv, BitmapExact
<1>3. CASE Word(counter) < Word(y)
  <2>1. s \in Cleared(x)
    <3>1. CASE Word(y) <= Word(counter) + Words
      <4> DEFINE i == Word(y) - Word(counter)
      <4>1. i \in 1 .. Top(x) /\ i + Word(counter) = Word(y)
        BY <1>0, <1>3, <3>1 DEF Top
      <4> QED BY <4>1 DEF Cleared
    <3>2. CASE Word(counter) + Words < Word(y)
      <4>1. Top(x) = Words
        BY <1>0, <3>2 DEF Top
      <4> QED BY <4>1, <1>0, <1>3, SlotCovered DEF Cleared
    <3> QED BY <3>1, <3>2, <1>0
  <2>2. counter < y
    <3> SUFFICES ASSUME y <= counter PROVE FALSE
      BY <1>0
    <3>1. Word(y) <= Word(counter)
      BY <1>0, DivMono DEF Word
    <3> QED BY <3>1, <1>0, <1>3
  <2>3. y - 1 \notin accepted
    BY <2>2, <1>0 DEF IInv, CounterIsTop
  <2> QED BY <2>1, <2>3, <1>1
<1> QED BY <1>2, <1>3, <1>0

LEMMA SlideType ==
    ASSUME ReplayTypeOK, NEW x \in Nonces
    PROVE  Slide(x) \in [0 .. Words - 1 -> SUBSET (0 .. WordBits - 1)]
BY DEF ReplayTypeOK, Slide

(* The decisions of CounterValidate: the early exits refuse exactly the nonces
   beyond the limit or behind the window, and the test-and-set succeeds exactly
   when the nonce was not accepted before.                                   *)
LEMMA RefuseExact ==
    ASSUME IInv, NEW n \in Nonces
    PROVE  OutOfRange(n) \/ TooOld((n + 1) % Modulus)
             <=> ~ (n < REJECT_AFTER_MESSAGES /\ \A m \in accepted : m <= n + COUNTER_WINDOW_SIZE)
<1> USE LimitType
<1>0. /\ n \in Nat /\ counter \in 0 .. REJECT_AFTER_MESSAGES
      /\ accepted \subseteq 0 .. REJECT_AFTER_MESSAGES - 1
  BY DEF IInv, ReplayTypeOK, Nonces
<1>1. CASE n >= REJECT_AFTER_MESSAGES
  BY <1>0, <1>1 DEF OutOfRange
<1>2. CASE n < REJECT_AFTER_MESSAGES
  <2>1. ~ OutOfRange(n)
    BY <1>0, <1>2 DEF OutOfRange
  <2>2. TooOld((n + 1) % Modulus) <=> COUNTER_WINDOW_SIZE + n + 1 < counter
    BY <1>0, <1>2, NoOverflow DEF TooOld
  <2>3. ASSUME COUNTER_WINDOW_SIZE + n + 1 < counter
        PROVE  ~ \A m \in accepted : m <= n + COUNTER_WINDOW_SIZE
    <3>1. counter - 1 \in accepted
      BY <2>3, <1>0 DEF IInv, CounterIsTop
    <3> QED BY <3>1, <2>3, <1>0
  <2>4. ASSUME NEW m \in accepted, ~ (m <= n + COUNTER_WINDOW_SIZE)
        PROVE  COUNTER_WINDOW_SIZE + n + 1 < counter
    BY <2>4, <1>0 DEF IInv, CounterIsTop
  <2> QED BY <1>2, <2>1, <2>2, <2>3, <2>4
<1> QED BY <1>0, <1>1, <1>2

LEMMA TestExact ==
    ASSUME IInv, NEW n \in Nonces, ~ (OutOfRange(n) \/ TooOld((n + 1) % Modulus))
    PROVE  LET x == (n + 1) % Modulus
           IN  /\ x = n + 1 /\ x \in Nonces /\ x <= REJECT_AFTER_MESSAGES
               /\ Word(x) <= Word(IF x > counter THEN x ELSE counter)
               /\ Word(IF x > counter THEN x ELSE counter) < Word(x) + Words
               /\ Bit(x) \in Slide(x)[Slot(Word(x))] <=> n \in accepted
<1> USE LimitType, ReplayAssumption
<1> DEFINE x == n + 1
<1>0. /\ n \in Nat /\ counter \in 0 .. REJECT_AFTER_MESSAGES
      /\ n \in 0 .. REJECT_AFTER_MESSAGES - 1
  BY DEF IInv, ReplayTypeOK, Nonces, OutOfRange
<1>1. /\ (n + 1) % Modulus = x
      /\ (COUNTER_WINDOW_SIZE + x) % Modulus = COUNTER_WINDOW_SIZE + x
  BY <1>0, NoOverflow
<1>2. x \in Nonces /\ x \in Nat /\ counter \in Nat /\ x <= REJECT_AFTER_MESSAGES
  BY <1>0 DEF Nonces
<1>3. counter <= COUNTER_WINDOW_SIZE + x
  BY <1>0, <1>1, <1>2 DEF TooOld
<1>4. Word(x) \in Nat /\ Word(counter) \in Nat
  BY <1>2, WordType
<1>5. CASE x > counter
  <2>1. Word(x) <= Word(x) /\ Word(x) < Word(x) + Words
    BY <1>4
  <2>2. Bit(x) \in Slide(x)[Slot(Word(x))] <=> x - 1 \in accepted
    BY <1>2, <1>5, <2>1, SlideExact
  <2> QED BY <1>1, <1>2, <1>5, <2>1, <2>2, <1>0
<1>6. CASE ~ (x > counter)
  <2>1. Word(x) <= Word(counter)
    BY <1>2, <1>6, DivMono DEF Word
  <2>2. Word(counter) < Word(x) + Words
    BY <1>2, <1>3, WindowIsLive
  <2>3. Bit(x) \in Slide(x)[Slot(Word(x))] <=> x - 1 \in accepted
    BY <1>2, <1>6, <2>1, <2>2 DEF Slide, Live, IInv, BitmapExact
  <2> QED BY <1>1, <1>2, <1>6, <2>1, <2>2, <2>3, <1>0
<1> QED BY <1>5, <1>6

-----------------------------------------------------------------------------
(* One call of CounterValidate that reaches the bitmap keeps the invariant. *)
LEMMA TestAndSetInv ==
    ASSUME IInv, NEW n \in Nonces, TestAndSet(n)
    PROVE  /\ CounterIsTop' /\ BitmapExact'
           /\ counter' \in 0 .. REJECT_AFTER_MESSAGES
           /\ backtrack' \in [0 .. Words - 1 -> SUBSET (0 .. WordBits - 1)]
           /\ accepted' \in SUBSET (0 .. REJECT_AFTER_MESSAGES - 1)
           /\ verdict' = [nonce |-> n, ok |-> n \notin accepted, turn |-> 1 - verdict.turn]
           /\ accepted' = accepted \cup {n}
<1> USE LimitType, ReplayAssumption
<1> DEFINE x == n + 1
           s == Slot(Word(x))
<1>0. ~ (OutOfRange(n) \/ TooOld((n + 1) % Modulus))
  BY DEF TestAndSet
<1>1. /\ (n + 1) % Modulus = x /\ x \in Nonces /\ x <= REJECT_AFTER_MESSAGES
      /\ Bit(x) \in Slide(x)[s] <=> n \in accepted
  BY <1>0, TestExact
<1>2. /\ counter' = IF x > counter THEN x ELSE counter
      /\ backtrack' = [Slide(x) EXCEPT ![s] = @ \cup {Bit(x)}]
      /\ verdict' = [nonce |-> n, ok |-> n \notin accepted, turn |-> 1 - verdict.turn]
      /\ accepted' = accepted \cup {n}
  BY <1>1 DEF TestAndSet
<1>3. /\ Word(x) <= Word(counter') /\ Word(counter') < Word(x) + Words
  BY <1>0, <1>1, <1>2, TestExact
<1>4. /\ n \in Nat /\ x \in Nat /\ counter \in 0 .. REJECT_AFTER_MESSAGES
      /\ n \in 0 .. REJECT_AFTER_MESSAGES - 1
      /\ counter' \in 0 .. REJECT_AFTER_MESSAGES
      /\ accepted' \in SUBSET (0 .. REJECT_AFTER_MESSAGES - 1)
  BY <1>1, <1>2 DEF IInv, ReplayTypeOK, Nonces
<1>5. /\ s \in 0 .. Words - 1 /\ Bit(x) \in 0 .. WordBits - 1
      /\ Slide(x) \in [0 .. Words - 1 -> SUBSET (0 .. WordBits - 1)]
  BY <1>1, <1>4, WordType, SlideType DEF IInv
<1>6. backtrack' \in [0 .. Words - 1 -> SUBSET (0 .. WordBits - 1)]
  BY <1>2, <1>5
<1>7. CounterIsTop'
  BY <1>2, <1>4 DEF IInv, CounterIsTop
<1>8. BitmapExact'
  <2> SUFFICES ASSUME NEW y \in Nonces, Word(y) <= Word(counter'), Word(counter') < Word(y) + Words
               PROVE  Bit(y) \in backtrack'[Slot(Word(y))] <=> y - 1 \in accepted'
    BY DEF BitmapExact, Live
  <2>1. y \in Nat /\ Word(y) \in Nat /\ Word(x) \in Nat /\ Slot(Word(y)) \in 0 .. Words - 1
    BY <1>4, WordType DEF Nonces
  <2>2. Bit(y) \in Slide(x)[Slot(Word(y))] <=> y - 1 \in accepted
    <3>1. CASE x > counter
      <4>1. counter' = x
        BY <3>1, <1>2
      <4> QED BY <3>1, <4>1, <1>1, SlideExact
    <3>2. CASE ~ (x > counter)
      <4>1. counter' = counter
        BY <3>2, <1>2
      <4> QED BY <3>2, <4>1 DEF Slide, IInv, BitmapExact, Live
    <3> QED BY <3>1, <3>2
  <2>3. CASE y = x
    <3>1. Bit(x) \in backtrack'[s]
      BY <1>2, <1>5
    <3> QED BY <2>3, <3>1, <1>2, <1>4
  <2>4. CASE y # x
    <3>1. y - 1 \in accepted' <=> y - 1 \in accepted
      BY <2>4, <2>1, <1>2, <1>4
    <3>2. Slot(Word(y)) = s /\ Bit(y) = Bit(x) => FALSE
      <4> SUFFICES ASSUME Slot(Word(y)) = s, Bit(y) = Bit(x) PROVE FALSE
        OBVIOUS
      <4>0. Word(counter') \in Nat /\ Words \in Nat
        BY <1>4, WordType
      <4>1. CASE Word(y) <= Word(x)
        <5>1. Word(x) < Word(y) + Words
          BY <4>0, <4>1, <2>1, <1>3
        <5>2. Word(y) = Word(x)
          BY <4>1, <5>1, <2>1, ModInj DEF Slot
        <5> QED BY <5>2, <2>1, <1>4, <2>4, WordBit
      <4>2. CASE Word(x) <= Word(y)
        <5>1. Word(y) < Word(x) + Words
          BY <4>0, <4>2, <2>1, <1>3
        <5>2. Word(y) = Word(x)
          BY <4>2, <5>1, <2>1, ModInj DEF Slot
        <5> QED BY <5>2, <2>1, <1>4, <2>4, WordBit
      <4> QED BY <4>1, <4>2, <2>1
    <3>3. Bit(y) \in backtrack'[Slot(Word(y))] <=> Bit(y) \in Slide(x)[Slot(Word(y))]
      BY <3>2, <1>2, <1>5, <2>1
    <3> QED BY <3>1, <3>3, <2>2
  <2> QED BY <2>3, <2>4
<1> QED BY <1>2, <1>4, <1>6, <1>7, <1>8

LEMMA NextInv == IInv /\ [ReplayNext]_replayVars => IInv'
<1> SUFFICES ASSUME IInv, [ReplayNext]_replayVars PROVE IInv'
  OBVIOUS
<1> USE LimitType, ReplayAssumption
<1>1. ASSUME NEW p \in ReplayBuffers, NEW n \in Nonces, NEW expired \in BOOLEAN,
             DecryptPacket(p, n, expired)
      PROVE  IInv'
  BY ZenonT(60), <1>1
  DEF DecryptPacket, IInv, ReplayTypeOK, CounterIsTop, BitmapExact, Live, Nonces
<1>2. ASSUME NEW p \in ReplayBuffers, CounterValidate(p)
      PROVE  IInv'
  <2> DEFINE n == nonce[p]
  <2>1. /\ n \in Nonces /\ valid' \in BOOLEAN
        /\ nonce' \in [ReplayBuffers -> Nonces \cup {None}]
        /\ 1 - verdict.turn \in {0, 1}
    BY <1>2 DEF CounterValidate, IInv, ReplayTypeOK
  <2>2. CASE Refuse(n)
    <3>1. ReplayTypeOK'
      BY <2>1, <2>2 DEF Refuse, IInv, ReplayTypeOK
    <3> QED BY <2>2, <3>1 DEF Refuse, IInv, CounterIsTop, BitmapExact, Live
  <2>3. CASE TestAndSet(n)
    <3> HIDE DEF n
    <3>1. verdict' \in [nonce : Nonces \cup {None}, ok : BOOLEAN, turn : {0, 1}]
      <4>1. verdict' = [nonce |-> n, ok |-> n \notin accepted, turn |-> 1 - verdict.turn]
        BY <2>1, <2>3, TestAndSetInv
      <4>2. (n \notin accepted) \in BOOLEAN
        OBVIOUS
      <4> QED BY <2>1, <4>1, <4>2
    <3>2. ReplayTypeOK'
      BY <2>1, <2>3, <3>1, TestAndSetInv DEF ReplayTypeOK
    <3> QED BY <2>1, <2>3, <3>2, TestAndSetInv DEF IInv
  <2> QED BY <1>2, <2>2, <2>3 DEF CounterValidate
<1>3. CASE UNCHANGED replayVars
  BY <1>3 DEF replayVars, IInv, ReplayTypeOK, CounterIsTop, BitmapExact, Live
<1> QED BY <1>1, <1>2, <1>3 DEF ReplayNext

(* The counter never passes the message limit, and every word, buffer and
   answer keeps its type, for every width and window.                       *)
THEOREM TypeCorrect == ReplaySpec => []ReplayTypeOK
<1>1. IInv => ReplayTypeOK
  BY DEF IInv
<1> QED BY <1>1, InitInv, NextInv, PTL DEF ReplaySpec

(* On its live words the bitmap of receive.c records exactly the accepted
   nonces, whatever the word size and the number of words.                  *)
THEOREM BitmapIsExact == ReplaySpec => []BitmapExact
<1>1. IInv => BitmapExact
  BY DEF IInv
<1> QED BY <1>1, InitInv, NextInv, PTL DEF ReplaySpec

(* What one step of the window means for the ideal filter. *)
LEMMA StepRefines == IInv /\ [ReplayNext]_replayVars => [Filter!Next]_<<accepted, verdict>>
<1> SUFFICES ASSUME IInv, [ReplayNext]_replayVars PROVE [Filter!Next]_<<accepted, verdict>>
  OBVIOUS
<1>1. ASSUME NEW p \in ReplayBuffers, NEW n \in Nonces, NEW expired \in BOOLEAN,
             DecryptPacket(p, n, expired)
      PROVE  UNCHANGED <<accepted, verdict>>
  BY <1>1 DEF DecryptPacket
<1>2. ASSUME NEW p \in ReplayBuffers, CounterValidate(p)
      PROVE  Filter!Next
  <2> DEFINE n == nonce[p]
  <2>1. n \in Nonces
    BY <1>2 DEF CounterValidate, IInv, ReplayTypeOK
  <2> HIDE DEF n
  <2>2. CASE Refuse(n)
    <3>1. Filter!Fresh(n) = FALSE
      BY <2>1, <2>2, RefuseExact DEF Refuse, Filter!Fresh
    <3> QED BY <2>1, <2>2, <3>1 DEF Refuse, Filter!Next, Filter!Decide
  <2>3. CASE TestAndSet(n)
    <3>1. Filter!Fresh(n) = (n \notin accepted)
      BY <2>1, <2>3, RefuseExact DEF TestAndSet, Filter!Fresh
    <3>2. /\ verdict' = [nonce |-> n, ok |-> n \notin accepted, turn |-> 1 - verdict.turn]
          /\ accepted' = accepted \cup {n}
      BY <2>1, <2>3, TestAndSetInv
    <3>3. Filter!Decide(n)
      BY <3>1, <3>2 DEF Filter!Decide
    <3> QED BY <2>1, <3>3 DEF Filter!Next
  <2> QED BY <1>2, <2>2, <2>3 DEF CounterValidate, n
<1>3. CASE UNCHANGED replayVars
  BY <1>3 DEF replayVars
<1> QED BY <1>1, <1>2, <1>3 DEF ReplayNext

(* The sliding bitmap implements the ideal filter: each nonce is accepted at
   most once, and every fresh nonce inside the window is accepted.          *)
THEOREM WindowImplementsFilter == ReplaySpec => ImplementsFilter
<1>1. ReplayInit => Filter!Init
  BY DEF ReplayInit, Filter!Init
<1> QED
  BY <1>1, InitInv, NextInv, StepRefines, PTL
  DEF ReplaySpec, ImplementsFilter, Filter!Spec

(* No nonce is accepted twice under one receiving key. *)
THEOREM NeverReplayed == ReplaySpec => NoReplay
<1>1. ASSUME IInv, [ReplayNext]_replayVars
      PROVE  [verdict'.turn # verdict.turn /\ verdict'.ok => verdict'.nonce \notin accepted]_replayVars
  <2> SUFFICES ASSUME verdict'.turn # verdict.turn, verdict'.ok
               PROVE  verdict'.nonce \notin accepted
    OBVIOUS
  <2>1. Filter!Next
    BY <1>1, StepRefines
  <2> QED BY <2>1 DEF Filter!Next, Filter!Decide, Filter!Fresh
<1> QED BY <1>1, InitInv, NextInv, PTL DEF ReplaySpec, NoReplay
=============================================================================
