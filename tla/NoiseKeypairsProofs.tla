------------------------- MODULE NoiseKeypairsProofs ------------------------
(***************************************************************************)
(* What NoiseKeypairs keeps for any number of workers, packets and         *)
(* keypairs: its types, KeyConfirmed, RefcountExact and KeysOnlyAge.       *)
(*                                                                         *)
(* KeyConfirmed is not inductive: that NoiseReceivedWithKeypair slides only*)
(* a confirmed key into the current slot rests on what the packet did      *)
(* before it took the lock (ConfirmInv), and that a slot's key moves only  *)
(* forward rests on the new key of NoiseHandshakeBeginSession being in no  *)
(* slot (SlotsInv), which rests on the handshake lock (LockInv).           *)
(* RefcountExact needs besides that nothing refers to a keypair before it  *)
(* is created (CountInv).                                                  *)
(***************************************************************************)
EXTENDS NoiseKeypairs, TLAPS, FiniteSetTheorems

ThreadStates ==
    {"idle", "createResponse", "acceptResponse", "beginSession", "addKeypair",
     "replaceIndex", "clearKeypairs", "expireKeypairs"}

PacketStates == {"idle", "checkNext", "sending", "confirm", "put"}

(* Threads and packets stay in their own code; a packet under way has a key. *)
RolesInv ==
    /\ \A t \in Threads : pc[t] \in ThreadStates
    /\ \A d \in Packets : pc[d] \in PacketStates
    /\ \A d \in Packets : pc[d] # "idle" => key[d] \in Keypairs

(* A session is begun by the thread that has the handshake lock. *)
LockInv ==
    \A t \in Threads :
        pc[t] \in {"addKeypair", "replaceIndex"} => lock = t /\ key[t] \in created

(* Slots hold different keypairs that were created; the one a session is being
   begun with is in none of them.                                           *)
SlotsInv ==
    /\ \A s \in Slots : slots[s] \in created \cup {Nil}
    /\ \A r, s \in Slots : slots[r] = slots[s] /\ slots[r] # Nil => r = s
    /\ \A t \in Threads : At(t, "addKeypair") => \A s \in Slots : slots[s] # key[t]

(* A packet that is about to confirm its key was authentic. *)
ConfirmInv == \A d \in Packets : At(d, "confirm") => key[d] \in confirmed

IInv == TypeOK /\ RolesInv /\ LockInv /\ SlotsInv /\ ConfirmInv /\ KeyConfirmed

-----------------------------------------------------------------------------
(* Counting slots gives an integer. *)
LEMMA SlotCount ==
    ASSUME NEW dropped \in SUBSET Slots, NEW k
    PROVE  Cardinality({s \in dropped : slots[s] = k}) \in Int
<1>1. IsFiniteSet(Slots)
  <2>1. IsFiniteSet({"current"})
    BY FS_Singleton
  <2>2. IsFiniteSet({"current"} \cup {"previous"})
    BY <2>1, FS_AddElement
  <2>3. IsFiniteSet(({"current"} \cup {"previous"}) \cup {"next"})
    BY <2>2, FS_AddElement
  <2>4. Slots = ({"current"} \cup {"previous"}) \cup {"next"}
    BY DEF Slots
  <2> QED
    BY <2>3, <2>4
<1>2. {s \in dropped : slots[s] = k} \subseteq Slots
  OBVIOUS
<1>3. Cardinality({s \in dropped : slots[s] = k}) \in Nat
  BY <1>1, <1>2, FS_Subset, FS_CardinalityType
<1> QED
  BY <1>3

(* Rotate keeps the types of what it changes. *)
LEMMA RotateType ==
    ASSUME TypeOK,
           NEW new \in [Slots -> Keypairs \cup {Nil}], NEW dropped \in SUBSET Slots,
           Rotate(new, dropped)
    PROVE  /\ slots' \in [Slots -> Keypairs \cup {Nil}]
           /\ refcount' \in [Keypairs -> Int]
           /\ index' \subseteq Keypairs
<1>1. \A k \in Keypairs :
        refcount[k] - Cardinality({s \in dropped : slots[s] = k}) \in Int
  <2> SUFFICES ASSUME NEW k \in Keypairs
               PROVE  refcount[k] - Cardinality({s \in dropped : slots[s] = k}) \in Int
    OBVIOUS
  <2>1. Cardinality({s \in dropped : slots[s] = k}) \in Int
    BY SlotCount
  <2>2. refcount[k] \in Int
    BY DEF TypeOK
  <2> QED
    BY <2>1, <2>2
<1>2. refcount' = [k \in Keypairs |->
                     refcount[k] - Cardinality({s \in dropped : slots[s] = k})]
  BY DEF Rotate
<1>3. refcount' \in [Keypairs -> Int]
  <2> DEFINE f(k) == refcount[k] - Cardinality({s \in dropped : slots[s] = k})
  <2>1. \A k \in Keypairs : f(k) \in Int
    BY <1>1
  <2>2. refcount' = [k \in Keypairs |-> f(k)]
    BY <1>2
  <2> HIDE DEF f
  <2> QED
    BY <2>1, <2>2
<1>4. slots' = new /\ index' \subseteq index
  BY DEF Rotate
<1> QED
  BY <1>3, <1>4 DEF TypeOK

-----------------------------------------------------------------------------
(* The invariant holds initially. *)
LEMMA InitIInv == Init => IInv
<1> SUFFICES ASSUME Init PROVE IInv
  OBVIOUS
<1> USE KeypairsAssumption
<1>1. TypeOK
  <2>1. refcount \in [Keypairs -> Int] /\ slots \in [Slots -> Keypairs \cup {Nil}]
    BY DEF Init, Empty
  <2>2. pc \in [Actors -> ActorStates] /\ key \in [Actors -> Keypairs \cup {Nil}]
    BY DEF Init, ActorStates
  <2>3. handshake \in HandshakeStates /\ hashed \in BOOLEAN /\ lock \in Threads \cup {Nil}
    BY DEF Init, HandshakeStates
  <2> QED
    BY <2>1, <2>2, <2>3 DEF Init, TypeOK
<1>2. RolesInv /\ LockInv
  BY DEF Init, RolesInv, LockInv, ThreadStates, PacketStates, Actors
<1>3. SlotsInv
  BY DEF Init, SlotsInv, Slots, Empty, At, Actors
<1>4. ConfirmInv /\ KeyConfirmed
  BY DEF Init, ConfirmInv, KeyConfirmed, At, Slots, Empty, Actors
<1> QED
  BY <1>1, <1>2, <1>3, <1>4 DEF IInv

(* CreateInitiation preserves the invariant. *)
LEMMA CreateInitiationKeeps ==
    ASSUME IInv, NEW t \in Threads, CreateInitiation(t)
    PROVE  IInv'
<1> USE KeypairsAssumption DEF IInv
<1>1. TypeOK'
  BY DEF CreateInitiation, keyVars, Goto, At, InUseOpen, RolesInv, TypeOK,
     HandshakeStates, ActorStates, Actors
<1>2. RolesInv'
  BY DEF CreateInitiation, keyVars, Goto, At, InUseOpen, TypeOK, RolesInv,
     ThreadStates, PacketStates, Actors
<1>3. LockInv'
  BY DEF CreateInitiation, keyVars, Goto, At, InUseOpen, TypeOK, RolesInv,
     LockInv, PacketStates, Actors
<1>4. SlotsInv'
  BY DEF CreateInitiation, keyVars, Goto, At, InUseOpen, TypeOK, RolesInv,
     LockInv, SlotsInv, PacketStates, Slots, Actors
<1>5. ConfirmInv'
  BY DEF CreateInitiation, keyVars, Goto, At, InUseOpen, TypeOK, RolesInv,
     ConfirmInv, ThreadStates, Actors
<1>6. KeyConfirmed'
  BY DEF CreateInitiation, keyVars, Goto, At, InUseOpen, TypeOK, KeyConfirmed, Slots
<1> QED
  BY <1>1, <1>2, <1>3, <1>4, <1>5, <1>6 DEF IInv

(* ConsumeInitiation preserves the invariant. *)
LEMMA ConsumeInitiationKeeps ==
    ASSUME IInv, NEW t \in Threads, ConsumeInitiation(t)
    PROVE  IInv'
<1> USE KeypairsAssumption DEF IInv
<1>1. TypeOK'
  BY DEF ConsumeInitiation, keyVars, Goto, At, RolesInv, TypeOK, HandshakeStates,
     ActorStates, Actors
<1>2. RolesInv'
  BY DEF ConsumeInitiation, keyVars, Goto, At, TypeOK, RolesInv, ThreadStates,
     PacketStates, Actors
<1>3. LockInv'
  BY DEF ConsumeInitiation, keyVars, Goto, At, TypeOK, RolesInv, LockInv,
     PacketStates, Actors
<1>4. SlotsInv'
  BY DEF ConsumeInitiation, keyVars, Goto, At, TypeOK, RolesInv, LockInv,
     SlotsInv, PacketStates, Slots, Actors
<1>5. ConfirmInv'
  BY DEF ConsumeInitiation, keyVars, Goto, At, TypeOK, RolesInv, ConfirmInv,
     ThreadStates, Actors
<1>6. KeyConfirmed'
  BY DEF ConsumeInitiation, keyVars, Goto, At, TypeOK, KeyConfirmed, Slots
<1> QED
  BY <1>1, <1>2, <1>3, <1>4, <1>5, <1>6 DEF IInv

(* CreateResponse preserves the invariant. *)
LEMMA CreateResponseKeeps ==
    ASSUME IInv, NEW t \in Threads, CreateResponse(t)
    PROVE  IInv'
<1> USE KeypairsAssumption DEF IInv
<1>1. TypeOK'
  BY DEF CreateResponse, keyVars, Goto, At, RolesInv, TypeOK, HandshakeStates,
     ActorStates, Actors
<1>2. RolesInv'
  BY DEF CreateResponse, keyVars, Goto, At, TypeOK, RolesInv, ThreadStates,
     PacketStates, Actors
<1>3. LockInv'
  BY DEF CreateResponse, keyVars, Goto, At, TypeOK, RolesInv, LockInv,
     PacketStates, Actors
<1>4. SlotsInv'
  BY DEF CreateResponse, keyVars, Goto, At, TypeOK, RolesInv, LockInv, SlotsInv,
     PacketStates, Slots, Actors
<1>5. ConfirmInv'
  BY DEF CreateResponse, keyVars, Goto, At, TypeOK, RolesInv, ConfirmInv,
     ThreadStates, Actors
<1>6. KeyConfirmed'
  BY DEF CreateResponse, keyVars, Goto, At, TypeOK, KeyConfirmed, Slots
<1> QED
  BY <1>1, <1>2, <1>3, <1>4, <1>5, <1>6 DEF IInv

(* ConsumeResponse preserves the invariant. *)
LEMMA ConsumeResponseKeeps ==
    ASSUME IInv, NEW t \in Threads, ConsumeResponse(t)
    PROVE  IInv'
<1> USE KeypairsAssumption DEF IInv
<1>1. TypeOK'
  BY DEF ConsumeResponse, keyVars, Goto, At, RolesInv, TypeOK, HandshakeStates,
     ActorStates, Actors
<1>2. RolesInv'
  BY DEF ConsumeResponse, keyVars, Goto, At, TypeOK, RolesInv, ThreadStates,
     PacketStates, Actors
<1>3. LockInv'
  BY DEF ConsumeResponse, keyVars, Goto, At, TypeOK, RolesInv, LockInv,
     PacketStates, Actors
<1>4. SlotsInv'
  BY DEF ConsumeResponse, keyVars, Goto, At, TypeOK, RolesInv, LockInv, SlotsInv,
     PacketStates, Slots, Actors
<1>5. ConfirmInv'
  BY DEF ConsumeResponse, keyVars, Goto, At, TypeOK, RolesInv, ConfirmInv,
     ThreadStates, Actors
<1>6. KeyConfirmed'
  BY DEF ConsumeResponse, keyVars, Goto, At, TypeOK, KeyConfirmed, Slots
<1> QED
  BY <1>1, <1>2, <1>3, <1>4, <1>5, <1>6 DEF IInv

(* AcceptResponse preserves the invariant. *)
LEMMA AcceptResponseKeeps ==
    ASSUME IInv, NEW t \in Threads, AcceptResponse(t)
    PROVE  IInv'
<1> USE KeypairsAssumption DEF IInv
<1>1. TypeOK'
  BY DEF AcceptResponse, keyVars, Goto, At, RolesInv, TypeOK, HandshakeStates,
     ActorStates, Actors
<1>2. RolesInv'
  BY DEF AcceptResponse, keyVars, Goto, At, TypeOK, RolesInv, ThreadStates,
     PacketStates, Actors
<1>3. LockInv'
  BY DEF AcceptResponse, keyVars, Goto, At, TypeOK, RolesInv, LockInv,
     PacketStates, Actors
<1>4. SlotsInv'
  BY DEF AcceptResponse, keyVars, Goto, At, TypeOK, RolesInv, LockInv, SlotsInv,
     PacketStates, Slots, Actors
<1>5. ConfirmInv'
  BY DEF AcceptResponse, keyVars, Goto, At, TypeOK, RolesInv, ConfirmInv,
     ThreadStates, Actors
<1>6. KeyConfirmed'
  BY DEF AcceptResponse, keyVars, Goto, At, TypeOK, KeyConfirmed, Slots
<1> QED
  BY <1>1, <1>2, <1>3, <1>4, <1>5, <1>6 DEF IInv

(* BeginSession preserves the invariant. *)
LEMMA BeginSessionKeeps ==
    ASSUME IInv, NEW t \in Threads, BeginSession(t)
    PROVE  IInv'
<1> USE KeypairsAssumption DEF IInv
<1>1. TypeOK'
  BY DEF BeginSession, keyVars, Goto, At, InUseOpen, TypeOK, HandshakeStates,
     ActorStates, Actors
<1>2. RolesInv'
  BY DEF BeginSession, keyVars, Goto, At, InUseOpen, TypeOK, RolesInv,
     ThreadStates, PacketStates, Actors
<1>3. LockInv'
  BY DEF BeginSession, keyVars, Goto, At, InUseOpen, TypeOK, RolesInv, LockInv,
     PacketStates, Actors
<1>4. SlotsInv'
  BY DEF BeginSession, keyVars, Goto, At, InUseOpen, TypeOK, RolesInv, LockInv,
     SlotsInv, PacketStates, Slots, Actors
<1>5. ConfirmInv'
  BY DEF BeginSession, keyVars, Goto, At, InUseOpen, TypeOK, RolesInv, ConfirmInv,
     ThreadStates, Actors
<1>6. KeyConfirmed'
  BY DEF BeginSession, keyVars, Goto, At, InUseOpen, TypeOK, KeyConfirmed,
     SlotsInv, Slots
<1> QED
  BY <1>1, <1>2, <1>3, <1>4, <1>5, <1>6 DEF IInv

(* AddNewKeypair preserves the invariant. *)
LEMMA AddNewKeypairKeeps ==
    ASSUME IInv, NEW t \in Threads, AddNewKeypair(t)
    PROVE  IInv'
<1> USE KeypairsAssumption DEF IInv
<1>0. key[t] \in Keypairs
  BY DEF AddNewKeypair, At, LockInv, TypeOK
<1>r. /\ slots' \in [Slots -> Keypairs \cup {Nil}]
      /\ refcount' \in [Keypairs -> Int]
      /\ index' \subseteq Keypairs
  <2>1. slots \in [Slots -> Keypairs \cup {Nil}]
    BY DEF TypeOK
  <2>2. [slots EXCEPT !["current"] = key[t], !["previous"] = slots["next"],
                      !["next"] = Nil] \in [Slots -> Keypairs \cup {Nil}]
    BY <1>0, <2>1 DEF Slots
  <2>3. [slots EXCEPT !["current"] = key[t], !["previous"] = slots["current"]]
          \in [Slots -> Keypairs \cup {Nil}]
    BY <1>0, <2>1 DEF Slots
  <2>4. [slots EXCEPT !["next"] = key[t], !["previous"] = Nil]
          \in [Slots -> Keypairs \cup {Nil}]
    BY <1>0, <2>1 DEF Slots
  <2>5. /\ {"current", "previous"} \in SUBSET Slots
        /\ {"previous"} \in SUBSET Slots
        /\ {"next", "previous"} \in SUBSET Slots
    BY DEF Slots
  <2> QED
    BY <2>2, <2>3, <2>4, <2>5, RotateType DEF AddNewKeypair
<1>s. \/ /\ key[t] \in initiator
         /\ slots'["current"] = key[t]
         /\ slots'["previous"] \in {slots["next"], slots["current"]}
         /\ slots'["next"] = Nil
      \/ /\ slots'["current"] = slots["current"]
         /\ slots'["previous"] = Nil
         /\ slots'["next"] = key[t]
  BY DEF AddNewKeypair, Rotate, TypeOK, Slots
<1>1. TypeOK'
  BY <1>r DEF AddNewKeypair, keyVars, Goto, At, TypeOK, HandshakeStates,
     ActorStates, Actors
<1>2. RolesInv'
  BY DEF AddNewKeypair, keyVars, Goto, At, TypeOK, RolesInv, ThreadStates,
     PacketStates, Actors
<1>3. LockInv'
  BY DEF AddNewKeypair, keyVars, Goto, At, TypeOK, RolesInv, LockInv,
     PacketStates, Actors
<1>4. SlotsInv'
  BY <1>0, <1>s DEF AddNewKeypair, keyVars, Goto, At, TypeOK, RolesInv, LockInv,
     SlotsInv, PacketStates, Slots, Actors
<1>5. ConfirmInv'
  BY DEF AddNewKeypair, keyVars, Goto, At, TypeOK, RolesInv, ConfirmInv,
     ThreadStates, Actors
<1>6. KeyConfirmed'
  BY <1>0, <1>s DEF AddNewKeypair, keyVars, Goto, At, TypeOK, KeyConfirmed, Slots
<1> QED
  BY <1>1, <1>2, <1>3, <1>4, <1>5, <1>6 DEF IInv

(* ReplaceIndex preserves the invariant. *)
LEMMA ReplaceIndexKeeps ==
    ASSUME IInv, NEW t \in Threads, ReplaceIndex(t)
    PROVE  IInv'
<1> USE KeypairsAssumption DEF IInv
<1>1. TypeOK'
  BY DEF ReplaceIndex, keyVars, Goto, At, RolesInv, LockInv, TypeOK,
     HandshakeStates, ActorStates, Actors
<1>2. RolesInv'
  BY DEF ReplaceIndex, keyVars, Goto, At, TypeOK, RolesInv, ThreadStates,
     PacketStates, Actors
<1>3. LockInv'
  BY DEF ReplaceIndex, keyVars, Goto, At, TypeOK, RolesInv, LockInv, PacketStates,
     Actors
<1>4. SlotsInv'
  BY DEF ReplaceIndex, keyVars, Goto, At, TypeOK, RolesInv, LockInv, SlotsInv,
     PacketStates, Slots, Actors
<1>5. ConfirmInv'
  BY DEF ReplaceIndex, keyVars, Goto, At, TypeOK, RolesInv, ConfirmInv,
     ThreadStates, Actors
<1>6. KeyConfirmed'
  BY DEF ReplaceIndex, keyVars, Goto, At, TypeOK, KeyConfirmed, Slots
<1> QED
  BY <1>1, <1>2, <1>3, <1>4, <1>5, <1>6 DEF IInv

(* HandshakeClear preserves the invariant. *)
LEMMA HandshakeClearKeeps ==
    ASSUME IInv, NEW t \in Threads, HandshakeClear(t)
    PROVE  IInv'
<1> USE KeypairsAssumption DEF IInv
<1>1. TypeOK'
  BY DEF HandshakeClear, keyVars, Goto, At, InUseOpen, RolesInv, TypeOK,
     HandshakeStates, ActorStates, Actors
<1>2. RolesInv'
  BY DEF HandshakeClear, keyVars, Goto, At, InUseOpen, TypeOK, RolesInv,
     ThreadStates, PacketStates, Actors
<1>3. LockInv'
  BY DEF HandshakeClear, keyVars, Goto, At, InUseOpen, TypeOK, RolesInv, LockInv,
     PacketStates, Actors
<1>4. SlotsInv'
  BY DEF HandshakeClear, keyVars, Goto, At, InUseOpen, TypeOK, RolesInv, LockInv,
     SlotsInv, PacketStates, Slots, Actors
<1>5. ConfirmInv'
  BY DEF HandshakeClear, keyVars, Goto, At, InUseOpen, TypeOK, RolesInv,
     ConfirmInv, ThreadStates, Actors
<1>6. KeyConfirmed'
  BY DEF HandshakeClear, keyVars, Goto, At, InUseOpen, TypeOK, KeyConfirmed, Slots
<1> QED
  BY <1>1, <1>2, <1>3, <1>4, <1>5, <1>6 DEF IInv

(* KeypairsClear preserves the invariant. *)
LEMMA KeypairsClearKeeps ==
    ASSUME IInv, NEW t \in Threads, KeypairsClear(t)
    PROVE  IInv'
<1> USE KeypairsAssumption DEF IInv
<1>r. /\ slots' \in [Slots -> Keypairs \cup {Nil}]
      /\ refcount' \in [Keypairs -> Int]
      /\ index' \subseteq Keypairs
  <2>1. Empty \in [Slots -> Keypairs \cup {Nil}] /\ Slots \in SUBSET Slots
    BY DEF Empty
  <2> QED
    BY <2>1, RotateType DEF KeypairsClear
<1>s. \A s \in Slots : slots'[s] = Nil
  BY DEF KeypairsClear, Rotate, Empty
<1>1. TypeOK'
  BY <1>r DEF KeypairsClear, keyVars, Goto, At, TypeOK, HandshakeStates,
     ActorStates, Actors
<1>2. RolesInv'
  BY DEF KeypairsClear, keyVars, Goto, At, TypeOK, RolesInv, ThreadStates,
     PacketStates, Actors
<1>3. LockInv'
  BY DEF KeypairsClear, keyVars, Goto, At, TypeOK, RolesInv, LockInv,
     PacketStates, Actors
<1>4. SlotsInv'
  BY <1>s DEF KeypairsClear, keyVars, Goto, At, TypeOK, RolesInv, LockInv,
     SlotsInv, PacketStates, Slots, Actors
<1>5. ConfirmInv'
  BY DEF KeypairsClear, keyVars, Goto, At, TypeOK, RolesInv, ConfirmInv,
     ThreadStates, Actors
<1>6. KeyConfirmed'
  BY <1>s DEF KeypairsClear, keyVars, Goto, At, TypeOK, KeyConfirmed, Slots
<1> QED
  BY <1>1, <1>2, <1>3, <1>4, <1>5, <1>6 DEF IInv

(* ExpireHandshake preserves the invariant. *)
LEMMA ExpireHandshakeKeeps ==
    ASSUME IInv, NEW t \in Threads, ExpireHandshake(t)
    PROVE  IInv'
<1> USE KeypairsAssumption DEF IInv
<1>1. TypeOK'
  BY DEF ExpireHandshake, keyVars, Goto, At, RolesInv, TypeOK, HandshakeStates,
     ActorStates, Actors
<1>2. RolesInv'
  BY DEF ExpireHandshake, keyVars, Goto, At, TypeOK, RolesInv, ThreadStates,
     PacketStates, Actors
<1>3. LockInv'
  BY DEF ExpireHandshake, keyVars, Goto, At, TypeOK, RolesInv, LockInv,
     PacketStates, Actors
<1>4. SlotsInv'
  BY DEF ExpireHandshake, keyVars, Goto, At, TypeOK, RolesInv, LockInv, SlotsInv,
     PacketStates, Slots, Actors
<1>5. ConfirmInv'
  BY DEF ExpireHandshake, keyVars, Goto, At, TypeOK, RolesInv, ConfirmInv,
     ThreadStates, Actors
<1>6. KeyConfirmed'
  BY DEF ExpireHandshake, keyVars, Goto, At, TypeOK, KeyConfirmed, Slots
<1> QED
  BY <1>1, <1>2, <1>3, <1>4, <1>5, <1>6 DEF IInv

(* ExpireKeypairs preserves the invariant. *)
LEMMA ExpireKeypairsKeeps ==
    ASSUME IInv, NEW t \in Threads, ExpireKeypairs(t)
    PROVE  IInv'
<1> USE KeypairsAssumption DEF IInv
<1>1. TypeOK'
  BY DEF ExpireKeypairs, keyVars, Goto, At, RolesInv, Slots, TypeOK,
     HandshakeStates, ActorStates, Actors
<1>2. RolesInv'
  BY DEF ExpireKeypairs, keyVars, Goto, At, TypeOK, RolesInv, ThreadStates,
     PacketStates, Actors
<1>3. LockInv'
  BY DEF ExpireKeypairs, keyVars, Goto, At, TypeOK, RolesInv, LockInv,
     PacketStates, Actors
<1>4. SlotsInv'
  BY DEF ExpireKeypairs, keyVars, Goto, At, TypeOK, RolesInv, LockInv, SlotsInv,
     PacketStates, Slots, Actors
<1>5. ConfirmInv'
  BY DEF ExpireKeypairs, keyVars, Goto, At, TypeOK, RolesInv, ConfirmInv,
     ThreadStates, Actors
<1>6. KeyConfirmed'
  BY DEF ExpireKeypairs, keyVars, Goto, At, TypeOK, KeyConfirmed, Slots
<1> QED
  BY <1>1, <1>2, <1>3, <1>4, <1>5, <1>6 DEF IInv

(* Receive preserves the invariant. *)
LEMMA ReceiveKeeps ==
    ASSUME IInv, NEW d \in Packets, Receive(d)
    PROVE  IInv'
<1> USE KeypairsAssumption DEF IInv
<1>1. TypeOK'
  BY DEF Receive, keyVars, Goto, At, Take, RolesInv, TypeOK, HandshakeStates,
     ActorStates, Actors
<1>2. RolesInv'
  BY DEF Receive, keyVars, Goto, At, Take, TypeOK, RolesInv, ThreadStates,
     PacketStates, Actors
<1>3. LockInv'
  BY DEF Receive, keyVars, Goto, At, Take, TypeOK, RolesInv, LockInv,
     PacketStates, Actors
<1>4. SlotsInv'
  BY DEF Receive, keyVars, Goto, At, Take, TypeOK, RolesInv, LockInv, SlotsInv,
     PacketStates, Slots, Actors
<1>5. ConfirmInv'
  BY DEF Receive, keyVars, Goto, At, Take, TypeOK, RolesInv, ConfirmInv,
     ThreadStates, Actors
<1>6. KeyConfirmed'
  BY DEF Receive, keyVars, Goto, At, Take, TypeOK, KeyConfirmed, Slots
<1> QED
  BY <1>1, <1>2, <1>3, <1>4, <1>5, <1>6 DEF IInv

(* Send preserves the invariant. *)
LEMMA SendKeeps ==
    ASSUME IInv, NEW d \in Packets, Send(d)
    PROVE  IInv'
<1> USE KeypairsAssumption DEF IInv
<1>1. TypeOK'
  BY DEF Send, keyVars, Goto, At, Take, RolesInv, Slots, TypeOK, HandshakeStates,
     ActorStates, Actors
<1>2. RolesInv'
  BY DEF Send, keyVars, Goto, At, Take, Slots, TypeOK, RolesInv, ThreadStates,
     PacketStates, Actors
<1>3. LockInv'
  BY DEF Send, keyVars, Goto, At, Take, TypeOK, RolesInv, LockInv, PacketStates,
     Actors
<1>4. SlotsInv'
  BY DEF Send, keyVars, Goto, At, Take, TypeOK, RolesInv, LockInv, SlotsInv,
     PacketStates, Slots, Actors
<1>5. ConfirmInv'
  BY DEF Send, keyVars, Goto, At, Take, TypeOK, RolesInv, ConfirmInv,
     ThreadStates, Actors
<1>6. KeyConfirmed'
  BY DEF Send, keyVars, Goto, At, Take, TypeOK, KeyConfirmed, Slots
<1> QED
  BY <1>1, <1>2, <1>3, <1>4, <1>5, <1>6 DEF IInv

(* SendRefused preserves the invariant. *)
LEMMA SendRefusedKeeps ==
    ASSUME IInv, NEW d \in Packets, SendRefused(d)
    PROVE  IInv'
<1> USE KeypairsAssumption DEF IInv
<1>1. TypeOK'
  BY DEF SendRefused, keyVars, Goto, At, RolesInv, TypeOK, HandshakeStates,
     ActorStates, Actors
<1>2. RolesInv'
  BY DEF SendRefused, keyVars, Goto, At, TypeOK, RolesInv, ThreadStates,
     PacketStates, Actors
<1>3. LockInv'
  BY DEF SendRefused, keyVars, Goto, At, TypeOK, RolesInv, LockInv, PacketStates,
     Actors
<1>4. SlotsInv'
  BY DEF SendRefused, keyVars, Goto, At, TypeOK, RolesInv, LockInv, SlotsInv,
     PacketStates, Slots, Actors
<1>5. ConfirmInv'
  BY DEF SendRefused, keyVars, Goto, At, TypeOK, RolesInv, ConfirmInv,
     ThreadStates, Actors
<1>6. KeyConfirmed'
  BY DEF SendRefused, keyVars, Goto, At, TypeOK, KeyConfirmed, Slots
<1> QED
  BY <1>1, <1>2, <1>3, <1>4, <1>5, <1>6 DEF IInv

(* Discard preserves the invariant. *)
LEMMA DiscardKeeps ==
    ASSUME IInv, NEW d \in Packets, Discard(d)
    PROVE  IInv'
<1> USE KeypairsAssumption DEF IInv
<1>1. TypeOK'
  BY DEF Discard, keyVars, Goto, At, RolesInv, TypeOK, HandshakeStates,
     ActorStates, Actors
<1>2. RolesInv'
  BY DEF Discard, keyVars, Goto, At, TypeOK, RolesInv, ThreadStates, PacketStates,
     Actors
<1>3. LockInv'
  BY DEF Discard, keyVars, Goto, At, TypeOK, RolesInv, LockInv, PacketStates, Actors
<1>4. SlotsInv'
  BY DEF Discard, keyVars, Goto, At, TypeOK, RolesInv, LockInv, SlotsInv,
     PacketStates, Slots, Actors
<1>5. ConfirmInv'
  BY DEF Discard, keyVars, Goto, At, TypeOK, RolesInv, ConfirmInv, ThreadStates,
     Actors
<1>6. KeyConfirmed'
  BY DEF Discard, keyVars, Goto, At, TypeOK, KeyConfirmed, Slots
<1> QED
  BY <1>1, <1>2, <1>3, <1>4, <1>5, <1>6 DEF IInv

(* CheckNext preserves the invariant. *)
LEMMA CheckNextKeeps ==
    ASSUME IInv, NEW d \in Packets, CheckNext(d)
    PROVE  IInv'
<1> USE KeypairsAssumption DEF IInv
<1>1. TypeOK'
  BY DEF CheckNext, keyVars, Goto, At, RolesInv, TypeOK, HandshakeStates,
     ActorStates, Actors
<1>2. RolesInv'
  BY DEF CheckNext, keyVars, Goto, At, TypeOK, RolesInv, ThreadStates,
     PacketStates, Actors
<1>3. LockInv'
  BY DEF CheckNext, keyVars, Goto, At, TypeOK, RolesInv, LockInv, PacketStates, Actors
<1>4. SlotsInv'
  BY DEF CheckNext, keyVars, Goto, At, TypeOK, RolesInv, LockInv, SlotsInv,
     PacketStates, Slots, Actors
<1>5. ConfirmInv'
  BY DEF CheckNext, keyVars, Goto, At, TypeOK, RolesInv, ConfirmInv, ThreadStates,
     Actors
<1>6. KeyConfirmed'
  BY DEF CheckNext, keyVars, Goto, At, TypeOK, KeyConfirmed, Slots
<1> QED
  BY <1>1, <1>2, <1>3, <1>4, <1>5, <1>6 DEF IInv

(* Confirm preserves the invariant. *)
LEMMA ConfirmKeeps ==
    ASSUME IInv, NEW d \in Packets, Confirm(d)
    PROVE  IInv'
<1> USE KeypairsAssumption DEF IInv
<1>0. key[d] \in Keypairs
  BY DEF Confirm, At, RolesInv
<1>r. /\ slots' \in [Slots -> Keypairs \cup {Nil}]
      /\ refcount' \in [Keypairs -> Int]
      /\ index' \subseteq Keypairs
  <2>1. slots \in [Slots -> Keypairs \cup {Nil}]
    BY DEF TypeOK
  <2>2. [slots EXCEPT !["current"] = key[d], !["previous"] = slots["current"],
                      !["next"] = Nil] \in [Slots -> Keypairs \cup {Nil}]
    BY <1>0, <2>1 DEF Slots
  <2>3. {"previous"} \in SUBSET Slots
    BY DEF Slots
  <2>4. CASE slots["next"] = key[d]
    BY <2>2, <2>3, <2>4, RotateType DEF Confirm
  <2>5. CASE slots["next"] # key[d]
    BY <2>5 DEF Confirm, TypeOK
  <2> QED
    BY <2>4, <2>5
<1>s. /\ slots'["next"] \in {Nil, slots["next"]}
      /\ \/ slots' = slots
         \/ /\ slots["next"] = key[d]
            /\ slots'["current"] = key[d]
            /\ slots'["previous"] = slots["current"]
            /\ slots'["next"] = Nil
  BY DEF Confirm, Rotate, TypeOK, Slots
<1>1. TypeOK'
  BY <1>r DEF Confirm, keyVars, Goto, At, TypeOK, HandshakeStates, ActorStates, Actors
<1>2. RolesInv'
  BY DEF Confirm, keyVars, Goto, At, TypeOK, RolesInv, ThreadStates, PacketStates,
     Actors
<1>3. LockInv'
  BY DEF Confirm, keyVars, Goto, At, TypeOK, RolesInv, LockInv, PacketStates, Actors
<1>4. SlotsInv'
  BY <1>0, <1>s DEF Confirm, keyVars, Goto, At, TypeOK, RolesInv, LockInv,
     SlotsInv, PacketStates, Slots, Actors
<1>5. ConfirmInv'
  BY DEF Confirm, keyVars, Goto, At, TypeOK, RolesInv, ConfirmInv, ThreadStates,
     Actors
<1>6. KeyConfirmed'
  BY <1>0, <1>s DEF Confirm, keyVars, Goto, At, TypeOK, KeyConfirmed, ConfirmInv,
     Slots
<1> QED
  BY <1>1, <1>2, <1>3, <1>4, <1>5, <1>6 DEF IInv

(* PutKeypair preserves the invariant. *)
LEMMA PutKeypairKeeps ==
    ASSUME IInv, NEW d \in Packets, PutKeypair(d)
    PROVE  IInv'
<1> USE KeypairsAssumption DEF IInv
<1>1. TypeOK'
  BY DEF PutKeypair, keyVars, Goto, At, RolesInv, TypeOK, HandshakeStates,
     ActorStates, Actors
<1>2. RolesInv'
  BY DEF PutKeypair, keyVars, Goto, At, TypeOK, RolesInv, ThreadStates,
     PacketStates, Actors
<1>3. LockInv'
  BY DEF PutKeypair, keyVars, Goto, At, TypeOK, RolesInv, LockInv, PacketStates,
     Actors
<1>4. SlotsInv'
  BY DEF PutKeypair, keyVars, Goto, At, TypeOK, RolesInv, LockInv, SlotsInv,
     PacketStates, Slots, Actors
<1>5. ConfirmInv'
  BY DEF PutKeypair, keyVars, Goto, At, TypeOK, RolesInv, ConfirmInv,
     ThreadStates, Actors
<1>6. KeyConfirmed'
  BY DEF PutKeypair, keyVars, Goto, At, TypeOK, KeyConfirmed, Slots
<1> QED
  BY <1>1, <1>2, <1>3, <1>4, <1>5, <1>6 DEF IInv

(* RemoveClear preserves the invariant. *)
LEMMA RemoveClearKeeps ==
    ASSUME IInv, RemoveClear
    PROVE  IInv'
<1> USE KeypairsAssumption DEF IInv
<1>r. /\ slots' \in [Slots -> Keypairs \cup {Nil}]
      /\ refcount' \in [Keypairs -> Int]
      /\ index' \subseteq Keypairs
  <2>1. Empty \in [Slots -> Keypairs \cup {Nil}] /\ Slots \in SUBSET Slots
    BY DEF Empty
  <2> QED
    BY <2>1, RotateType DEF RemoveClear
<1>s. \A s \in Slots : slots'[s] = Nil
  BY DEF RemoveClear, Rotate, Empty
<1>1. TypeOK'
  BY <1>r DEF RemoveClear, keyVars, Goto, At, TypeOK, HandshakeStates,
     ActorStates, Actors
<1>2. RolesInv'
  BY DEF RemoveClear, keyVars, Goto, At, TypeOK, RolesInv, ThreadStates,
     PacketStates, Actors
<1>3. LockInv'
  BY DEF RemoveClear, keyVars, Goto, At, TypeOK, RolesInv, LockInv, PacketStates,
     Actors
<1>4. SlotsInv'
  BY <1>s DEF RemoveClear, keyVars, Goto, At, TypeOK, RolesInv, LockInv, SlotsInv,
     PacketStates, Slots, Actors
<1>5. ConfirmInv'
  BY DEF RemoveClear, keyVars, Goto, At, TypeOK, RolesInv, ConfirmInv,
     ThreadStates, Actors
<1>6. KeyConfirmed'
  BY <1>s DEF RemoveClear, keyVars, Goto, At, TypeOK, KeyConfirmed, Slots
<1> QED
  BY <1>1, <1>2, <1>3, <1>4, <1>5, <1>6 DEF IInv

(* RemoveClose preserves the invariant. *)
LEMMA RemoveCloseKeeps ==
    ASSUME IInv, RemoveClose
    PROVE  IInv'
<1> USE KeypairsAssumption DEF IInv
<1>1. TypeOK'
  BY DEF RemoveClose, keyVars, Goto, At, RolesInv, TypeOK, HandshakeStates,
     ActorStates, Actors
<1>2. RolesInv'
  BY DEF RemoveClose, keyVars, Goto, At, TypeOK, RolesInv, ThreadStates,
     PacketStates, Actors
<1>3. LockInv'
  BY DEF RemoveClose, keyVars, Goto, At, TypeOK, RolesInv, LockInv, PacketStates,
     Actors
<1>4. SlotsInv'
  BY DEF RemoveClose, keyVars, Goto, At, TypeOK, RolesInv, LockInv, SlotsInv,
     PacketStates, Slots, Actors
<1>5. ConfirmInv'
  BY DEF RemoveClose, keyVars, Goto, At, TypeOK, RolesInv, ConfirmInv,
     ThreadStates, Actors
<1>6. KeyConfirmed'
  BY DEF RemoveClose, keyVars, Goto, At, TypeOK, KeyConfirmed, Slots
<1> QED
  BY <1>1, <1>2, <1>3, <1>4, <1>5, <1>6 DEF IInv

(* RemoveDone preserves the invariant. *)
LEMMA RemoveDoneKeeps ==
    ASSUME IInv, RemoveDone
    PROVE  IInv'
<1> USE KeypairsAssumption DEF IInv
<1>1. TypeOK'
  BY DEF RemoveDone, keyVars, Goto, At, RolesInv, TypeOK, HandshakeStates,
     ActorStates, Actors
<1>2. RolesInv'
  BY DEF RemoveDone, keyVars, Goto, At, TypeOK, RolesInv, ThreadStates,
     PacketStates, Actors
<1>3. LockInv'
  BY DEF RemoveDone, keyVars, Goto, At, TypeOK, RolesInv, LockInv, PacketStates,
     Actors
<1>4. SlotsInv'
  BY DEF RemoveDone, keyVars, Goto, At, TypeOK, RolesInv, LockInv, SlotsInv,
     PacketStates, Slots, Actors
<1>5. ConfirmInv'
  BY DEF RemoveDone, keyVars, Goto, At, TypeOK, RolesInv, ConfirmInv,
     ThreadStates, Actors
<1>6. KeyConfirmed'
  BY DEF RemoveDone, keyVars, Goto, At, TypeOK, KeyConfirmed, Slots
<1> QED
  BY <1>1, <1>2, <1>3, <1>4, <1>5, <1>6 DEF IInv

(* RcuRelease preserves the invariant. *)
LEMMA RcuReleaseKeeps ==
    ASSUME IInv, RcuRelease
    PROVE  IInv'
<1> USE KeypairsAssumption DEF IInv
<1>1. TypeOK'
  BY DEF RcuRelease, keyVars, Goto, At, RolesInv, TypeOK, HandshakeStates,
     ActorStates, Actors
<1>2. RolesInv'
  BY DEF RcuRelease, keyVars, Goto, At, TypeOK, RolesInv, ThreadStates,
     PacketStates, Actors
<1>3. LockInv'
  BY DEF RcuRelease, keyVars, Goto, At, TypeOK, RolesInv, LockInv, PacketStates,
     Actors
<1>4. SlotsInv'
  BY DEF RcuRelease, keyVars, Goto, At, TypeOK, RolesInv, LockInv, SlotsInv,
     PacketStates, Slots, Actors
<1>5. ConfirmInv'
  BY DEF RcuRelease, keyVars, Goto, At, TypeOK, RolesInv, ConfirmInv,
     ThreadStates, Actors
<1>6. KeyConfirmed'
  BY DEF RcuRelease, keyVars, Goto, At, TypeOK, KeyConfirmed, Slots
<1> QED
  BY <1>1, <1>2, <1>3, <1>4, <1>5, <1>6 DEF IInv

-----------------------------------------------------------------------------
(* Every step preserves the invariant. *)
LEMMA NextIInv == IInv /\ [Next]_vars => IInv'
<1> SUFFICES ASSUME IInv, [Next]_vars PROVE IInv'
  OBVIOUS
<1>1. CASE UNCHANGED vars
  BY <1>1 DEF vars, IInv, TypeOK, RolesInv, LockInv, SlotsInv, ConfirmInv,
     KeyConfirmed, At
<1>2. ASSUME NEW t \in Threads, ThreadStep(t) PROVE IInv'
  BY <1>2, CreateInitiationKeeps, ConsumeInitiationKeeps, CreateResponseKeeps,
     ConsumeResponseKeeps, AcceptResponseKeeps, BeginSessionKeeps,
     AddNewKeypairKeeps, ReplaceIndexKeeps, HandshakeClearKeeps,
     KeypairsClearKeeps, ExpireHandshakeKeeps, ExpireKeypairsKeeps DEF ThreadStep
<1>3. ASSUME NEW d \in Packets, PacketStep(d) PROVE IInv'
  BY <1>3, ReceiveKeeps, SendKeeps, SendRefusedKeeps, DiscardKeeps,
     CheckNextKeeps, ConfirmKeeps, PutKeypairKeeps DEF PacketStep
<1>4. CASE RemoveClear \/ RemoveClose \/ RemoveDone \/ RcuRelease
  BY <1>4, RemoveClearKeeps, RemoveCloseKeeps, RemoveDoneKeeps, RcuReleaseKeeps
<1> QED
  BY <1>1, <1>2, <1>3, <1>4 DEF Next

(* The inductive invariant holds throughout. *)
THEOREM Invariance == Spec => []IInv
<1> QED
  BY InitIInv, NextIInv, PTL DEF Spec

(* The model's variables keep their types whatever the number of workers,
   packets and keypairs.                                                    *)
THEOREM TypeCorrect == Spec => []TypeOK
<1>1. IInv => TypeOK
  BY DEF IInv
<1> QED
  BY <1>1, Invariance, PTL

(* A responder never sends with a key that no authentic packet confirmed
   (AddNewKeypair and NoiseReceivedWithKeypair in driver/noise.c).          *)
THEOREM OnlyConfirmedKeys == Spec => []KeyConfirmed
<1>1. IInv => KeyConfirmed
  BY DEF IInv
<1> QED
  BY <1>1, Invariance, PTL

-----------------------------------------------------------------------------
(* A step that neither moves a slot's keypair nor begins a session keeps every
   keypair where it is or lets it leave the session's beginning.            *)
LEMMA SlotsKept ==
    ASSUME IInv, slots' = slots, created \subseteq created',
           \A t \in Threads, k \in created :
               pc'[t] = "addKeypair" /\ key'[t] = k => pc[t] = "addKeypair" /\ key[t] = k
    PROVE  \A k \in Keypairs : Age(k) <= Age(k)'
  BY DEF Age, Adding, At

(* Every step keeps KeysOnlyAge. *)
LEMMA StepAges ==
    ASSUME IInv, [Next]_vars
    PROVE  \A k \in Keypairs : Age(k) <= Age(k)'
<1> DEFINE NoneYounger == \A k \in Keypairs : Age(k) <= Age(k)'
<1> USE KeypairsAssumption
<1>1. CASE UNCHANGED vars
  BY <1>1 DEF vars, Age, Adding, At
<1>2. ASSUME NEW t \in Threads, CreateInitiation(t) PROVE NoneYounger
  <2>1. slots' = slots /\ created \subseteq created'
    BY <1>2 DEF CreateInitiation, keyVars, Goto, At
  <2>2. \A u \in Threads, k \in created :
          pc'[u] = "addKeypair" /\ key'[u] = k => pc[u] = "addKeypair" /\ key[u] = k
    BY <1>2 DEF CreateInitiation, keyVars, Goto, At, IInv, TypeOK, RolesInv, Actors
  <2> QED
    BY <2>1, <2>2, SlotsKept
<1>3. ASSUME NEW t \in Threads, ConsumeInitiation(t) PROVE NoneYounger
  <2>1. slots' = slots /\ created \subseteq created'
    BY <1>3 DEF ConsumeInitiation, keyVars, Goto, At
  <2>2. \A u \in Threads, k \in created :
          pc'[u] = "addKeypair" /\ key'[u] = k => pc[u] = "addKeypair" /\ key[u] = k
    BY <1>3 DEF ConsumeInitiation, keyVars, Goto, At, IInv, TypeOK, RolesInv, Actors
  <2> QED
    BY <2>1, <2>2, SlotsKept
<1>4. ASSUME NEW t \in Threads, CreateResponse(t) PROVE NoneYounger
  <2>1. slots' = slots /\ created \subseteq created'
    BY <1>4 DEF CreateResponse, keyVars, Goto, At
  <2>2. \A u \in Threads, k \in created :
          pc'[u] = "addKeypair" /\ key'[u] = k => pc[u] = "addKeypair" /\ key[u] = k
    BY <1>4 DEF CreateResponse, keyVars, Goto, At, IInv, TypeOK, RolesInv, Actors
  <2> QED
    BY <2>1, <2>2, SlotsKept
<1>5. ASSUME NEW t \in Threads, ConsumeResponse(t) PROVE NoneYounger
  <2>1. slots' = slots /\ created \subseteq created'
    BY <1>5 DEF ConsumeResponse, keyVars, Goto, At
  <2>2. \A u \in Threads, k \in created :
          pc'[u] = "addKeypair" /\ key'[u] = k => pc[u] = "addKeypair" /\ key[u] = k
    BY <1>5 DEF ConsumeResponse, keyVars, Goto, At, IInv, TypeOK, RolesInv, Actors
  <2> QED
    BY <2>1, <2>2, SlotsKept
<1>6. ASSUME NEW t \in Threads, AcceptResponse(t) PROVE NoneYounger
  <2>1. slots' = slots /\ created \subseteq created'
    BY <1>6 DEF AcceptResponse, keyVars, Goto, At
  <2>2. \A u \in Threads, k \in created :
          pc'[u] = "addKeypair" /\ key'[u] = k => pc[u] = "addKeypair" /\ key[u] = k
    BY <1>6 DEF AcceptResponse, keyVars, Goto, At, IInv, TypeOK, RolesInv, Actors
  <2> QED
    BY <2>1, <2>2, SlotsKept
<1>7. ASSUME NEW t \in Threads, BeginSession(t) PROVE NoneYounger
  <2>1. slots' = slots /\ created \subseteq created'
    BY <1>7 DEF BeginSession, keyVars, Goto, At
  <2>2. \A u \in Threads, k \in created :
          pc'[u] = "addKeypair" /\ key'[u] = k => pc[u] = "addKeypair" /\ key[u] = k
    BY <1>7 DEF BeginSession, keyVars, Goto, At, IInv, TypeOK, RolesInv, Actors
  <2> QED
    BY <2>1, <2>2, SlotsKept
<1>8. ASSUME NEW t \in Threads, AddNewKeypair(t) PROVE NoneYounger
  <2>1. created' = created
    BY <1>8 DEF AddNewKeypair, keyVars, Goto, At
  <2>2. \A k \in Keypairs : Adding(k) => k = key[t]
    BY <1>8 DEF Adding, AddNewKeypair, keyVars, Goto, At, IInv, LockInv
  <2>3. Adding(key[t]) /\ \A k \in Keypairs : ~Adding(k)'
    BY <1>8 DEF Adding, AddNewKeypair, keyVars, Goto, At, IInv, LockInv, TypeOK,
       Actors
  <2>4. \/ /\ slots'["current"] = key[t]
           /\ slots'["previous"] \in {slots["next"], slots["current"]}
           /\ slots'["next"] = Nil
        \/ /\ slots'["current"] = slots["current"]
           /\ slots'["previous"] = Nil
           /\ slots'["next"] = key[t]
    BY <1>8 DEF AddNewKeypair, Rotate, IInv, TypeOK, Slots
  <2>5. \A r, s \in Slots : slots[r] = slots[s] /\ slots[r] # Nil => r = s
    BY DEF IInv, SlotsInv
  <2> QED
    BY <2>1, <2>2, <2>3, <2>4, <2>5 DEF Age, Slots
<1>9. ASSUME NEW t \in Threads, ReplaceIndex(t) PROVE NoneYounger
  <2>1. slots' = slots /\ created \subseteq created'
    BY <1>9 DEF ReplaceIndex, keyVars, Goto, At
  <2>2. \A u \in Threads, k \in created :
          pc'[u] = "addKeypair" /\ key'[u] = k => pc[u] = "addKeypair" /\ key[u] = k
    BY <1>9 DEF ReplaceIndex, keyVars, Goto, At, IInv, TypeOK, RolesInv, Actors
  <2> QED
    BY <2>1, <2>2, SlotsKept
<1>10. ASSUME NEW t \in Threads, HandshakeClear(t) PROVE NoneYounger
  <2>1. slots' = slots /\ created \subseteq created'
    BY <1>10 DEF HandshakeClear, keyVars, Goto, At
  <2>2. \A u \in Threads, k \in created :
          pc'[u] = "addKeypair" /\ key'[u] = k => pc[u] = "addKeypair" /\ key[u] = k
    BY <1>10 DEF HandshakeClear, keyVars, Goto, At, IInv, TypeOK, RolesInv, Actors
  <2> QED
    BY <2>1, <2>2, SlotsKept
<1>11. ASSUME NEW t \in Threads, KeypairsClear(t) PROVE NoneYounger
  <2>1. created' = created
    BY <1>11 DEF KeypairsClear, keyVars, Goto, At
  <2>2. \A k \in Keypairs : Adding(k)' => Adding(k)
    BY <1>11 DEF Adding, KeypairsClear, keyVars, Goto, At, IInv, TypeOK,
       RolesInv, Actors
  <2>3. \A s \in Slots : slots'[s] = Nil
    BY <1>11 DEF KeypairsClear, Rotate, Empty
  <2> QED
    BY <2>1, <2>2, <2>3 DEF Age, Slots
<1>12. ASSUME NEW t \in Threads, ExpireHandshake(t) PROVE NoneYounger
  <2>1. slots' = slots /\ created \subseteq created'
    BY <1>12 DEF ExpireHandshake, keyVars, Goto, At
  <2>2. \A u \in Threads, k \in created :
          pc'[u] = "addKeypair" /\ key'[u] = k => pc[u] = "addKeypair" /\ key[u] = k
    BY <1>12 DEF ExpireHandshake, keyVars, Goto, At, IInv, TypeOK, RolesInv, Actors
  <2> QED
    BY <2>1, <2>2, SlotsKept
<1>13. ASSUME NEW t \in Threads, ExpireKeypairs(t) PROVE NoneYounger
  <2>1. slots' = slots /\ created \subseteq created'
    BY <1>13 DEF ExpireKeypairs, keyVars, Goto, At
  <2>2. \A u \in Threads, k \in created :
          pc'[u] = "addKeypair" /\ key'[u] = k => pc[u] = "addKeypair" /\ key[u] = k
    BY <1>13 DEF ExpireKeypairs, keyVars, Goto, At, IInv, TypeOK, RolesInv, Actors
  <2> QED
    BY <2>1, <2>2, SlotsKept
<1>14. ASSUME NEW d \in Packets, Receive(d) PROVE NoneYounger
  <2>1. slots' = slots /\ created \subseteq created'
    BY <1>14 DEF Receive, keyVars, Goto, At, Take
  <2>2. \A u \in Threads, k \in created :
          pc'[u] = "addKeypair" /\ key'[u] = k => pc[u] = "addKeypair" /\ key[u] = k
    BY <1>14 DEF Receive, keyVars, Goto, At, Take, IInv, TypeOK, RolesInv, Actors
  <2> QED
    BY <2>1, <2>2, SlotsKept
<1>15. ASSUME NEW d \in Packets, Send(d) PROVE NoneYounger
  <2>1. slots' = slots /\ created \subseteq created'
    BY <1>15 DEF Send, keyVars, Goto, At, Take
  <2>2. \A u \in Threads, k \in created :
          pc'[u] = "addKeypair" /\ key'[u] = k => pc[u] = "addKeypair" /\ key[u] = k
    BY <1>15 DEF Send, keyVars, Goto, At, Take, IInv, TypeOK, RolesInv, Actors
  <2> QED
    BY <2>1, <2>2, SlotsKept
<1>16. ASSUME NEW d \in Packets, SendRefused(d) PROVE NoneYounger
  <2>1. slots' = slots /\ created \subseteq created'
    BY <1>16 DEF SendRefused, keyVars, Goto, At
  <2>2. \A u \in Threads, k \in created :
          pc'[u] = "addKeypair" /\ key'[u] = k => pc[u] = "addKeypair" /\ key[u] = k
    BY <1>16 DEF SendRefused, keyVars, Goto, At, IInv, TypeOK, RolesInv, Actors
  <2> QED
    BY <2>1, <2>2, SlotsKept
<1>17. ASSUME NEW d \in Packets, Discard(d) PROVE NoneYounger
  <2>1. slots' = slots /\ created \subseteq created'
    BY <1>17 DEF Discard, keyVars, Goto, At
  <2>2. \A u \in Threads, k \in created :
          pc'[u] = "addKeypair" /\ key'[u] = k => pc[u] = "addKeypair" /\ key[u] = k
    BY <1>17 DEF Discard, keyVars, Goto, At, IInv, TypeOK, RolesInv, Actors
  <2> QED
    BY <2>1, <2>2, SlotsKept
<1>18. ASSUME NEW d \in Packets, CheckNext(d) PROVE NoneYounger
  <2>1. slots' = slots /\ created \subseteq created'
    BY <1>18 DEF CheckNext, keyVars, Goto, At
  <2>2. \A u \in Threads, k \in created :
          pc'[u] = "addKeypair" /\ key'[u] = k => pc[u] = "addKeypair" /\ key[u] = k
    BY <1>18 DEF CheckNext, keyVars, Goto, At, IInv, TypeOK, RolesInv, Actors
  <2> QED
    BY <2>1, <2>2, SlotsKept
<1>19. ASSUME NEW d \in Packets, Confirm(d) PROVE NoneYounger
  <2>1. created' = created
    BY <1>19 DEF Confirm, keyVars, Goto, At
  <2>2. \A k \in Keypairs : Adding(k)' => Adding(k)
    BY <1>19 DEF Adding, Confirm, keyVars, Goto, At, IInv, TypeOK, RolesInv, Actors
  <2>3. \/ slots' = slots
        \/ /\ slots["next"] = key[d]
           /\ slots'["current"] = key[d]
           /\ slots'["previous"] = slots["current"]
           /\ slots'["next"] = Nil
    BY <1>19 DEF Confirm, Rotate, IInv, TypeOK, Slots
  <2>4. \A r, s \in Slots : slots[r] = slots[s] /\ slots[r] # Nil => r = s
    BY DEF IInv, SlotsInv
  <2> QED
    BY <2>1, <2>2, <2>3, <2>4 DEF Age, Slots
<1>20. ASSUME NEW d \in Packets, PutKeypair(d) PROVE NoneYounger
  <2>1. slots' = slots /\ created \subseteq created'
    BY <1>20 DEF PutKeypair, keyVars, Goto, At
  <2>2. \A u \in Threads, k \in created :
          pc'[u] = "addKeypair" /\ key'[u] = k => pc[u] = "addKeypair" /\ key[u] = k
    BY <1>20 DEF PutKeypair, keyVars, Goto, At, IInv, TypeOK, RolesInv, Actors
  <2> QED
    BY <2>1, <2>2, SlotsKept
<1>21. ASSUME RemoveClear PROVE NoneYounger
  <2>1. created' = created
    BY <1>21 DEF RemoveClear, keyVars, Goto, At
  <2>2. \A k \in Keypairs : Adding(k)' => Adding(k)
    BY <1>21 DEF Adding, RemoveClear, keyVars, Goto, At, IInv, TypeOK, RolesInv,
       Actors
  <2>3. \A s \in Slots : slots'[s] = Nil
    BY <1>21 DEF RemoveClear, Rotate, Empty
  <2> QED
    BY <2>1, <2>2, <2>3 DEF Age, Slots
<1>22. ASSUME RemoveClose PROVE NoneYounger
  <2>1. slots' = slots /\ created \subseteq created'
    BY <1>22 DEF RemoveClose, keyVars, Goto, At
  <2>2. \A u \in Threads, k \in created :
          pc'[u] = "addKeypair" /\ key'[u] = k => pc[u] = "addKeypair" /\ key[u] = k
    BY <1>22 DEF RemoveClose, keyVars, Goto, At, IInv, TypeOK, RolesInv, Actors
  <2> QED
    BY <2>1, <2>2, SlotsKept
<1>23. ASSUME RemoveDone PROVE NoneYounger
  <2>1. slots' = slots /\ created \subseteq created'
    BY <1>23 DEF RemoveDone, keyVars, Goto, At
  <2>2. \A u \in Threads, k \in created :
          pc'[u] = "addKeypair" /\ key'[u] = k => pc[u] = "addKeypair" /\ key[u] = k
    BY <1>23 DEF RemoveDone, keyVars, Goto, At, IInv, TypeOK, RolesInv, Actors
  <2> QED
    BY <2>1, <2>2, SlotsKept
<1>24. ASSUME RcuRelease PROVE NoneYounger
  <2>1. slots' = slots /\ created \subseteq created'
    BY <1>24 DEF RcuRelease, keyVars, Goto, At
  <2>2. \A u \in Threads, k \in created :
          pc'[u] = "addKeypair" /\ key'[u] = k => pc[u] = "addKeypair" /\ key[u] = k
    BY <1>24 DEF RcuRelease, keyVars, Goto, At, IInv, TypeOK, RolesInv, Actors
  <2> QED
    BY <2>1, <2>2, SlotsKept
<1>t. ASSUME NEW t \in Threads, ThreadStep(t) PROVE NoneYounger
  BY <1>t, <1>2, <1>3, <1>4, <1>5, <1>6, <1>7, <1>8, <1>9, <1>10, <1>11, <1>12,
     <1>13 DEF ThreadStep
<1>d. ASSUME NEW d \in Packets, PacketStep(d) PROVE NoneYounger
  BY <1>d, <1>14, <1>15, <1>16, <1>17, <1>18, <1>19, <1>20 DEF PacketStep
<1> QED
  BY <1>1, <1>t, <1>d, <1>21, <1>22, <1>23, <1>24 DEF Next

(* A key that has been replaced is never sent with again and a dropped one
   never comes back into a slot, whatever interleaving of AddNewKeypair,
   NoiseReceivedWithKeypair and NoiseKeypairsClear.                         *)
THEOREM KeysAge == Spec => KeysOnlyAge
<1>1. IInv /\ [Next]_vars => [\A k \in Keypairs : Age(k) <= Age(k)']_vars
  BY StepAges
<1> QED
  BY <1>1, Invariance, PTL DEF Spec, KeysOnlyAge

-----------------------------------------------------------------------------
(* RefcountExact.  Counted with a number for the slots that is zero or one. *)
InSlots(k) == IF \E s \in Slots : slots[s] = k THEN 1 ELSE 0
Users(k) == Cardinality({d \in Packets : key[d] = k})
BeingAdded(k) == IF Adding(k) THEN 1 ELSE 0

(* A packet at rest has no keypair, and nothing refers to one that was not
   created: it starts from a count of zero.                                 *)
CountInv ==
    /\ \A d \in Packets : key[d] \in created \cup {Nil}
    /\ \A d \in Packets : pc[d] = "idle" => key[d] = Nil
    /\ index \subseteq created
    /\ \A k \in Keypairs : refcount[k] = InSlots(k) + Users(k) + BeingAdded(k)

(* A keypair is in one of some slots at most, so counting them gives one or
   zero.                                                                    *)
LEMMA SlotTally ==
    ASSUME SlotsInv, NEW dropped \in SUBSET Slots, NEW k \in Keypairs, Nil \notin Keypairs
    PROVE  Cardinality({s \in dropped : slots[s] = k}) =
             IF \E s \in dropped : slots[s] = k THEN 1 ELSE 0
<1>1. CASE \E s \in dropped : slots[s] = k
  <2>1. PICK s \in dropped : slots[s] = k
    BY <1>1
  <2>2. {r \in dropped : slots[r] = k} = {s}
    BY <2>1 DEF SlotsInv
  <2> QED
    BY <1>1, <2>2, FS_Singleton
<1>2. CASE ~ \E s \in dropped : slots[s] = k
  <2>1. {r \in dropped : slots[r] = k} = {}
    BY <1>2
  <2> QED
    BY <1>2, <2>1, FS_EmptySet
<1> QED
  BY <1>1, <1>2

LEMMA UsersType == ASSUME NEW k PROVE Users(k) \in Nat
<1>1. IsFiniteSet({d \in Packets : key[d] = k})
  BY KeypairsAssumption, FS_Subset
<1> QED
  BY <1>1, FS_CardinalityType DEF Users

(* A packet takes a keypair ... *)
LEMMA OneMoreUser ==
    ASSUME TypeOK, NEW d \in Packets, key[d] = Nil, NEW k \in Keypairs,
           key' = [key EXCEPT ![d] = k]
    PROVE  \A j \in Keypairs : Users(j)' = Users(j) + (IF j = k THEN 1 ELSE 0)
<1> SUFFICES ASSUME NEW j \in Keypairs
             PROVE  Users(j)' = Users(j) + (IF j = k THEN 1 ELSE 0)
  OBVIOUS
<1> DEFINE S == {e \in Packets : key[e] = j}
<1>1. IsFiniteSet(S) /\ Users(j) = Cardinality(S) /\ Cardinality(S) \in Nat
  BY KeypairsAssumption, FS_Subset, FS_CardinalityType DEF Users
<1>2. key'[d] = k /\ (\A e \in Packets \ {d} : key'[e] = key[e]) /\ Nil # k /\ Nil # j
  BY KeypairsAssumption DEF TypeOK, Actors
<1>3. CASE j = k
  <2>1. {e \in Packets : key'[e] = j} = S \cup {d} /\ d \notin S
    BY <1>2, <1>3
  <2> QED
    BY <1>1, <1>3, <2>1, FS_AddElement DEF Users
<1>4. CASE j # k
  <2>1. {e \in Packets : key'[e] = j} = S
    BY <1>2, <1>4
  <2> QED
    BY <1>1, <1>4, <2>1 DEF Users
<1> QED
  BY <1>3, <1>4

(* ... and puts it. *)
LEMMA OneUserLess ==
    ASSUME TypeOK, NEW d \in Packets, NEW k \in Keypairs, key[d] = k,
           key' = [key EXCEPT ![d] = Nil]
    PROVE  \A j \in Keypairs : Users(j)' = Users(j) - (IF j = k THEN 1 ELSE 0)
<1> SUFFICES ASSUME NEW j \in Keypairs
             PROVE  Users(j)' = Users(j) - (IF j = k THEN 1 ELSE 0)
  OBVIOUS
<1> DEFINE S == {e \in Packets : key[e] = j}
<1>1. IsFiniteSet(S) /\ Users(j) = Cardinality(S) /\ Cardinality(S) \in Nat
  BY KeypairsAssumption, FS_Subset, FS_CardinalityType DEF Users
<1>2. key'[d] = Nil /\ (\A e \in Packets \ {d} : key'[e] = key[e]) /\ Nil # k /\ Nil # j
  BY KeypairsAssumption DEF TypeOK, Actors
<1>3. CASE j = k
  <2>1. {e \in Packets : key'[e] = j} = S \ {d} /\ d \in S
    BY <1>2, <1>3
  <2> QED
    BY <1>1, <1>3, <2>1, FS_RemoveElement DEF Users
<1>4. CASE j # k
  <2>1. {e \in Packets : key'[e] = j} = S
    BY <1>2, <1>4
  <2> QED
    BY <1>1, <1>4, <2>1 DEF Users
<1> QED
  BY <1>3, <1>4

(* A step that moves no keypair and no count keeps the counts. *)
LEMMA Unmoved ==
    ASSUME CountInv, slots' = slots, refcount' = refcount, created \subseteq created',
           index' \subseteq created',
           \A d \in Packets : key'[d] = key[d],
           \A d \in Packets : pc'[d] = "idle" => pc[d] = "idle",
           \A t \in Threads : pc'[t] = "addKeypair" <=> pc[t] = "addKeypair",
           \A t \in Threads : pc[t] = "addKeypair" => key'[t] = key[t]
    PROVE  CountInv'
<1>1. \A k : Users(k)' = Users(k)
  <2> SUFFICES ASSUME NEW k PROVE Users(k)' = Users(k)
    OBVIOUS
  <2>1. {d \in Packets : key'[d] = k} = {d \in Packets : key[d] = k}
    OBVIOUS
  <2> QED
    BY <2>1 DEF Users
<1>2. \A k : BeingAdded(k)' = BeingAdded(k)
  BY DEF BeingAdded, Adding, At
<1>3. \A k : InSlots(k)' = InSlots(k)
  BY DEF InSlots
<1> QED
  BY <1>1, <1>2, <1>3 DEF CountInv

(* Rotate takes from each keypair the slots it loses, when it puts none into a
   slot but from another slot.                                              *)
LEMMA RotateCounts ==
    ASSUME TypeOK, SlotsInv, NEW new, NEW dropped \in SUBSET Slots, Rotate(new, dropped)
    PROVE  \A k \in Keypairs :
             refcount'[k] = refcount[k] - (IF \E s \in dropped : slots[s] = k THEN 1 ELSE 0)
<1> SUFFICES ASSUME NEW k \in Keypairs
             PROVE  refcount'[k] = refcount[k]
                                     - (IF \E s \in dropped : slots[s] = k THEN 1 ELSE 0)
  OBVIOUS
<1>1. Cardinality({s \in dropped : slots[s] = k})
        = IF \E s \in dropped : slots[s] = k THEN 1 ELSE 0
  BY SlotTally, KeypairsAssumption
<1>2. refcount' = [j \in Keypairs |->
                     refcount[j] - Cardinality({s \in dropped : slots[s] = j})]
  BY DEF Rotate
<1>3. refcount'[k] = refcount[k] - Cardinality({s \in dropped : slots[s] = k})
  BY <1>2
<1> QED
  BY <1>1, <1>3

(* The steps of a thread that move no count. *)
LEMMA ThreadCounts ==
    ASSUME IInv, CountInv, NEW t \in Threads,
           \/ CreateInitiation(t) \/ ConsumeInitiation(t) \/ CreateResponse(t)
           \/ ConsumeResponse(t) \/ AcceptResponse(t) \/ ReplaceIndex(t)
           \/ HandshakeClear(t) \/ ExpireHandshake(t) \/ ExpireKeypairs(t)
    PROVE  CountInv'
<1> USE KeypairsAssumption DEF IInv, TypeOK, Actors, At, Goto, keyVars
<1>1. slots' = slots /\ refcount' = refcount /\ created' = created
  BY DEF CreateInitiation, ConsumeInitiation, CreateResponse, ConsumeResponse,
     AcceptResponse, ReplaceIndex, HandshakeClear, ExpireHandshake, ExpireKeypairs
<1>2. index' \subseteq created
  <2>1. CASE ReplaceIndex(t)
    BY <2>1 DEF ReplaceIndex, LockInv, CountInv
  <2>2. CASE ~ReplaceIndex(t)
    BY <2>2 DEF CreateInitiation, ConsumeInitiation, CreateResponse, ConsumeResponse,
       AcceptResponse, HandshakeClear, ExpireHandshake, ExpireKeypairs, CountInv
  <2> QED
    BY <2>1, <2>2
<1>3. /\ \A d \in Packets : key'[d] = key[d] /\ pc'[d] = pc[d]
      /\ \A u \in Threads : pc'[u] = "addKeypair" <=> pc[u] = "addKeypair"
      /\ \A u \in Threads : pc[u] = "addKeypair" => key'[u] = key[u]
  BY DEF CreateInitiation, ConsumeInitiation, CreateResponse, ConsumeResponse,
     AcceptResponse, ReplaceIndex, HandshakeClear, ExpireHandshake, ExpireKeypairs
<1> QED
  BY <1>1, <1>2, <1>3, Unmoved

(* The steps of a packet that move no count. *)
LEMMA PacketCounts ==
    ASSUME IInv, CountInv, NEW d \in Packets,
           SendRefused(d) \/ Discard(d) \/ CheckNext(d)
    PROVE  CountInv'
<1> USE KeypairsAssumption DEF IInv, TypeOK, Actors, At, Goto, keyVars
<1>1. /\ slots' = slots /\ refcount' = refcount /\ created' = created
      /\ index' \subseteq created
  BY DEF SendRefused, Discard, CheckNext, CountInv
<1>2. key' = key /\ \A e \in Packets : pc'[e] = "idle" => pc[e] = "idle"
  BY DEF SendRefused, Discard, CheckNext
<1>3. \A u \in Threads : pc'[u] = pc[u]
  BY DEF SendRefused, Discard, CheckNext
<1> QED
  BY <1>1, <1>2, <1>3, Unmoved

(* The steps of PeerRemove after the clearing. *)
LEMMA RemovalCounts ==
    ASSUME IInv, CountInv, RemoveClose \/ RemoveDone \/ RcuRelease
    PROVE  CountInv'
<1>1. /\ slots' = slots /\ refcount' = refcount /\ created' = created
      /\ index' = index /\ key' = key /\ pc' = pc
  BY DEF RemoveClose, RemoveDone, RcuRelease, keyVars
<1>2. index' \subseteq created'
  BY <1>1 DEF CountInv
<1> QED
  BY <1>1, <1>2, Unmoved

(* A new keypair starts with the reference of the session being begun. *)
LEMMA BeginSessionCounts ==
    ASSUME IInv, CountInv, NEW t \in Threads, BeginSession(t)
    PROVE  CountInv'
<1> USE KeypairsAssumption DEF IInv, TypeOK, Actors, At, Goto
<1>1. slots' = slots /\ index' = index /\ created \subseteq created'
  BY DEF BeginSession
<1>2. index' \subseteq created'
  BY <1>1 DEF CountInv
<1>3. \A d \in Packets : key'[d] = key[d] /\ pc'[d] = pc[d]
  BY DEF BeginSession
<1>4. CASE pc' = [pc EXCEPT ![t] = "idle"]
  <2>1. /\ \A u \in Threads : pc'[u] = "addKeypair" <=> pc[u] = "addKeypair"
        /\ key' = key /\ refcount' = refcount
    BY <1>4 DEF BeginSession
  <2> QED
    BY <1>1, <1>2, <1>3, <1>4, <2>1, Unmoved
<1>5. CASE pc' # [pc EXCEPT ![t] = "idle"]
  <2>1. PICK k \in Keypairs \ created :
          /\ created' = created \cup {k}
          /\ refcount' = [refcount EXCEPT ![k] = 1]
          /\ key' = [key EXCEPT ![t] = k]
          /\ pc' = [pc EXCEPT ![t] = "addKeypair"]
          /\ pc[t] = "beginSession"
    BY <1>5 DEF BeginSession
  <2>2. \A j : Users(j)' = Users(j)
    <3> SUFFICES ASSUME NEW j PROVE Users(j)' = Users(j)
      OBVIOUS
    <3>1. {d \in Packets : key'[d] = j} = {d \in Packets : key[d] = j}
      BY <1>3
    <3> QED
      BY <3>1 DEF Users
  <2>3. \A j : InSlots(j)' = InSlots(j)
    BY <1>1 DEF InSlots
  <2>4. \A j \in Keypairs \ {k} : Adding(j)' <=> Adding(j)
    BY <2>1 DEF Adding
  <2>5. Adding(k)'
    BY <2>1 DEF Adding
  <2>6. InSlots(k) = 0
    BY DEF InSlots, SlotsInv
  <2>7. Users(k) = 0
    <3>1. {d \in Packets : key[d] = k} = {}
      BY DEF CountInv
    <3> QED
      BY <3>1, FS_EmptySet DEF Users
  <2>8. /\ \A d \in Packets : key'[d] \in created' \cup {Nil}
        /\ \A d \in Packets : pc'[d] = "idle" => key'[d] = Nil
    BY <1>3, <1>1 DEF CountInv
  <2>9. ASSUME NEW j \in Keypairs
        PROVE  refcount'[j] = InSlots(j)' + Users(j)' + BeingAdded(j)'
    <3>1. CASE j = k
      BY <3>1, <2>1, <2>2, <2>3, <2>5, <2>6, <2>7 DEF BeingAdded
    <3>2. CASE j # k
      BY <3>2, <2>1, <2>2, <2>3, <2>4 DEF BeingAdded, CountInv
    <3> QED
      BY <3>1, <3>2
  <2> QED
    BY <1>2, <2>8, <2>9 DEF CountInv
<1> QED
  BY <1>4, <1>5

(* The new keypair's reference becomes that of its slot. *)
LEMMA AddNewKeypairCounts ==
    ASSUME IInv, CountInv, NEW t \in Threads, AddNewKeypair(t)
    PROVE  CountInv'
<1> USE KeypairsAssumption DEF IInv
<1> DEFINE k == key[t]
<1>1. /\ created' = created /\ key' = key /\ pc[t] = "addKeypair"
      /\ pc' = [pc EXCEPT ![t] = "replaceIndex"] /\ k \in Keypairs
  BY DEF AddNewKeypair, Goto, At, LockInv, TypeOK
<1>2. PICK dropped \in SUBSET Slots :
        /\ Rotate(slots', dropped)
        /\ \A j \in Keypairs :
             (\E s \in Slots : slots'[s] = j)
               <=> \/ j = k
                   \/ (\E s \in Slots \ dropped : slots[s] = j)
  <2>1. CASE k \in initiator /\ slots["next"] # Nil
    <3> DEFINE new == [slots EXCEPT !["current"] = k, !["previous"] = slots["next"],
                                    !["next"] = Nil]
    <3>1. Rotate(new, {"current", "previous"}) /\ slots' = new
      BY <2>1 DEF AddNewKeypair, Rotate
    <3>2. new["current"] = k /\ new["previous"] = slots["next"] /\ new["next"] = Nil
      BY DEF TypeOK, Slots
    <3> HIDE DEF new
    <3> QED
      BY <3>1, <3>2 DEF Slots
  <2>2. CASE k \in initiator /\ slots["next"] = Nil
    <3> DEFINE new == [slots EXCEPT !["current"] = k, !["previous"] = slots["current"]]
    <3>1. Rotate(new, {"previous"}) /\ slots' = new
      BY <2>2 DEF AddNewKeypair, Rotate
    <3>2. new["current"] = k /\ new["previous"] = slots["current"]
            /\ new["next"] = slots["next"]
      BY DEF TypeOK, Slots
    <3> HIDE DEF new
    <3> QED
      BY <2>2, <3>1, <3>2 DEF Slots
  <2>3. CASE k \notin initiator
    <3> DEFINE new == [slots EXCEPT !["next"] = k, !["previous"] = Nil]
    <3>1. Rotate(new, {"next", "previous"}) /\ slots' = new
      BY <2>3 DEF AddNewKeypair, Rotate
    <3>2. new["next"] = k /\ new["previous"] = Nil /\ new["current"] = slots["current"]
      BY DEF TypeOK, Slots
    <3> HIDE DEF new
    <3> QED
      BY <3>1, <3>2 DEF Slots
  <2> QED
    BY <2>1, <2>2, <2>3 DEF AddNewKeypair
<1>3. \A j \in Keypairs :
        refcount'[j] = refcount[j] - (IF \E s \in dropped : slots[s] = j THEN 1 ELSE 0)
  BY <1>2, RotateCounts
<1>4. \A j \in Keypairs :
        InSlots(j)' = IF j = k \/ \E s \in Slots \ dropped : slots[s] = j THEN 1 ELSE 0
  BY <1>2 DEF InSlots, Rotate
<1>5. \A s \in Slots : slots[s] # k
  BY <1>1 DEF SlotsInv, At
<1>6. \A j \in Keypairs : Adding(j) <=> j = k
  BY <1>1 DEF Adding, At, LockInv
<1>7. \A j \in Keypairs : ~Adding(j)'
  BY <1>1 DEF Adding, At, LockInv, TypeOK, Actors
<1>8. \A j : Users(j)' = Users(j)
  BY <1>1 DEF Users
<1>9. ASSUME NEW j \in Keypairs
      PROVE  refcount'[j] = InSlots(j)' + Users(j)' + BeingAdded(j)'
  <2>1. refcount[j] = InSlots(j) + Users(j) + BeingAdded(j) /\ Users(j) \in Nat
    BY UsersType DEF CountInv
  <2>2. CASE j = k
    BY <2>1, <2>2, <1>3, <1>4, <1>5, <1>6, <1>7, <1>8 DEF InSlots, BeingAdded
  <2>3. CASE j # k
    <3>1. \A r, s \in Slots : slots[r] = j /\ slots[s] = j => r = s
      BY DEF SlotsInv
    <3>2. BeingAdded(j) = 0 /\ BeingAdded(j)' = 0
      BY <2>3, <1>6, <1>7 DEF BeingAdded
    <3> HIDE DEF k
    <3> QED
      BY <2>1, <2>3, <3>1, <3>2, <1>3, <1>4, <1>8 DEF InSlots
  <2> QED
    BY <2>2, <2>3
<1>10. /\ \A d \in Packets : key'[d] \in created' \cup {Nil}
       /\ \A d \in Packets : pc'[d] = "idle" => key'[d] = Nil
       /\ index' \subseteq created'
  BY <1>1, <1>2 DEF CountInv, Rotate, TypeOK, Actors
<1> QED
  BY <1>9, <1>10 DEF CountInv

(* A rotation that only moves and drops keypairs. *)
LEMMA RotatedCounts ==
    ASSUME IInv, CountInv, NEW dropped \in SUBSET Slots, Rotate(slots', dropped),
           \A j \in Keypairs :
             (\E s \in Slots : slots'[s] = j) <=> (\E s \in Slots \ dropped : slots[s] = j),
           created' = created, key' = key,
           \A d \in Packets : pc'[d] = "idle" => pc[d] = "idle",
           \A t \in Threads : pc'[t] = "addKeypair" <=> pc[t] = "addKeypair"
    PROVE  CountInv'
<1> USE KeypairsAssumption DEF IInv
<1>1. \A j \in Keypairs :
        refcount'[j] = refcount[j] - (IF \E s \in dropped : slots[s] = j THEN 1 ELSE 0)
  BY RotateCounts
<1>2. \A j : Users(j)' = Users(j)
  BY DEF Users
<1>3. \A j : BeingAdded(j)' = BeingAdded(j)
  BY DEF BeingAdded, Adding, At
<1>4. ASSUME NEW j \in Keypairs
      PROVE  refcount'[j] = InSlots(j)' + Users(j)' + BeingAdded(j)'
  <2>1. refcount[j] = InSlots(j) + Users(j) + BeingAdded(j)
    BY DEF CountInv
  <2>2. Users(j) \in Nat /\ BeingAdded(j) \in Nat
    BY UsersType DEF BeingAdded
  <2>3. InSlots(j)' = InSlots(j) - (IF \E s \in dropped : slots[s] = j THEN 1 ELSE 0)
    <3>1. \A r, s \in Slots : slots[r] = j /\ slots[s] = j => r = s
      BY DEF SlotsInv
    <3> QED
      BY <3>1 DEF InSlots
  <2>4. InSlots(j) \in Int
    BY DEF InSlots
  <2> QED
    BY <2>1, <2>2, <2>3, <2>4, <1>1, <1>2, <1>3
<1>5. /\ \A d \in Packets : key'[d] \in created' \cup {Nil}
      /\ \A d \in Packets : pc'[d] = "idle" => key'[d] = Nil
      /\ index' \subseteq created'
  BY DEF CountInv, Rotate
<1> QED
  BY <1>4, <1>5 DEF CountInv

(* NoiseKeypairsClear, for the timers or for PeerRemove. *)
LEMMA ClearCounts ==
    ASSUME IInv, CountInv, RemoveClear \/ \E t \in Threads : KeypairsClear(t)
    PROVE  CountInv'
<1> USE KeypairsAssumption DEF IInv
<1>1. Rotate(Empty, Slots) /\ created' = created /\ key' = key
  BY DEF RemoveClear, KeypairsClear
<1>2. slots' = Empty
  BY <1>1 DEF Rotate
<1>3. \A j \in Keypairs : ~ \E s \in Slots : slots'[s] = j
  BY <1>2 DEF Empty
<1>4. /\ \A d \in Packets : pc'[d] = pc[d]
      /\ \A t \in Threads : pc'[t] = "addKeypair" <=> pc[t] = "addKeypair"
  BY DEF RemoveClear, KeypairsClear, Goto, At, TypeOK, Actors
<1>5. Rotate(slots', Slots)
  BY <1>1, <1>2
<1> QED
  BY <1>1, <1>3, <1>4, <1>5, RotatedCounts

(* NoiseReceivedWithKeypair puts what was the previous keypair. *)
LEMMA ConfirmCounts ==
    ASSUME IInv, CountInv, NEW d \in Packets, Confirm(d)
    PROVE  CountInv'
<1> USE KeypairsAssumption DEF IInv
<1>1. /\ created' = created /\ key' = key
      /\ \A e \in Packets : pc'[e] = "idle" => pc[e] = "idle"
      /\ \A t \in Threads : pc'[t] = pc[t]
  BY DEF Confirm, Goto, At, TypeOK, Actors
<1>2. CASE slots["next"] = key[d]
  <2> DEFINE new == [slots EXCEPT !["current"] = key[d], !["previous"] = slots["current"],
                                  !["next"] = Nil]
  <2>1. Rotate(new, {"previous"}) /\ slots' = new
    BY <1>2 DEF Confirm, Rotate
  <2>2. /\ new["current"] = slots["next"] /\ new["previous"] = slots["current"]
        /\ new["next"] = Nil
    BY <1>2 DEF TypeOK, Slots
  <2> HIDE DEF new
  <2>3. \A j \in Keypairs :
          (\E s \in Slots : slots'[s] = j)
            <=> (\E s \in Slots \ {"previous"} : slots[s] = j)
    BY <2>1, <2>2 DEF Slots
  <2>4. Rotate(slots', {"previous"}) /\ {"previous"} \in SUBSET Slots
    BY <2>1 DEF Slots
  <2> QED
    BY <1>1, <2>3, <2>4, RotatedCounts
<1>3. CASE slots["next"] # key[d]
  <2>1. slots' = slots /\ refcount' = refcount /\ index' = index
    BY <1>3 DEF Confirm
  <2>2. index' \subseteq created'
    BY <1>1, <2>1 DEF CountInv
  <2> QED
    BY <1>1, <2>1, <2>2, Unmoved
<1> QED
  BY <1>2, <1>3

(* A packet takes its keypair where it found it. *)
LEMMA TakeCounts ==
    ASSUME IInv, CountInv, NEW d \in Packets, Receive(d) \/ Send(d)
    PROVE  CountInv'
<1> USE KeypairsAssumption DEF IInv
<1>1. PICK k \in Keypairs, label \in {"checkNext", "sending"} :
        Take(d, k, label) /\ k \in created /\ pc[d] = "idle"
  BY DEF Receive, Send, At, CountInv, SlotsInv, TypeOK, Slots
<1>2. /\ slots' = slots /\ created' = created /\ index' = index
      /\ key' = [key EXCEPT ![d] = k] /\ refcount' = [refcount EXCEPT ![k] = @ + 1]
      /\ pc' = [pc EXCEPT ![d] = label]
  BY <1>1 DEF Take, Goto
<1>3. key[d] = Nil
  BY <1>1 DEF CountInv
<1>4. \A j \in Keypairs : Users(j)' = Users(j) + (IF j = k THEN 1 ELSE 0)
  BY <1>2, <1>3, OneMoreUser
<1>5. \A j : InSlots(j)' = InSlots(j)
  BY <1>2 DEF InSlots
<1>6. \A j : BeingAdded(j)' = BeingAdded(j)
  BY <1>2 DEF BeingAdded, Adding, At, TypeOK, Actors
<1>7. ASSUME NEW j \in Keypairs
      PROVE  refcount'[j] = InSlots(j)' + Users(j)' + BeingAdded(j)'
  <2>1. refcount[j] = InSlots(j) + Users(j) + BeingAdded(j)
    BY DEF CountInv
  <2>2. Users(j) \in Nat /\ BeingAdded(j) \in Nat /\ InSlots(j) \in Nat
    BY UsersType DEF BeingAdded, InSlots
  <2>3. refcount'[j] = refcount[j] + (IF j = k THEN 1 ELSE 0)
    BY <1>2, <2>1, <2>2 DEF TypeOK
  <2> QED
    BY <2>1, <2>2, <2>3, <1>4, <1>5, <1>6
<1>8. /\ \A e \in Packets : key'[e] \in created' \cup {Nil}
      /\ \A e \in Packets : pc'[e] = "idle" => key'[e] = Nil
      /\ index' \subseteq created'
  BY <1>1, <1>2 DEF CountInv, TypeOK, Actors
<1> QED
  BY <1>7, <1>8 DEF CountInv

(* NoiseKeypairPut. *)
LEMMA PutKeypairCounts ==
    ASSUME IInv, CountInv, NEW d \in Packets, PutKeypair(d)
    PROVE  CountInv'
<1> USE KeypairsAssumption DEF IInv
<1>1. PICK k \in Keypairs : key[d] = k
  BY DEF PutKeypair, At, RolesInv
<1>2. /\ slots' = slots /\ created' = created /\ index' \subseteq index
      /\ key' = [key EXCEPT ![d] = Nil] /\ refcount' = [refcount EXCEPT ![k] = @ - 1]
      /\ pc' = [pc EXCEPT ![d] = "idle"]
  BY <1>1 DEF PutKeypair, Goto
<1>3. \A j \in Keypairs : Users(j)' = Users(j) - (IF j = k THEN 1 ELSE 0)
  BY <1>1, <1>2, OneUserLess
<1>4. \A j : InSlots(j)' = InSlots(j)
  BY <1>2 DEF InSlots
<1>5. \A j : BeingAdded(j)' = BeingAdded(j)
  BY <1>2 DEF BeingAdded, Adding, At, TypeOK, Actors
<1>6. ASSUME NEW j \in Keypairs
      PROVE  refcount'[j] = InSlots(j)' + Users(j)' + BeingAdded(j)'
  <2>1. refcount[j] = InSlots(j) + Users(j) + BeingAdded(j)
    BY DEF CountInv
  <2>2. Users(j) \in Nat /\ BeingAdded(j) \in Nat /\ InSlots(j) \in Nat
    BY UsersType DEF BeingAdded, InSlots
  <2>3. refcount'[j] = refcount[j] - (IF j = k THEN 1 ELSE 0)
    BY <1>2, <2>1, <2>2 DEF TypeOK
  <2> QED
    BY <2>1, <2>2, <2>3, <1>3, <1>4, <1>5
<1>7. /\ \A e \in Packets : key'[e] \in created' \cup {Nil}
      /\ \A e \in Packets : pc'[e] = "idle" => key'[e] = Nil
      /\ index' \subseteq created'
  BY <1>2 DEF CountInv, TypeOK, Actors
<1> QED
  BY <1>6, <1>7 DEF CountInv

(* Every step keeps the counts. *)
LEMMA NextCounts ==
    ASSUME IInv, CountInv, [Next]_vars
    PROVE  CountInv'
<1>1. CASE UNCHANGED vars
  <2>1. index' \subseteq created'
    BY <1>1 DEF CountInv, vars
  <2> QED
    BY <1>1, <2>1, Unmoved DEF vars
<1>2. ASSUME NEW t \in Threads, ThreadStep(t) PROVE CountInv'
  BY <1>2, ThreadCounts, BeginSessionCounts, AddNewKeypairCounts, ClearCounts
     DEF ThreadStep
<1>3. ASSUME NEW d \in Packets, PacketStep(d) PROVE CountInv'
  BY <1>3, PacketCounts, TakeCounts, ConfirmCounts, PutKeypairCounts DEF PacketStep
<1>4. CASE RemoveClear \/ RemoveClose \/ RemoveDone \/ RcuRelease
  BY <1>4, RemovalCounts, ClearCounts
<1> QED
  BY <1>1, <1>2, <1>3, <1>4 DEF Next

(* The counts are right when the peer is made. *)
LEMMA InitCounts == Init => CountInv
<1> SUFFICES ASSUME Init PROVE CountInv
  OBVIOUS
<1> USE KeypairsAssumption
<1>1. \A k \in Keypairs : InSlots(k) = 0 /\ BeingAdded(k) = 0
  BY DEF Init, InSlots, BeingAdded, Empty, Adding, At, Actors
<1>2. ASSUME NEW k \in Keypairs PROVE Users(k) = 0
  <2>1. {d \in Packets : key[d] = k} = {}
    BY DEF Init, Actors
  <2> QED
    BY <2>1, FS_EmptySet DEF Users
<1>3. \A k \in Keypairs : refcount[k] = InSlots(k) + Users(k) + BeingAdded(k)
  BY <1>1, <1>2 DEF Init
<1> QED
  BY <1>3 DEF Init, CountInv, Actors

(* A keypair's reference count is exact, whatever sessions, confirmations,
   clears, packets and a removal do: one in a slot is never freed, and one that
   nothing has is.                                                          *)
THEOREM ReferencesCounted == Spec => []RefcountExact
<1>1. IInv /\ CountInv => RefcountExact
  <2> SUFFICES ASSUME IInv, CountInv, NEW k \in Keypairs
               PROVE  refcount[k] = Cardinality({s \in Slots : slots[s] = k})
                                    + Cardinality({d \in Packets : key[d] = k})
                                    + (IF Adding(k) THEN 1 ELSE 0)
    BY DEF RefcountExact, IInv, SlotsInv
  <2>1. Cardinality({s \in Slots : slots[s] = k}) = InSlots(k)
    BY SlotTally, KeypairsAssumption DEF IInv, InSlots
  <2> QED
    BY <2>1 DEF CountInv, Users, BeingAdded
<1>2. IInv /\ CountInv /\ [Next]_vars => (IInv /\ CountInv)'
  BY NextIInv, NextCounts
<1>3. Init => IInv /\ CountInv
  BY InitIInv, InitCounts
<1> QED
  BY <1>1, <1>2, <1>3, PTL DEF Spec
=============================================================================
