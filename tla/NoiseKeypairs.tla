---------------------------- MODULE NoiseKeypairs ---------------------------
(***************************************************************************)
(* One peer's session keys (driver/noise.c): the handshake state that      *)
(* produces them, the three slots they rotate through, their reference     *)
(* counts and their entries in the device's index table, with PeerRemove   *)
(* (driver/peer.c) running against it.                                     *)
(*                                                                         *)
(* The handshake is reduced to its state word: whether a message decrypts  *)
(* is a free choice.  Everything done under one lock is one step, except   *)
(* NoiseHandshakeBeginSession, which works on the slots and on the index   *)
(* table while it holds the handshake lock.                                *)
(*                                                                         *)
(* Threads are the workers that receive handshake messages, the worker     *)
(* that has the peer's entry of the handshake send queue, a configuration  *)
(* request (all in Threads: any may do anything), and data packets in      *)
(* flight (Packets), each of which pins the keypair it was found with.     *)
(***************************************************************************)
EXTENDS Integers, FiniteSets

CONSTANTS
    Threads,
    Packets,
    Keypairs,   \* keypairs that memory allows to be created
    Nil

ASSUME KeypairsAssumption ==
    /\ Threads \cap Packets = {} /\ Nil \notin Keypairs /\ Nil \notin Threads
    /\ IsFiniteSet(Packets)

Actors == Threads \cup Packets

VARIABLES
    handshake,  \* Handshake->State
    hashed,     \* is Handshake->Entry in the index table?
    lock,       \* holder of Handshake->Lock across steps
    slots,      \* NOISE_KEYPAIRS: current, previous, next
    refcount,   \* per keypair: Refcount
    initiator,  \* keypairs with IAmTheInitiator
    invalid,    \* keypairs with Sending.IsValid cleared
    index,      \* keypairs whose Entry is in the index table
    created,    \* history: keypairs that KeypairCreate returned
    confirmed,  \* history: keypairs under which an authentic packet arrived
    inUse,      \* threads that hold the peer's InUse
    removal,    \* how far PeerRemove has come
    pc,         \* per actor: where it is
    key         \* per actor: the keypair it works with

vars == <<handshake, hashed, lock, slots, refcount, initiator, invalid, index,
          created, confirmed, inUse, removal, pc, key>>

keyVars == <<slots, refcount, initiator, invalid, index, created, confirmed>>

Slots == {"current", "previous", "next"}
Empty == [s \in Slots |-> Nil]

Init ==
    /\ handshake = "ZEROED" /\ hashed = FALSE /\ lock = Nil
    /\ slots = Empty
    /\ refcount = [k \in Keypairs |-> 0]
    /\ initiator = {} /\ invalid = {} /\ index = {}
    /\ created = {} /\ confirmed = {}
    /\ inUse = {} /\ removal = "no"
    /\ pc = [a \in Actors |-> "idle"]
    /\ key = [a \in Actors |-> Nil]

At(a, label) == pc[a] = label
Goto(a, label) == pc' = [pc EXCEPT ![a] = label]

(* A handshake message or a packet reaches the peer with a counted reference.
   It may have been taken long before, so only the peer's release ends them. *)
PeerReachable == removal # "freed"

(* ExAcquireRundownProtection of the peer's InUse succeeds. *)
InUseOpen == removal \in {"no", "cleared"}

-----------------------------------------------------------------------------
(* The slots change to `new'; the keypairs that the slots in `dropped' held are
   put with UnreferenceNow: out of the index at once, one reference less.   *)
Rotate(new, dropped) ==
    /\ slots' = new
    /\ refcount' = [k \in Keypairs |->
                      refcount[k] - Cardinality({s \in dropped : slots[s] = k})]
    /\ index' = index \ {slots[s] : s \in dropped}

-----------------------------------------------------------------------------
(* NoiseHandshakeCreateInitiation, in the handshake send worker: the peer's
   entry of that queue holds InUse.                                         *)
CreateInitiation(t) ==
    /\ At(t, "idle") /\ InUseOpen /\ lock = Nil
    /\ handshake' = "CREATED_INITIATION"
    /\ hashed' = TRUE
    /\ UNCHANGED <<lock, keyVars, inUse, removal, pc, key>>

(* NoiseHandshakeConsumeInitiation of an authentic message. *)
ConsumeInitiation(t) ==
    /\ At(t, "idle") /\ PeerReachable /\ lock = Nil
    /\ handshake' = "CONSUMED_INITIATION"
    /\ Goto(t, "createResponse")
    /\ UNCHANGED <<hashed, lock, keyVars, inUse, removal, key>>

(* NoiseHandshakeCreateResponse: the state may have changed since. *)
CreateResponse(t) ==
    /\ At(t, "createResponse") /\ lock = Nil
    /\ \/ /\ handshake = "CONSUMED_INITIATION"
          /\ handshake' = "CREATED_RESPONSE"
          /\ hashed' = TRUE
          /\ Goto(t, "beginSession")
       \/ /\ handshake # "CONSUMED_INITIATION"
          /\ Goto(t, "idle")
          /\ UNCHANGED <<handshake, hashed>>
    /\ UNCHANGED <<lock, keyVars, inUse, removal, key>>

(* NoiseHandshakeConsumeResponse: the index finds the handshake, its state is
   copied under the shared lock ...                                         *)
ConsumeResponse(t) ==
    /\ At(t, "idle") /\ PeerReachable /\ hashed /\ lock = Nil
    /\ handshake = "CREATED_INITIATION"
    /\ Goto(t, "acceptResponse")
    /\ UNCHANGED <<handshake, hashed, lock, keyVars, inUse, removal, key>>

(* ... and compared again under the exclusive one. *)
AcceptResponse(t) ==
    /\ At(t, "acceptResponse") /\ lock = Nil
    /\ \/ /\ handshake = "CREATED_INITIATION"
          /\ handshake' = "CONSUMED_RESPONSE"
          /\ Goto(t, "beginSession")
       \/ /\ handshake # "CREATED_INITIATION"
          /\ Goto(t, "idle")
          /\ UNCHANGED handshake
    /\ UNCHANGED <<hashed, lock, keyVars, inUse, removal, key>>

(* NoiseHandshakeBeginSession up to ExAcquireRundownProtection.  Without a
   finished handshake or memory it gives up; without protection it frees the
   new keypair.                                                             *)
BeginSession(t) ==
    /\ At(t, "beginSession") /\ lock = Nil
    /\ \/ /\ handshake \in {"CREATED_RESPONSE", "CONSUMED_RESPONSE"}
          /\ \E k \in Keypairs \ created :
            /\ created' = created \cup {k}
            /\ handshake' = "ZEROED"
            /\ initiator' = IF handshake = "CONSUMED_RESPONSE"
                            THEN initiator \cup {k} ELSE initiator
            /\ \/ /\ InUseOpen
                  /\ refcount' = [refcount EXCEPT ![k] = 1]
                  /\ inUse' = inUse \cup {t}
                  /\ lock' = t
                  /\ key' = [key EXCEPT ![t] = k]
                  /\ Goto(t, "addKeypair")
               \/ /\ ~InUseOpen
                  /\ Goto(t, "idle")
                  /\ UNCHANGED <<refcount, inUse, lock, key>>
       \/ /\ handshake \notin {"CREATED_RESPONSE", "CONSUMED_RESPONSE"} \/ created = Keypairs
          /\ Goto(t, "idle")
          /\ UNCHANGED <<handshake, created, initiator, refcount, inUse, lock, key>>
    /\ UNCHANGED <<hashed, slots, invalid, index, confirmed, removal>>

\* Mutant: a responder's keypair is taken for an initiator's.
AddForEitherRole(t) ==
    /\ At(t, "addKeypair")
    /\ LET k == key[t] IN
        \/ /\ slots["next"] # Nil
           /\ Rotate([slots EXCEPT !["current"] = k, !["previous"] = slots["next"],
                                !["next"] = Nil],
                     {"current", "previous"})
        \/ /\ slots["next"] = Nil
           /\ Rotate([slots EXCEPT !["current"] = k, !["previous"] = slots["current"]],
                     {"previous"})
    /\ Goto(t, "replaceIndex")
    /\ UNCHANGED <<handshake, hashed, lock, initiator, invalid, created, confirmed,
                   inUse, removal, key>>

\* Mutant: the responder forgets to put the previous keypair.
AddLeaksPrevious(t) ==
    /\ At(t, "addKeypair")
    /\ LET k == key[t] IN
        \/ /\ k \in initiator /\ slots["next"] # Nil
           /\ Rotate([slots EXCEPT !["current"] = k, !["previous"] = slots["next"],
                                !["next"] = Nil],
                     {"current", "previous"})
        \/ /\ k \in initiator /\ slots["next"] = Nil
           /\ Rotate([slots EXCEPT !["current"] = k, !["previous"] = slots["current"]],
                     {"previous"})
        \/ /\ k \notin initiator
           /\ Rotate([slots EXCEPT !["next"] = k, !["previous"] = Nil],
                     {"next"})
    /\ Goto(t, "replaceIndex")
    /\ UNCHANGED <<handshake, hashed, lock, initiator, invalid, created, confirmed,
                   inUse, removal, key>>

(* AddNewKeypair, under the keypair update lock. *)
AddNewKeypair(t) ==
    /\ At(t, "addKeypair")
    /\ LET k == key[t] IN
        \/ /\ k \in initiator /\ slots["next"] # Nil
           /\ Rotate([slots EXCEPT !["current"] = k, !["previous"] = slots["next"],
                                !["next"] = Nil],
                     {"current", "previous"})
        \/ /\ k \in initiator /\ slots["next"] = Nil
           /\ Rotate([slots EXCEPT !["current"] = k, !["previous"] = slots["current"]],
                     {"previous"})
        \/ /\ k \notin initiator
           /\ Rotate([slots EXCEPT !["next"] = k, !["previous"] = Nil],
                     {"next", "previous"})
    /\ Goto(t, "replaceIndex")
    /\ UNCHANGED <<handshake, hashed, lock, initiator, invalid, created, confirmed,
                   inUse, removal, key>>

(* IndexHashtableReplace: the keypair takes the handshake's place in the table
   if it still has one; protection and lock are released.                   *)
ReplaceIndex(t) ==
    /\ At(t, "replaceIndex")
    /\ index' = IF hashed THEN index \cup {key[t]} ELSE index
    /\ hashed' = FALSE
    /\ inUse' = inUse \ {t}
    /\ lock' = Nil
    /\ key' = [key EXCEPT ![t] = Nil]
    /\ Goto(t, "idle")
    /\ UNCHANGED <<handshake, slots, refcount, initiator, invalid, created, confirmed,
                   removal>>

-----------------------------------------------------------------------------
(* HANDSHAKE_TX_CLEAR in PacketHandshakeTxWorker, whose entry holds InUse:
   NoiseHandshakeClear, then NoiseKeypairsClear.  DeviceStop does the same. *)
HandshakeClear(t) ==
    /\ At(t, "idle") /\ InUseOpen /\ lock = Nil
    /\ handshake' = "ZEROED"
    /\ hashed' = FALSE
    /\ inUse' = inUse \cup {t}
    /\ Goto(t, "clearKeypairs")
    /\ UNCHANGED <<lock, keyVars, removal, key>>

KeypairsClear(t) ==
    /\ At(t, "clearKeypairs")
    /\ Rotate(Empty, Slots)
    /\ inUse' = inUse \ {t}
    /\ Goto(t, "idle")
    /\ UNCHANGED <<handshake, hashed, lock, initiator, invalid, created, confirmed,
                   removal, key>>

(* NoiseExpireCurrentPeerKeypairs, for a configuration request.  Like PeerRemove
   it runs under DeviceUpdateLock.                                          *)
ExpireHandshake(t) ==
    /\ At(t, "idle") /\ removal = "no" /\ lock = Nil
    /\ \A u \in Threads : ~At(u, "expireKeypairs")
    /\ handshake' = "ZEROED"
    /\ hashed' = FALSE
    /\ Goto(t, "expireKeypairs")
    /\ UNCHANGED <<lock, keyVars, inUse, removal, key>>

ExpireKeypairs(t) ==
    /\ At(t, "expireKeypairs")
    /\ invalid' = invalid \cup ({slots["next"], slots["current"]} \ {Nil})
    /\ Goto(t, "idle")
    /\ UNCHANGED <<handshake, hashed, lock, slots, refcount, initiator, index, created,
                   confirmed, inUse, removal, key>>

-----------------------------------------------------------------------------
(* A packet takes a reference to its keypair: PacketConsumeData from the index
   table, PacketSendStagedPackets from the current slot.                    *)
Take(d, k, label) ==
    /\ refcount[k] > 0
    /\ refcount' = [refcount EXCEPT ![k] = @ + 1]
    /\ key' = [key EXCEPT ![d] = k]
    /\ Goto(d, label)
    /\ UNCHANGED <<handshake, hashed, lock, slots, initiator, invalid, index, created,
                   confirmed, inUse, removal>>

Receive(d) ==
    /\ At(d, "idle") /\ PeerReachable
    /\ \E k \in index : Take(d, k, "checkNext")

Send(d) ==
    /\ At(d, "idle") /\ PeerReachable
    /\ \E k \in {slots["current"]} \ (invalid \cup {Nil}) : Take(d, k, "sending")

(* outInvalid: the key is too old or its counter exhausted. *)
SendRefused(d) ==
    /\ At(d, "sending")
    /\ invalid' = invalid \cup {key[d]}
    /\ Goto(d, "put")
    /\ UNCHANGED <<handshake, hashed, lock, slots, refcount, initiator, index, created,
                   confirmed, inUse, removal, key>>

(* A packet that fails to decrypt only puts its keypair. *)
Discard(d) ==
    /\ At(d, "checkNext")
    /\ Goto(d, "put")
    /\ UNCHANGED <<handshake, hashed, lock, keyVars, inUse, removal, key>>

(* NoiseReceivedWithKeypair, for an authentic packet: the check without the
   lock ...                                                                 *)
CheckNext(d) ==
    /\ At(d, "checkNext")
    /\ confirmed' = confirmed \cup {key[d]}
    /\ Goto(d, IF slots["next"] = key[d] THEN "confirm" ELSE "put")
    /\ UNCHANGED <<handshake, hashed, lock, slots, refcount, initiator, invalid, index,
                   created, inUse, removal, key>>

\* Mutant: no second check under the lock.
ConfirmUnchecked(d) ==
    /\ At(d, "confirm")
    /\ Rotate([slots EXCEPT !["current"] = key[d], !["previous"] = slots["current"],
                     !["next"] = Nil],
              {"previous"})
    /\ Goto(d, "put")
    /\ UNCHANGED <<handshake, hashed, lock, initiator, invalid, created, confirmed,
                   inUse, removal, key>>

(* ... and the second check and the slide under the lock. *)
Confirm(d) ==
    /\ At(d, "confirm")
    /\ \/ /\ slots["next"] = key[d]
          /\ Rotate([slots EXCEPT !["current"] = key[d], !["previous"] = slots["current"],
                           !["next"] = Nil],
                    {"previous"})
       \/ /\ slots["next"] # key[d]
          /\ UNCHANGED <<slots, refcount, index>>
    /\ Goto(d, "put")
    /\ UNCHANGED <<handshake, hashed, lock, initiator, invalid, created, confirmed,
                   inUse, removal, key>>

(* NoiseKeypairPut(Keypair, FALSE); KeypairFreeKref with the last reference. *)
PutKeypair(d) ==
    /\ At(d, "put") \/ At(d, "sending")
    /\ refcount' = [refcount EXCEPT ![key[d]] = @ - 1]
    /\ index' = IF refcount[key[d]] = 1 THEN index \ {key[d]} ELSE index
    /\ key' = [key EXCEPT ![d] = Nil]
    /\ Goto(d, "idle")
    /\ UNCHANGED <<handshake, hashed, lock, slots, initiator, invalid, created,
                   confirmed, inUse, removal>>

-----------------------------------------------------------------------------
(* PeerRemove, under DeviceUpdateLock, clears the keypairs ... *)
RemoveClear ==
    /\ removal = "no"
    /\ \A t \in Threads : ~At(t, "expireKeypairs")
    /\ Rotate(Empty, Slots)
    /\ removal' = "cleared"
    /\ UNCHANGED <<handshake, hashed, lock, initiator, invalid, created, confirmed,
                   inUse, pc, key>>

(* ... closes InUse ... *)
RemoveClose ==
    /\ removal = "cleared"
    /\ removal' = "closed"
    /\ UNCHANGED <<handshake, hashed, lock, keyVars, inUse, pc, key>>

(* ... and waits for its holders, then puts the peer. *)
RemoveDone ==
    /\ removal = "closed" /\ inUse = {}
    /\ removal' = "removed"
    /\ UNCHANGED <<handshake, hashed, lock, keyVars, inUse, pc, key>>

(* The last peer reference goes: KrefRelease takes the handshake out of the
   index, RcuRelease frees the peer.                                        *)
RcuRelease ==
    /\ removal = "removed" /\ \A a \in Actors : At(a, "idle")
    /\ hashed' = FALSE
    /\ removal' = "freed"
    /\ UNCHANGED <<handshake, lock, keyVars, inUse, pc, key>>

-----------------------------------------------------------------------------
ThreadStep(t) ==
    \/ CreateInitiation(t) \/ ConsumeInitiation(t) \/ CreateResponse(t)
    \/ ConsumeResponse(t) \/ AcceptResponse(t)
    \/ BeginSession(t) \/ AddNewKeypair(t) \/ ReplaceIndex(t)
    \/ HandshakeClear(t) \/ KeypairsClear(t)
    \/ ExpireHandshake(t) \/ ExpireKeypairs(t)

PacketStep(d) ==
    \/ Receive(d) \/ Send(d) \/ SendRefused(d) \/ Discard(d) \/ CheckNext(d)
    \/ Confirm(d) \/ PutKeypair(d)

Next ==
    \/ \E t \in Threads : ThreadStep(t)
    \/ \E d \in Packets : PacketStep(d)
    \/ RemoveClear \/ RemoveClose \/ RemoveDone \/ RcuRelease

Spec == Init /\ [][Next]_vars

-----------------------------------------------------------------------------
HandshakeStates ==
    {"ZEROED", "CREATED_INITIATION", "CONSUMED_INITIATION", "CREATED_RESPONSE",
     "CONSUMED_RESPONSE"}

ActorStates ==
    {"idle", "createResponse", "acceptResponse", "beginSession", "addKeypair",
     "replaceIndex", "clearKeypairs", "expireKeypairs", "checkNext", "sending",
     "confirm", "put"}

TypeOK ==
    /\ handshake \in HandshakeStates
    /\ hashed \in BOOLEAN
    /\ lock \in Threads \cup {Nil}
    /\ slots \in [Slots -> Keypairs \cup {Nil}]
    /\ refcount \in [Keypairs -> Int]
    /\ initiator \subseteq Keypairs /\ invalid \subseteq Keypairs
    /\ index \subseteq Keypairs
    /\ created \subseteq Keypairs /\ confirmed \subseteq Keypairs
    /\ inUse \subseteq Threads
    /\ removal \in {"no", "cleared", "closed", "removed", "freed"}
    /\ pc \in [Actors -> ActorStates]
    /\ key \in [Actors -> Keypairs \cup {Nil}]

Adding(k) == \E t \in Threads : At(t, "addKeypair") /\ key[t] = k

(* "We can't use the new keypair until we receive confirmation via the first
   data packet" (noise.c:257): what a responder sends with has been confirmed
   by an authentic packet, however confirmations, new sessions and clears
   interleave.                                                              *)
KeyConfirmed ==
    slots["current"] \in Keypairs \ initiator => slots["current"] \in confirmed

(* A keypair's reference count is the number of slots and packets that have it,
   plus the session being begun with it; no keypair is in two slots.  So one
   in a slot is never freed, and one that is nowhere is.                    *)
RefcountExact ==
    /\ \A r, s \in Slots : slots[r] = slots[s] /\ slots[r] # Nil => r = s
    /\ \A k \in Keypairs :
        refcount[k] = Cardinality({s \in Slots : slots[s] = k})
                      + Cardinality({d \in Packets : key[d] = k})
                      + (IF Adding(k) THEN 1 ELSE 0)

(* The stations of a keypair's life, in order. *)
Age(k) ==
    IF k \notin created \/ Adding(k) THEN 0
    ELSE IF slots["next"] = k THEN 1
    ELSE IF slots["current"] = k THEN 2
    ELSE IF slots["previous"] = k THEN 3
    ELSE 4

(* AddNewKeypair, NoiseReceivedWithKeypair and NoiseKeypairsClear only move a
   keypair forward: an old key is never sent with again, a dropped one never
   comes back into a slot.                                                  *)
KeysOnlyAge == [][\A k \in Keypairs : Age(k) <= Age(k)']_vars

(* "Remove ourself from dynamic runtime lookup structures, now that the last
   reference is gone" (peer.c:134): when the peer is freed, no keypair of it is
   left in the index table or in its slots.                                 *)
FreedPeerHasNoKeys == removal = "freed" => index = {} /\ slots = Empty
=============================================================================
