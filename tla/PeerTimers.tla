----------------------------- MODULE PeerTimers -----------------------------
(***************************************************************************)
(* The five timers of a peer (driver/timers.c), the handshake send queue   *)
(* they feed (HandshakeTxAction, HandshakeTxSerialEntry in driver/send.c)  *)
(* and what stops them: DeviceStop and PeerRemove.                         *)
(*                                                                         *)
(* Every thread has a list of operations it has yet to do; a handler is    *)
(* the list it begins with, a call inside it puts the callee's operations  *)
(* in front.  An operation is at most one access to what other threads     *)
(* see, together with the accounting of InUse and Refcount next to it.     *)
(* Calls to ModPeerTimer and TimerDelete that follow each other are one    *)
(* operation: module TimerPrimitives takes them apart.  The kernel's timer *)
(* queue and DPC queue are sets: KeSetCoalescableTimer puts a timer in the *)
(* first, its expiry moves it to the second, one DPC runs at a time, and   *)
(* Pending says that the timer is in one of the two.                       *)
(*                                                                         *)
(* Time is what the code can tell apart: whether LastSentHandshake is less *)
(* than REKEY_TIMEOUT ago (recent).  The retransmission timer set since    *)
(* then runs longer than that; the others may expire at any time.          *)
(*                                                                         *)
(* The age of the keys and the success of allocations and cryptography are *)
(* free choices.  KeepKeyFresh, nonces and the packets themselves appear   *)
(* only as far as they decide which timers move.                           *)
(***************************************************************************)
EXTENDS Integers, Sequences, SequencesExt, FiniteSets, FiniteSetsExt

CONSTANTS
    NetThreads,            \* threads that send, receive and complete packets
    MAX_TIMER_HANDSHAKES,
    MaxInFlight,           \* bound: batches in the encrypt queue (then it is full)
    MaxCalls,              \* bound: packets and messages from outside
    MaxRequests,           \* bound: configuration requests
    MaxEvents,             \* bound: both together
    Expiring,              \* bound: timers short enough to expire
    Intervals,             \* values for PersistentKeepaliveInterval
    Faults                 \* whether allocations and cryptography may fail

Dpc == "dpc"                  \* the processor's DPC queue
HandshakeTx == "handshakeTx"  \* the worker of HandshakeTxThreads
Config == "config"            \* the holder of DeviceUpdateLock
Threads == NetThreads \cup {Dpc, HandshakeTx, Config}

Retransmit == "TimerRetransmitHandshake"
Keepalive == "TimerSendKeepalive"
NewHandshake == "TimerNewHandshake"
ZeroKeys == "TimerZeroKeyMaterial"
Persistent == "TimerPersistentKeepalive"
Timers == {Retransmit, Keepalive, NewHandshake, ZeroKeys, Persistent}

ASSUME PeerTimersAssumption ==
    /\ NetThreads \cap {Dpc, HandshakeTx, Config} = {} /\ IsFiniteSet(NetThreads)
    /\ MAX_TIMER_HANDSHAKES \in Nat
    /\ MaxInFlight \in Nat /\ MaxCalls \in Nat /\ MaxRequests \in Nat /\ MaxEvents \in Nat
    /\ Expiring \subseteq Timers
    /\ Intervals \subseteq Nat /\ 0 \in Intervals
    /\ Faults \in BOOLEAN

VARIABLES
    isUp,        \* Device->IsUp
    paused,      \* between NDIS's calls of Pause and Restart
    linked,      \* the peer is in the device's list and lookup tables
    closing,     \* ExWaitForRundownProtectionRelease(&InUse) was called
    inUse,       \* holders of InUse
    refs,        \* Refcount
    armed,       \* timers in the kernel's timer queue
    queued,      \* timers whose DPC is queued
    todo,        \* per thread, the operations left of its handler
    attempts,    \* TimerHandshakeAttempts
    needAnother, \* TimerNeedAnotherKeepalive
    lastMinute,  \* SentLastminuteHandshake
    interval,    \* PersistentKeepaliveInterval
    recent,      \* LastSentHandshake is less than REKEY_TIMEOUT ago
    covered,     \* TimerRetransmitHandshake was set since LastSentHandshake was written
    action,      \* HandshakeTxAction
    entry,       \* HandshakeTxSerialEntry: off the list, on it, or taken
    requeue,     \* HandshakeTxSerialEntry.Requeue
    staged,      \* StagedPacketQueue is not empty
    inFlight,    \* batches of the peer between PacketCreateData and PacketPeerTxWork
    initiated,   \* the handshake's State is HANDSHAKE_CREATED_INITIATION
    keys,        \* no session keys, some, or some that TimerZeroKeyMaterial gave up
    calls,       \* bound: packets and messages so far
    requests     \* bound: configuration requests so far

timerVars == <<armed, queued>>
handshakeVars == <<attempts, lastMinute, recent, covered>>
queueVars == <<action, entry, requeue>>
countVars == <<inUse, refs>>
packetVars == <<staged, inFlight>>
sessionVars == <<initiated, keys>>
deviceVars == <<isUp, paused, linked, closing, interval, calls, requests>>
peerVars == <<deviceVars, countVars, timerVars, needAnother, handshakeVars,
              queueVars, packetVars, sessionVars>>
vars == <<peerVars, todo>>

(* A run of calls to TimerDelete and ModPeerTimer: which timers to delete, *)
(* which to set, which to set if they are not pending, and whether it      *)
(* includes TimersAnyAuthenticatedPacketTraversal.                         *)
Calls == [del : SUBSET Timers, mod : SUBSET Timers, idle : SUBSET Timers, traversal : BOOLEAN]

PlainOps ==
    {"Retransmit", "Zero", "AnotherKeepalive", "SendKeepalive", "KeepaliveIfEnabled",
     "SendStaged", "CreateData", "Purge", "SendRetry", "SendNew", "Enqueue", "Take",
     "Initiate", "CreateInitiation", "Initiated", "Stamp", "Retire", "Release", "Put",
     "Stage", "KeepKeyFreshSend", "KeepKeyFreshReceive", "Completed", "DataReceived",
     "Respond", "CloseInUse", "WaitInUse", "Flush", "ClearHandshake", "ClearKeys",
     "ResetLastSent"}
Ops == (PlainOps \X {""}) \cup ({"BeginSession"} \X {"initiator", "responder"})
       \cup ({"Timers"} \X Calls)

Do(name) == <<name, "">>

Delete(ts) == <<"Timers", [del |-> ts, mod |-> {}, idle |-> {}, traversal |-> FALSE]>>
Mod(ts) == <<"Timers", [del |-> {}, mod |-> ts, idle |-> {}, traversal |-> FALSE]>>
ModIfIdle(ts) == <<"Timers", [del |-> {}, mod |-> {}, idle |-> ts, traversal |-> FALSE]>>

(* The timers these functions set, the second only if it is not pending. *)
TimersSessionDerived == {ZeroKeys}
TimersDataSent == {NewHandshake}

(* TimersAnyAuthenticatedPacketTraversal and TimersAnyAuthenticatedPacketSent, *)
(* with TimersSessionDerived before or TimersDataSent after them.              *)
PacketSent(mod, idle) ==
    <<"Timers", [del |-> {Keepalive}, mod |-> mod, idle |-> idle, traversal |-> TRUE]>>

(* TimersAnyAuthenticatedPacketReceived and -Traversal. *)
PacketReceived ==
    <<"Timers", [del |-> {NewHandshake}, mod |-> {}, idle |-> {}, traversal |-> TRUE]>>

TimersStop == <<Delete(Timers), Do("Flush")>>

TypeOK ==
    /\ isUp \in BOOLEAN /\ paused \in BOOLEAN /\ linked \in BOOLEAN /\ closing \in BOOLEAN
    /\ inUse \in Nat /\ refs \in Nat
    /\ armed \subseteq Timers /\ queued \subseteq Timers
    /\ todo \in [Threads -> Seq(Ops)]
    /\ attempts \in 0 .. MAX_TIMER_HANDSHAKES + 1
    /\ needAnother \in BOOLEAN /\ lastMinute \in BOOLEAN
    /\ interval \in Intervals
    /\ recent \in BOOLEAN /\ covered \in BOOLEAN
    /\ action \in {"NONE", "SEND", "CLEAR"}
    /\ entry \in {"off", "on", "taken"} /\ requeue \in BOOLEAN
    /\ staged \in BOOLEAN /\ inFlight \in 0 .. MaxInFlight
    /\ initiated \in BOOLEAN /\ keys \in {"none", "live", "outdated"}
    /\ calls \in 0 .. MaxCalls /\ requests \in 0 .. MaxRequests

(* The peer when the model begins: just created, on a device that is up,   *)
(* down or paused (and may have its interval already if it is not up);     *)
(* with an idle session; or waiting for the response to an initiation that *)
(* a staged packet asked for.                                              *)
Created ==
    /\ keys = "none" /\ ~initiated
    /\ paused \/ ~isUp \/ interval = 0

Established == keys = "live" /\ ~initiated /\ isUp /\ ~paused
Waiting == keys = "none" /\ initiated /\ isUp /\ ~paused

Init ==
    /\ isUp \in BOOLEAN /\ paused \in BOOLEAN
    /\ linked = TRUE /\ closing = FALSE
    /\ interval \in Intervals
    /\ inUse = 0 /\ refs = 1
    /\ keys \in {"none", "live"} /\ initiated \in BOOLEAN
    /\ Created \/ Established \/ Waiting
    /\ armed = (IF Established THEN {ZeroKeys} ELSE {})
               \cup (IF Waiting THEN {Retransmit} ELSE {})
               \cup (IF ~Created /\ interval # 0 THEN {Persistent} ELSE {})
    /\ queued = {}
    /\ todo = [th \in Threads |-> <<>>]
    /\ attempts = 0 /\ needAnother = FALSE /\ lastMinute = FALSE
    /\ recent = Waiting /\ covered = Waiting
    /\ action = "NONE" /\ entry = "off" /\ requeue = FALSE
    /\ staged = Waiting /\ inFlight = 0
    /\ calls = 0 /\ requests = 0

(* th is about to do the operation called name. *)
At(th, name) == todo[th] # <<>> /\ Head(todo[th])[1] = name
Arg(th) == Head(todo[th])[2]

(* th is done with its operation and does ops before the rest. *)
Continue(th, ops) == todo' = [todo EXCEPT ![th] = ops \o Tail(@)]

-----------------------------------------------------------------------------
(* ModPeerTimer and TimerDelete. *)

TimerIsPending(t) == t \in armed \cup queued

(* ModPeerTimer sets nothing on a device that is down or a peer that goes. *)
Settable(ts) == IF isUp /\ ~closing THEN ts ELSE {}

TimersAnyAuthenticatedPacketTraversal == IF interval # 0 THEN {Persistent} ELSE {}

(* KeRemoveQueueDpc is called only if the timer was not set. *)
DeleteAndMod(th) ==
    /\ At(th, "Timers")
    /\ LET c == Arg(th)
           set == c.mod \cup {t \in c.idle : ~TimerIsPending(t)}
                  \cup (IF c.traversal THEN TimersAnyAuthenticatedPacketTraversal ELSE {})
       IN  /\ armed' = (armed \ c.del) \cup Settable(set)
           /\ queued' = queued \ (c.del \ armed)
    /\ Continue(th, <<>>)
    /\ UNCHANGED <<deviceVars, countVars, needAnother, handshakeVars, queueVars,
                   packetVars, sessionVars>>

-----------------------------------------------------------------------------
(* The kernel: a timer expires, its DPC runs, time passes. *)

Expire(t) ==
    /\ t \in armed \cap Expiring
    /\ t = Retransmit => ~(recent /\ covered)
    /\ armed' = armed \ {t}
    /\ queued' = queued \cup {t}
    /\ UNCHANGED <<deviceVars, countVars, todo, needAnother, handshakeVars,
                   queueVars, packetVars, sessionVars>>

RekeyTimeoutPasses ==
    /\ recent
    /\ recent' = FALSE
    /\ covered' = FALSE
    /\ UNCHANGED <<deviceVars, countVars, timerVars, todo, needAnother, attempts,
                   lastMinute, queueVars, packetVars, sessionVars>>

-----------------------------------------------------------------------------
(* The callbacks, as operations. *)

ExpiredRetransmitHandshake == <<Do("Retransmit")>>
ExpiredSendKeepalive == <<Do("SendKeepalive"), Do("AnotherKeepalive")>>
ExpiredNewHandshake == <<Do("SendNew")>>
ExpiredZeroKeyMaterial == <<Do("Zero")>>
ExpiredSendPersistentKeepalive == <<Do("KeepaliveIfEnabled")>>

TimerDpcCallback(t) ==
    /\ t \in queued
    /\ todo[Dpc] = <<>>
    /\ queued' = queued \ {t}
    /\ todo' = [todo EXCEPT ![Dpc] = 
                  CASE t = Retransmit   -> ExpiredRetransmitHandshake
                    [] t = Keepalive    -> ExpiredSendKeepalive
                    [] t = NewHandshake -> ExpiredNewHandshake
                    [] t = ZeroKeys     -> ExpiredZeroKeyMaterial
                    [] t = Persistent   -> ExpiredSendPersistentKeepalive]
    /\ UNCHANGED <<deviceVars, countVars, armed, needAnother, handshakeVars,
                   queueVars, packetVars, sessionVars>>

(* ExpiredRetransmitHandshake: give up, or count and try again. *)
GiveUp(th) ==
    /\ At(th, "Retransmit")
    /\ attempts > MAX_TIMER_HANDSHAKES
    /\ Continue(th, <<Delete({Keepalive}), Do("Purge"), ModIfIdle({ZeroKeys})>>)
    /\ UNCHANGED peerVars

Retry(th) ==
    /\ At(th, "Retransmit")
    /\ attempts <= MAX_TIMER_HANDSHAKES
    /\ attempts' = attempts + 1
    /\ Continue(th, <<Do("SendRetry")>>)
    /\ UNCHANGED <<deviceVars, countVars, timerVars, needAnother, lastMinute, recent,
                   covered, queueVars, packetVars, sessionVars>>

AnotherKeepalive(th) ==
    /\ At(th, "AnotherKeepalive")
    /\ needAnother' = FALSE
    /\ Continue(th, IF needAnother THEN <<Mod({Keepalive})>> ELSE <<>>)
    /\ UNCHANGED <<deviceVars, countVars, timerVars, handshakeVars, queueVars,
                   packetVars, sessionVars>>

KeepaliveIfEnabled(th) ==
    /\ At(th, "KeepaliveIfEnabled")
    /\ Continue(th, IF interval # 0 THEN <<Do("SendKeepalive")>> ELSE <<>>)
    /\ UNCHANGED peerVars

-----------------------------------------------------------------------------
(* Sending what is staged. *)

PacketSendKeepalive(th) ==
    /\ At(th, "SendKeepalive")
    /\ \/ /\ staged' = TRUE
          /\ Continue(th, <<Do("SendStaged")>>)
       \/ /\ Faults /\ ~staged
          /\ Continue(th, <<>>)
          /\ UNCHANGED staged
    /\ UNCHANGED <<deviceVars, countVars, timerVars, needAnother, handshakeVars,
                   queueVars, inFlight, sessionVars>>

(* The current key may be missing, not confirmed, or too old. *)
PacketSendStagedPackets(th) ==
    /\ At(th, "SendStaged")
    /\ \/ /\ ~staged
          /\ Continue(th, <<>>)
          /\ UNCHANGED <<refs, staged>>
       \/ /\ staged /\ keys # "none"
          /\ staged' = FALSE
          /\ refs' = refs + 1
          /\ Continue(th, <<Do("CreateData")>>)
       \/ /\ staged
          /\ Continue(th, <<Do("SendNew")>>)
          /\ UNCHANGED <<refs, staged>>
    /\ UNCHANGED <<deviceVars, inUse, timerVars, needAnother, handshakeVars, queueVars,
                   inFlight, sessionVars>>

PacketCreateData(th) ==
    /\ At(th, "CreateData")
    /\ Continue(th, <<>>)
    /\ \/ /\ closing \/ inFlight = MaxInFlight
          /\ refs' = refs - 1
          /\ UNCHANGED <<inUse, inFlight>>
       \/ /\ ~closing /\ inFlight < MaxInFlight
          /\ inFlight' = inFlight + 1
          /\ inUse' = inUse + 1
          /\ UNCHANGED refs
    /\ UNCHANGED <<deviceVars, timerVars, needAnother, handshakeVars, queueVars, staged,
                   sessionVars>>

PacketPurgeStagedPackets(th) ==
    /\ At(th, "Purge")
    /\ staged' = FALSE
    /\ Continue(th, <<>>)
    /\ UNCHANGED <<deviceVars, countVars, timerVars, needAnother, handshakeVars,
                   queueVars, inFlight, sessionVars>>

-----------------------------------------------------------------------------
(* The handshake send queue. *)

(* InUse, PeerGet and the write to HandshakeTxAction. *)
SetAction(th, a) ==
    \/ /\ closing
       /\ Continue(th, <<>>)
       /\ UNCHANGED <<countVars, action>>
    \/ /\ ~closing
       /\ inUse' = inUse + 1
       /\ refs' = refs + 1
       /\ action' = a
       /\ Continue(th, <<Do("Enqueue")>>)

\* Mutant: a retry counts as a new attempt.
ResetAttempts(th) ==
    /\ At(th, "SendRetry") \/ At(th, "SendNew")
    /\ attempts' = 0
    /\ \/ /\ recent
          /\ Continue(th, <<>>)
          /\ UNCHANGED <<countVars, action>>
       \/ ~recent /\ SetAction(th, "SEND")
    /\ UNCHANGED <<deviceVars, timerVars, needAnother, lastMinute, recent, covered, entry,
                   requeue, packetVars, sessionVars>>

PacketSendQueuedHandshakeInitiation(th) ==
    /\ At(th, "SendRetry") \/ At(th, "SendNew")
    /\ attempts' = IF At(th, "SendNew") THEN 0 ELSE attempts
    /\ \/ /\ recent
          /\ Continue(th, <<>>)
          /\ UNCHANGED <<countVars, action>>
       \/ ~recent /\ SetAction(th, "SEND")
    /\ UNCHANGED <<deviceVars, timerVars, needAnother, lastMinute, recent, covered, entry,
                   requeue, packetVars, sessionVars>>

(* The keys are outdated from here on. *)
ZeroKeyMaterial(th) ==
    /\ At(th, "Zero")
    /\ SetAction(th, "CLEAR")
    /\ keys' = IF keys = "live" /\ ~closing THEN "outdated" ELSE keys
    /\ UNCHANGED <<deviceVars, timerVars, needAnother, handshakeVars, entry, requeue,
                   packetVars, initiated>>

\* Mutant: the references are not dropped when the entry is busy.
EnqueueKeepsReferences(th) ==
    /\ At(th, "Enqueue")
    /\ requeue' = (requeue \/ entry # "off")
    /\ entry' = IF entry = "off" THEN "on" ELSE entry
    /\ Continue(th, <<>>)
    /\ UNCHANGED <<deviceVars, countVars, timerVars, needAnother, handshakeVars, action,
                   packetVars, sessionVars>>

(* PeerSerialEnqueueIfNotBusy; the entry on the list keeps the references. *)
EnqueueEntry(th) ==
    /\ At(th, "Enqueue")
    /\ \/ /\ entry # "off"
          /\ requeue' = TRUE
          /\ inUse' = inUse - 1
          /\ refs' = refs - 1
          /\ UNCHANGED entry
       \/ /\ entry = "off"
          /\ entry' = "on"
          /\ UNCHANGED <<countVars, requeue>>
    /\ Continue(th, <<>>)
    /\ UNCHANGED <<deviceVars, timerVars, needAnother, handshakeVars, action, packetVars,
                   sessionVars>>

DequeueEntry ==
    /\ todo[HandshakeTx] = <<>>
    /\ entry = "on"
    /\ entry' = "taken"
    /\ todo' = [todo EXCEPT ![HandshakeTx] = <<Do("Take")>>]
    /\ UNCHANGED <<deviceVars, countVars, timerVars, needAnother, handshakeVars, action,
                   requeue, packetVars, sessionVars>>

PacketHandshakeTxWorker(th) ==
    /\ At(th, "Take")
    /\ action' = "NONE"
    /\ Continue(th, CASE action = "SEND"  -> <<Do("Initiate"), Do("Retire")>>
                      [] action = "CLEAR" -> <<Do("ClearHandshake"), Do("ClearKeys"), Do("Retire")>>
                      [] action = "NONE"  -> <<Do("Retire")>>)
    /\ UNCHANGED <<deviceVars, countVars, timerVars, needAnother, handshakeVars, entry,
                   requeue, packetVars, sessionVars>>

RetireEntry(th) ==
    /\ At(th, "Retire")
    /\ requeue' = FALSE
    /\ entry' = IF requeue THEN "on" ELSE "off"
    /\ Continue(th, IF requeue THEN <<>> ELSE <<Do("Release")>>)
    /\ UNCHANGED <<deviceVars, countVars, timerVars, needAnother, handshakeVars, action,
                   packetVars, sessionVars>>

-----------------------------------------------------------------------------
(* Handshake messages and sessions. *)

PacketSendHandshakeInitiation(th) ==
    /\ At(th, "Initiate")
    /\ \/ /\ ~recent
          /\ recent' = TRUE
          /\ covered' = FALSE
          /\ Continue(th, <<Do("CreateInitiation")>>)
       \/ /\ recent \/ Faults
          /\ Continue(th, <<>>)
          /\ UNCHANGED <<recent, covered>>
    /\ UNCHANGED <<deviceVars, countVars, timerVars, needAnother, attempts, lastMinute,
                   queueVars, packetVars, sessionVars>>

NoiseHandshakeCreateInitiation(th) ==
    /\ At(th, "CreateInitiation")
    /\ \/ /\ initiated' = TRUE
          /\ Continue(th, <<PacketSent({}, {}), Do("Initiated")>>)
       \/ /\ Faults
          /\ Continue(th, <<>>)
          /\ UNCHANGED initiated
    /\ UNCHANGED <<deviceVars, countVars, timerVars, needAnother, handshakeVars, queueVars,
                   packetVars, keys>>

(* The write to LastSentHandshake just before the message is sent, and *)
(* after it TimersHandshakeInitiated.                                  *)
TimersHandshakeInitiated(th) ==
    /\ At(th, "Initiated")
    /\ recent' = TRUE
    /\ covered' = (Settable({Retransmit}) # {})
    /\ armed' = armed \cup Settable({Retransmit})
    /\ Continue(th, <<>>)
    /\ UNCHANGED <<deviceVars, countVars, queued, needAnother, attempts, lastMinute,
                   queueVars, packetVars, sessionVars>>

(* The same write for a response. *)
Stamp(th) ==
    /\ At(th, "Stamp")
    /\ recent' = TRUE
    /\ covered' = FALSE
    /\ Continue(th, <<>>)
    /\ UNCHANGED <<deviceVars, countVars, timerVars, needAnother, attempts, lastMinute,
                   queueVars, packetVars, sessionVars>>

PacketSendHandshakeResponse(th) ==
    /\ At(th, "Respond")
    /\ \/ /\ recent' = TRUE
          /\ covered' = FALSE
          /\ Continue(th, <<<<"BeginSession", "responder">>>>)
       \/ /\ Faults
          /\ Continue(th, <<>>)
          /\ UNCHANGED <<recent, covered>>
    /\ UNCHANGED <<deviceVars, countVars, timerVars, needAnother, attempts, lastMinute,
                   queueVars, packetVars, sessionVars>>

(* NoiseHandshakeBeginSession, and what its two callers do with a session. *)
BeginSession(th) ==
    /\ At(th, "BeginSession")
    /\ \/ /\ ~closing
          /\ keys' = "live"
          /\ Continue(th, IF Arg(th) = "responder"
                          THEN <<PacketSent(TimersSessionDerived, {}), Do("Stamp")>>
                          ELSE <<Mod(TimersSessionDerived), Do("Completed"), Do("SendKeepalive")>>)
       \/ /\ closing \/ Faults
          /\ Continue(th, <<>>)
          /\ UNCHANGED keys
    /\ UNCHANGED <<deviceVars, countVars, timerVars, needAnother, handshakeVars, queueVars,
                   packetVars, initiated>>

TimersHandshakeComplete(th) ==
    /\ At(th, "Completed")
    /\ armed' = armed \ {Retransmit}
    /\ queued' = queued \ ({Retransmit} \ armed)
    /\ attempts' = 0
    /\ lastMinute' = FALSE
    /\ Continue(th, <<>>)
    /\ UNCHANGED <<deviceVars, countVars, needAnother, recent, covered, queueVars,
                   packetVars, sessionVars>>

TimersDataReceived(th) ==
    /\ At(th, "DataReceived")
    /\ \/ /\ TimerIsPending(Keepalive)
          /\ needAnother' = (needAnother \/ isUp)
          /\ UNCHANGED armed
       \/ /\ ~TimerIsPending(Keepalive)
          /\ armed' = armed \cup Settable({Keepalive})
          /\ UNCHANGED needAnother
    /\ Continue(th, <<>>)
    /\ UNCHANGED <<deviceVars, countVars, queued, handshakeVars, queueVars, packetVars,
                   sessionVars>>

(* The two functions KeepKeyFresh: the key may be due for replacement. *)
KeepKeyFreshSend(th) ==
    /\ At(th, "KeepKeyFreshSend")
    /\ \/ keys # "none" /\ Continue(th, <<Do("SendNew")>>)
       \/ Continue(th, <<>>)
    /\ UNCHANGED peerVars

KeepKeyFreshReceive(th) ==
    /\ At(th, "KeepKeyFreshReceive")
    /\ \/ /\ ~lastMinute /\ keys # "none"
          /\ lastMinute' = TRUE
          /\ Continue(th, <<Do("SendNew")>>)
       \/ /\ Continue(th, <<>>)
          /\ UNCHANGED lastMinute
    /\ UNCHANGED <<deviceVars, countVars, timerVars, needAnother, attempts, recent, covered,
                   queueVars, packetVars, sessionVars>>

NoiseHandshakeClear(th) ==
    /\ At(th, "ClearHandshake")
    /\ initiated' = FALSE
    /\ Continue(th, <<>>)
    /\ UNCHANGED <<deviceVars, countVars, timerVars, needAnother, handshakeVars, queueVars,
                   packetVars, keys>>

NoiseKeypairsClear(th) ==
    /\ At(th, "ClearKeys")
    /\ keys' = "none"
    /\ Continue(th, <<>>)
    /\ UNCHANGED <<deviceVars, countVars, timerVars, needAnother, handshakeVars, queueVars,
                   packetVars, initiated>>

NoiseResetLastSentHandshake(th) ==
    /\ At(th, "ResetLastSent")
    /\ recent' = FALSE
    /\ covered' = FALSE
    /\ Continue(th, <<>>)
    /\ UNCHANGED <<deviceVars, countVars, timerVars, needAnother, attempts, lastMinute,
                   queueVars, packetVars, sessionVars>>

(* ExReleaseRundownProtection and PeerPut at the end of a handler. *)
Release(th) ==
    /\ At(th, "Release")
    /\ inUse' = inUse - 1
    /\ refs' = refs - 1
    /\ Continue(th, <<>>)
    /\ UNCHANGED <<deviceVars, timerVars, needAnother, handshakeVars, queueVars, packetVars,
                   sessionVars>>

PeerPut(th) ==
    /\ At(th, "Put")
    /\ refs' = refs - 1
    /\ Continue(th, <<>>)
    /\ UNCHANGED <<deviceVars, inUse, timerVars, needAnother, handshakeVars, queueVars,
                   packetVars, sessionVars>>

-----------------------------------------------------------------------------
(* What comes from outside. *)

Begin(th, ops) ==
    /\ todo[th] = <<>>
    /\ todo' = [todo EXCEPT ![th] = ops]

Called ==
    /\ calls < MaxCalls /\ calls + requests < MaxEvents
    /\ calls' = calls + 1
    /\ UNCHANGED requests

Requested ==
    /\ requests < MaxRequests /\ calls + requests < MaxEvents
    /\ requests' = requests + 1
    /\ UNCHANGED calls

(* SendNetBufferLists: IsUp is read first, then the peer looked up. *)
SendNetBufferLists(n) ==
    /\ Called
    /\ isUp /\ ~paused
    /\ Begin(n, <<Do("Stage")>>)
    /\ UNCHANGED <<isUp, paused, linked, closing, interval, countVars, timerVars, needAnother,
                   handshakeVars, queueVars, packetVars, sessionVars>>

StagePacket(th) ==
    /\ At(th, "Stage")
    /\ \/ /\ linked
          /\ refs' = refs + 1
          /\ staged' = TRUE
          /\ Continue(th, <<Do("SendStaged"), Do("Put")>>)
       \/ /\ ~linked
          /\ Continue(th, <<>>)
          /\ UNCHANGED <<refs, staged>>
    /\ UNCHANGED <<deviceVars, inUse, timerVars, needAnother, handshakeVars, queueVars,
                   inFlight, sessionVars>>

(* PacketPeerTxWork takes a batch: dead, or encrypted (PacketCreateDataDone), *)
(* and then sent or not, all keepalives or not.                               *)
PacketPeerTxWork(n) ==
    /\ inFlight > 0
    /\ inFlight' = inFlight - 1
    /\ \/ Faults /\ Begin(n, <<Do("Release")>>)
       \/ \E dataSent \in BOOLEAN :
            Begin(n, <<PacketSent({}, IF dataSent THEN TimersDataSent ELSE {}),
                       Do("KeepKeyFreshSend"), Do("Release")>>)
    /\ UNCHANGED <<deviceVars, countVars, timerVars, needAnother, handshakeVars, queueVars,
                   staged, sessionVars>>

(* PacketConsumeDataDone on a packet whose place in the queue holds InUse. *)
PacketConsumeDataDone(n, confirms, data) ==
    /\ Called
    /\ refs > 0 /\ ~closing /\ keys # "none"
    /\ inUse' = inUse + 1
    /\ refs' = refs + 1
    /\ Begin(n, (IF confirms THEN <<Do("Completed"), Do("SendStaged")>> ELSE <<>>)
                \o <<Do("KeepKeyFreshReceive"), PacketReceived>>
                \o (IF data THEN <<Do("DataReceived")>> ELSE <<>>)
                \o <<Do("Release")>>)
    /\ UNCHANGED <<isUp, paused, linked, closing, interval, timerVars, needAnother, handshakeVars,
                   queueVars, packetVars, sessionVars>>

(* ReceiveHandshakePacket: an initiation finds its peer by public key,    *)
(* a response by index, which lives as long as the peer does.             *)
ReceiveInitiation(n) ==
    /\ Called
    /\ linked
    /\ refs' = refs + 1
    /\ initiated' = FALSE
    /\ Begin(n, <<Do("Respond"), PacketReceived, Do("Put")>>)
    /\ UNCHANGED <<isUp, paused, linked, closing, interval, inUse, timerVars, needAnother,
                   handshakeVars, queueVars, packetVars, keys>>

ReceiveResponse(n) ==
    /\ Called
    /\ refs > 0 /\ initiated
    /\ refs' = refs + 1
    /\ initiated' = FALSE
    /\ Begin(n, <<<<"BeginSession", "initiator">>, PacketReceived, Do("Put")>>)
    /\ UNCHANGED <<isUp, paused, linked, closing, interval, inUse, timerVars, needAnother,
                   handshakeVars, queueVars, packetVars, keys>>

-----------------------------------------------------------------------------
(* Configuration, under DeviceUpdateLock. *)

(* DeviceStart and DeviceStop, for this peer. *)
StartPeer == IF linked THEN <<Do("SendStaged"), Do("KeepaliveIfEnabled")>> ELSE <<>>

StopPeer ==
    IF linked
    THEN <<Do("Purge")>> \o TimersStop
         \o <<Do("ClearHandshake"), Do("ClearKeys"), Do("ResetLastSent")>>
    ELSE <<>>

Up ==
    /\ Requested
    /\ ~isUp
    /\ isUp' = TRUE
    /\ Begin(Config, StartPeer)
    /\ UNCHANGED <<paused, linked, closing, interval, countVars, timerVars, needAnother,
                   handshakeVars, queueVars, packetVars, sessionVars>>

Down ==
    /\ Requested
    /\ isUp
    /\ isUp' = FALSE
    /\ Begin(Config, StopPeer)
    /\ UNCHANGED <<paused, linked, closing, interval, countVars, timerVars, needAnother,
                   handshakeVars, queueVars, packetVars, sessionVars>>

(* Pause leaves IsUp set. *)
Pause ==
    /\ Requested
    /\ ~paused
    /\ paused' = TRUE
    /\ Begin(Config, IF isUp THEN StopPeer ELSE <<>>)
    /\ UNCHANGED <<isUp, linked, closing, interval, countVars, timerVars, needAnother,
                   handshakeVars, queueVars, packetVars, sessionVars>>

Restart ==
    /\ Requested
    /\ paused
    /\ paused' = FALSE
    /\ Begin(Config, IF isUp THEN StartPeer ELSE <<>>)
    /\ UNCHANGED <<isUp, linked, closing, interval, countVars, timerVars, needAnother,
                   handshakeVars, queueVars, packetVars, sessionVars>>

SetPersistentKeepalive(i) ==
    /\ Requested
    /\ linked
    /\ interval' = i
    /\ refs' = refs + 1
    /\ Begin(Config, (IF interval = 0 /\ i # 0 /\ isUp THEN <<Do("SendKeepalive")>> ELSE <<>>)
                     \o (IF isUp THEN <<Do("SendStaged")>> ELSE <<>>) \o <<Do("Put")>>)
    /\ UNCHANGED <<isUp, paused, linked, closing, inUse, timerVars, needAnother, handshakeVars,
                   queueVars, packetVars, sessionVars>>

PeerRemove ==
    /\ Requested
    /\ linked
    /\ linked' = FALSE
    /\ Begin(Config, <<Do("ClearKeys"), Do("CloseInUse"), Do("WaitInUse")>>
                     \o TimersStop \o <<Do("Put")>>)
    /\ UNCHANGED <<isUp, paused, closing, interval, countVars, timerVars, needAnother,
                   handshakeVars, queueVars, packetVars, sessionVars>>

CloseInUse(th) ==
    /\ At(th, "CloseInUse")
    /\ closing' = TRUE
    /\ Continue(th, <<>>)
    /\ UNCHANGED <<isUp, paused, linked, interval, calls, requests, countVars, timerVars, needAnother,
                   handshakeVars, queueVars, packetVars, sessionVars>>

WaitInUse(th) ==
    /\ At(th, "WaitInUse")
    /\ inUse = 0
    /\ Continue(th, <<>>)
    /\ UNCHANGED peerVars

(* KeFlushQueuedDpcs returns on a processor that has no DPC left. *)
KeFlushQueuedDpcs(th) ==
    /\ At(th, "Flush")
    /\ queued = {} /\ todo[Dpc] = <<>>
    /\ Continue(th, <<>>)
    /\ UNCHANGED peerVars

-----------------------------------------------------------------------------
CallbackStep(th) ==
    \/ GiveUp(th) \/ Retry(th) \/ AnotherKeepalive(th) \/ KeepaliveIfEnabled(th)

PacketStep(th) ==
    \/ PacketSendKeepalive(th) \/ PacketSendStagedPackets(th) \/ PacketCreateData(th)
    \/ PacketPurgeStagedPackets(th) \/ StagePacket(th)
    \/ TimersDataReceived(th)
    \/ KeepKeyFreshSend(th) \/ KeepKeyFreshReceive(th)

HandshakeStep(th) ==
    \/ PacketSendQueuedHandshakeInitiation(th) \/ ZeroKeyMaterial(th) \/ EnqueueEntry(th)
    \/ PacketHandshakeTxWorker(th) \/ RetireEntry(th)
    \/ PacketSendHandshakeInitiation(th) \/ NoiseHandshakeCreateInitiation(th)
    \/ TimersHandshakeInitiated(th) \/ Stamp(th)
    \/ PacketSendHandshakeResponse(th) \/ BeginSession(th) \/ TimersHandshakeComplete(th)
    \/ NoiseHandshakeClear(th) \/ NoiseKeypairsClear(th) \/ NoiseResetLastSentHandshake(th)

StopStep(th) == CloseInUse(th) \/ WaitInUse(th) \/ KeFlushQueuedDpcs(th)

(* The next operation of a thread inside a handler. *)
Step(th) ==
    \/ DeleteAndMod(th) \/ CallbackStep(th) \/ PacketStep(th) \/ HandshakeStep(th)
    \/ StopStep(th) \/ Release(th) \/ PeerPut(th)

NetCall(n) ==
    \/ SendNetBufferLists(n)
    \/ \E confirms, data \in BOOLEAN : PacketConsumeDataDone(n, confirms, data)
    \/ ReceiveInitiation(n)
    \/ ReceiveResponse(n)

ConfigCall ==
    \/ Up \/ Down \/ Pause \/ Restart
    \/ \E i \in Intervals : SetPersistentKeepalive(i)
    \/ PeerRemove

Next ==
    \/ \E th \in Threads : Step(th)
    \/ \E t \in Timers : Expire(t) \/ TimerDpcCallback(t)
    \/ RekeyTimeoutPasses
    \/ DequeueEntry
    \/ \E n \in NetThreads : NetCall(n) \/ PacketPeerTxWork(n)
    \/ ConfigCall

(* Threads run, time passes and set timers expire; nobody has to call. *)
Fairness ==
    /\ \A th \in Threads : WF_vars(Step(th))
    /\ \A t \in Timers : WF_vars(Expire(t)) /\ WF_vars(TimerDpcCallback(t))
    /\ WF_vars(RekeyTimeoutPasses)
    /\ WF_vars(DequeueEntry)
    /\ WF_vars(\E n \in NetThreads : PacketPeerTxWork(n))

Spec == Init /\ [][Next]_vars
FairSpec == Spec /\ Fairness

-----------------------------------------------------------------------------
\* What th will do that has one of these names; how much of it there is.
Holds(th, names) == {th} \X {k \in DOMAIN todo[th] : todo[th][k][1] \in names}
HeldBy(names) == Cardinality(UNION {Holds(th, names) : th \in Threads})
OnList == IF entry = "off" THEN 0 ELSE 1

(* Every holder of InUse and of a reference is a batch in flight, the     *)
(* entry of the handshake queue, or a thread that will let go of it.      *)
CountsExact ==
    /\ inUse = inFlight + OnList + HeldBy({"Enqueue", "Release"})
    /\ refs = (IF linked THEN 1 ELSE 0) + inFlight + OnList
              + HeldBy({"CreateData", "Enqueue", "Release", "Put"})

(* After the last call from outside a peer without persistent keepalive   *)
(* falls silent: handshakes are given up, keepalives end.                 *)
FallsSilent ==
    <>[](interval = 0 => armed = {} /\ queued = {} /\ entry = "off" /\ inFlight = 0)

(* An enabled persistent keepalive goes on while device and peer stay. *)
KeepaliveRecurs ==
    <>[](isUp /\ ~paused /\ linked /\ interval # 0 /\ todo[Config] = <<>>)
        => []<>(Persistent \in armed)

(* Session keys that the timer has given up get cleared, as long as any   *)
(* timer, queued work or running handler could still see to it.           *)
ZeroingNotForgotten ==
    keys = "outdated" =>
        \/ armed \cup queued # {}
        \/ entry # "off"
        \/ \E th \in Threads : todo[th] # <<>>
        \/ inFlight > 0
=============================================================================
