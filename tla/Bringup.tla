------------------------------ MODULE Bringup ------------------------------
(***************************************************************************)
(* Loading, starting, halting and unloading the driver (main.c, device.c,  *)
(* memory.c, socket.c WskInit/WskUnload).  Each of the four procedures     *)
(* takes its resources one by one, may fail at every one of them, and      *)
(* gives back what it took through a list of labels; HaltEx and Unload     *)
(* give back everything in an order of their own.  The socket layer is     *)
(* brought up lazily by the first adapter that is set up, with two         *)
(* adapters racing, and torn down by Unload.                               *)
(*                                                                         *)
(* A resource is a pair of its owner (the driver or one adapter) and its   *)
(* name.  What a resource is used by while it exists is the relation       *)
(* Needs; the peers of an adapter live on after PeerRemoveAll until no     *)
(* worker holds a reference and the RCU callback has run.                  *)
(***************************************************************************)
EXTENDS Naturals, Sequences, SequencesExt

CONSTANTS Devices,     \* adapters
          Driver,      \* the owner of the driver's own resources
          MaxFailures  \* bound on the steps that fail

\* The driver is not one of its adapters.
ASSUME BringupAssumption == Driver \notin Devices

VARIABLES holding,     \* resources taken and not given back
          phase,    \* what the driver and each adapter are doing
          agenda,     \* the steps that are left of it
          wsk,      \* WskInitStatus, and who holds WskIsIniting
          ioctl,    \* per adapter: the progress of its AdapterUp request
          peerRefs,     \* per adapter: worker threads that hold a peer reference
          removed,  \* adapters whose peers were removed
          stray,    \* something was given back that nobody holding
          failures  \* steps that failed so far

buVars == <<holding, phase, agenda, wsk, ioctl, peerRefs, removed, stray, failures>>

-----------------------------------------------------------------------------
(* The orders of the code.                                                 *)

\* DriverEntry, with the four pools of MemDriverEntry; the self tests are
\* the last step and take nothing.
DriverOrder == <<"NblDataPools", "NbDataPools", "LooseNblPool", "LooseNbPool",
                 "Rcu", "NodeCache", "Ratelimiter", "PeerCache", "Miniport", "Selftests">>

\* The labels of MemDriverEntry (cleanupLooseNblPool and what follows it).
MemUndo == <<"LooseNbPool", "LooseNblPool", "NbDataPools", "NblDataPools">>

\* The labels of DriverEntry, from cleanupDevice on.
DriverUndo == <<"Miniport", "PeerCache", "Ratelimiter", "NodeCache", "Rcu">> \o MemUndo

\* Unload: the socket layer goes as soon as no adapter is left.
UnloadOrder == <<"Miniport", "Wsk", "PeerCache", "Ratelimiter", "NodeCache", "Rcu">> \o MemUndo

\* InitializeEx.
InitializeOrder == <<"Wg", "PeerHashtable", "IndexHashtable", "EncryptQueue", "DecryptQueue",
                     "HandshakeRxQueue", "EncryptThreads", "DecryptThreads",
                     "HandshakeTxThreads", "HandshakeRxThreads", "Nsi", "Registration">>

\* The labels of InitializeEx, from cleanupNsi on.
InitializeUndo == <<"Nsi", "HandshakeRxThreads", "HandshakeTxThreads", "DecryptThreads",
                    "EncryptThreads", "HandshakeRxQueue", "DecryptQueue", "EncryptQueue",
                    "IndexHashtable", "PeerHashtable", "Wg">>

\* HaltEx.
HaltOrder == <<"Nsi", "Sockets", "PeerRemoveAll", "DecryptThreads", "EncryptThreads",
               "HandshakeRxThreads", "HandshakeTxThreads", "DecryptQueue", "EncryptQueue",
               "RcuBarrier", "HandshakeRxQueue", "IndexHashtable", "PeerHashtable", "Wg">>

\* WskInit; the queries between the provider and the route notifiers take
\* nothing and fail like the first notifier.
WskOrder == <<"Lookaside", "WskRegistration", "Provider", "RouteNotifierV4", "RouteNotifierV6">>

\* The labels of WskInit.
WskUndo == <<"RouteNotifierV4", "Provider", "WskRegistration", "Lookaside">>

BringupThreads == {"EncryptThreads", "DecryptThreads", "HandshakeTxThreads", "HandshakeRxThreads"}

-----------------------------------------------------------------------------
(* What is used by what while it exists.                                   *)

OfDevice(d, names) == {d} \X names

OfDriver(names) == {Driver} \X names

Needs(d, name) ==
    CASE name = "Wg" -> OfDriver({"Miniport"})
      [] name = "EncryptThreads" ->
           OfDevice(d, {"Wg", "EncryptQueue"}) \cup OfDriver({"NblDataPools", "LooseNblPool"})
      [] name = "DecryptThreads" -> OfDevice(d, {"Wg", "DecryptQueue", "IndexHashtable"})
      [] name = "HandshakeRxThreads" ->
           OfDevice(d, {"Wg", "HandshakeRxQueue", "IndexHashtable", "PeerHashtable"})
             \cup OfDriver({"Ratelimiter"})
      [] name = "HandshakeTxThreads" -> OfDevice(d, {"Wg", "IndexHashtable"})
      [] name = "Sockets" ->
           OfDevice(d, BringupThreads \cup {"HandshakeRxQueue", "DecryptQueue"})
             \cup OfDriver({"Lookaside", "Provider", "RouteNotifierV4", "RouteNotifierV6"})
      [] name = "Peers" ->
           OfDevice(d, {"Wg", "IndexHashtable", "PeerHashtable"})
             \cup OfDriver({"PeerCache", "NodeCache", "Rcu"})
      [] OTHER -> OfDevice(d, {"Wg"})

-----------------------------------------------------------------------------
(* Taking and giving back.                                                 *)

Take(owner, name) == holding' = holding \cup {<<owner, name>>}

Returns(resources) ==
    /\ holding' = holding \ resources
    /\ stray' = (stray \/ ~(resources \subseteq holding))

\* The part of the labels that starts with the label of a resource.
From(labels, name) ==
    LET k == CHOOSE j \in 1 .. Len(labels) : labels[j] = name
    IN SubSeq(labels, k, Len(labels))

(* Mutant: a failing step jumps to its own label. *)
UndoFromOwnLabel(order, labels, left) ==
    LET done == Len(order) - Len(left)
    IN IF done = 0 THEN <<>> ELSE From(labels, order[done + 1])

\* The labels a failing step jumps to: the one of the step before it.
UndoAfter(order, labels, left) ==
    LET done == Len(order) - Len(left)
    IN IF done = 0 THEN <<>> ELSE From(labels, order[done])

Fail == failures < MaxFailures /\ failures' = failures + 1

BringupInit ==
    /\ holding = {}
    /\ phase = [o \in Devices \cup {Driver} |-> "absent"]
    /\ agenda = [o \in Devices \cup {Driver} |-> <<>>]
    /\ wsk = [ready |-> FALSE, lock |-> Driver]
    /\ ioctl = [d \in Devices |-> [at |-> "none", agenda |-> <<>>]]
    /\ peerRefs = [d \in Devices |-> {}]
    /\ removed = {}
    /\ stray = FALSE
    /\ failures = 0

Begins(o, what, steps) ==
    /\ phase' = [phase EXCEPT ![o] = what]
    /\ agenda' = [agenda EXCEPT ![o] = steps]

Advance(o) == agenda' = [agenda EXCEPT ![o] = Tail(@)]

Quiet == UNCHANGED <<wsk, ioctl, peerRefs, removed>>

-----------------------------------------------------------------------------
(* DriverEntry and Unload.                                                 *)

DriverEntry ==
    /\ phase[Driver] = "absent"
    /\ holding = {}
    /\ Begins(Driver, "starting", DriverOrder)
    /\ Quiet
    /\ UNCHANGED <<holding, stray, failures>>

\* InitializeEx, called by NDIS on a loaded driver.
InitializeEx(d) ==
    /\ phase[Driver] = "ready"
    /\ phase[d] = "absent"
    /\ Begins(d, "starting", InitializeOrder)
    /\ Quiet
    /\ UNCHANGED <<holding, stray, failures>>

OrderOf(o) == IF o = Driver THEN DriverOrder ELSE InitializeOrder

UndoOf(o) == IF o = Driver THEN DriverUndo ELSE InitializeUndo

\* One step of DriverEntry or InitializeEx succeeds.
StepTaken(o) ==
    /\ phase[o] = "starting"
    /\ agenda[o] # <<>>
    /\ IF Head(agenda[o]) \in {"Selftests", "Registration"}
       THEN holding' = holding
       ELSE Take(o, Head(agenda[o]))
    /\ Advance(o)
    /\ Quiet
    /\ UNCHANGED <<phase, stray, failures>>

\* One step fails: everything taken so far is given back.
StepFailed(o) ==
    /\ phase[o] = "starting"
    /\ agenda[o] # <<>>
    /\ Fail
    /\ Begins(o, "undoing", UndoAfter(OrderOf(o), UndoOf(o), agenda[o]))
    /\ Quiet
    /\ UNCHANGED <<holding, stray>>

Started(o) ==
    /\ phase[o] = "starting"
    /\ agenda[o] = <<>>
    /\ phase' = [phase EXCEPT ![o] = "ready"]
    /\ Quiet
    /\ UNCHANGED <<holding, agenda, stray, failures>>

\* NDIS halts an adapter that has no request in progress.
HaltEx(d) ==
    /\ phase[d] = "ready"
    /\ ioctl[d].at = "none"
    /\ Begins(d, "undoing", HaltOrder)
    /\ Quiet
    /\ UNCHANGED <<holding, stray, failures>>

\* NDIS unloads a driver that has no adapter left.
Unload ==
    /\ phase[Driver] = "ready"
    /\ \A d \in Devices : phase[d] = "absent"
    /\ Begins(Driver, "undoing", UnloadOrder)
    /\ Quiet
    /\ UNCHANGED <<holding, stray, failures>>

\* No RCU callback that was queued is still to run.
CallbacksRun(d) == (d \in removed /\ peerRefs[d] = {}) => <<d, "Peers">> \notin holding

\* DeviceUnload and AllowedIpsUnload end with an RcuBarrier.
Waits(o, step) ==
    /\ step \in {"Miniport", "NodeCache"} => \A d \in Devices : CallbacksRun(d)
    /\ step = "RcuBarrier" => CallbacksRun(o)
    /\ step \in BringupThreads => step \notin peerRefs[o]
    /\ step = "Wsk" => wsk.lock = Driver

\* What a step of an undo gives back.
Released(o, step) ==
    CASE step = "PeerRemoveAll" -> {}
      [] step = "RcuBarrier" -> {}
      [] step = "Sockets" -> holding \cap {<<o, "Sockets">>}
      [] step = "Wsk" -> IF wsk.ready THEN OfDriver(ToSet(WskOrder)) ELSE {}
      [] OTHER -> {<<o, step>>}

\* One label of an unwinding, or one line of HaltEx or Unload.
GiveBack(o) ==
    /\ phase[o] = "undoing"
    /\ agenda[o] # <<>>
    /\ Waits(o, Head(agenda[o]))
    /\ Returns(Released(o, Head(agenda[o])))
    /\ removed' = IF Head(agenda[o]) = "PeerRemoveAll" THEN removed \cup {o} ELSE removed
    /\ Advance(o)
    /\ UNCHANGED <<phase, wsk, ioctl, peerRefs, failures>>

\* The driver image goes away with its Unload, and WskInitStatus with it.
Gone(o) ==
    /\ phase[o] = "undoing"
    /\ agenda[o] = <<>>
    /\ phase' = [phase EXCEPT ![o] = "absent"]
    /\ removed' = removed \ {o}
    /\ wsk' = IF o = Driver THEN [wsk EXCEPT !.ready = FALSE] ELSE wsk
    /\ UNCHANGED <<holding, agenda, ioctl, peerRefs, stray, failures>>

-----------------------------------------------------------------------------
(* A running adapter: peers, their references, and the AdapterUp request.         *)

CreatePeer(d) ==
    /\ phase[d] = "ready"
    /\ <<d, "Peers">> \notin holding
    /\ Take(d, "Peers")
    /\ UNCHANGED <<phase, agenda, wsk, ioctl, peerRefs, removed, stray, failures>>

\* A worker finds a peer and keeps a reference until it is done with it.
TakePeer(d, t) ==
    /\ {<<d, "Peers">>, <<d, t>>} \subseteq holding
    /\ d \notin removed
    /\ peerRefs' = [peerRefs EXCEPT ![d] = @ \cup {t}]
    /\ UNCHANGED <<holding, phase, agenda, wsk, ioctl, removed, stray, failures>>

DropPeerRef(d, t) ==
    /\ t \in peerRefs[d]
    /\ peerRefs' = [peerRefs EXCEPT ![d] = @ \ {t}]
    /\ UNCHANGED <<holding, phase, agenda, wsk, ioctl, removed, stray, failures>>

\* The callback of the last reference frees the peers.
PeerFree(d) ==
    /\ d \in removed
    /\ peerRefs[d] = {}
    /\ <<d, "Peers">> \in holding
    /\ Returns({<<d, "Peers">>})
    /\ UNCHANGED <<phase, agenda, wsk, ioctl, peerRefs, removed, failures>>

StandsAt(d, where, steps) == ioctl' = [ioctl EXCEPT ![d] = [at |-> where, agenda |-> steps]]

SameButIoctl == UNCHANGED <<phase, agenda, peerRefs, removed>>

\* AdapterUp: the status is read without the lock first.
AdapterUp(d) ==
    /\ phase[d] = "ready"
    /\ ioctl[d].at = "none"
    /\ <<d, "Sockets">> \notin holding
    /\ StandsAt(d, IF wsk.ready THEN "bind" ELSE "lock", <<>>)
    /\ SameButIoctl
    /\ UNCHANGED <<holding, wsk, stray, failures>>

\* The lock is taken and the status read again.
WskLock(d) ==
    /\ ioctl[d].at = "lock"
    /\ wsk.lock = Driver
    /\ IF wsk.ready
       THEN StandsAt(d, "bind", <<>>) /\ wsk' = wsk
       ELSE StandsAt(d, "init", WskOrder) /\ wsk' = [wsk EXCEPT !.lock = d]
    /\ SameButIoctl
    /\ UNCHANGED <<holding, stray, failures>>

WskStep(d) ==
    /\ ioctl[d].at = "init"
    /\ ioctl[d].agenda # <<>>
    /\ Take(Driver, Head(ioctl[d].agenda))
    /\ StandsAt(d, "init", Tail(ioctl[d].agenda))
    /\ SameButIoctl
    /\ UNCHANGED <<wsk, stray, failures>>

WskStepFails(d) ==
    /\ ioctl[d].at = "init"
    /\ ioctl[d].agenda # <<>>
    /\ Fail
    /\ StandsAt(d, "undo", UndoAfter(WskOrder, WskUndo, ioctl[d].agenda))
    /\ SameButIoctl
    /\ UNCHANGED <<holding, wsk, stray>>

\* Every label of WskInit is followed by the next one.
WskGiveBack(d) ==
    /\ ioctl[d].at = "undo"
    /\ ioctl[d].agenda # <<>>
    /\ Returns({<<Driver, Head(ioctl[d].agenda)>>})
    /\ StandsAt(d, "undo", Tail(ioctl[d].agenda))
    /\ SameButIoctl
    /\ UNCHANGED <<wsk, failures>>

\* WskInitStatus stays at STATUS_RETRY after a failure.
WskEnd(d) ==
    /\ ioctl[d].at \in {"init", "undo"}
    /\ ioctl[d].agenda = <<>>
    /\ wsk' = [ready |-> ioctl[d].at = "init", lock |-> Driver]
    /\ StandsAt(d, IF ioctl[d].at = "init" THEN "bind" ELSE "none", <<>>)
    /\ SameButIoctl
    /\ UNCHANGED <<holding, stray, failures>>

\* SocketInit binds the sockets, or fails.
Bind(d) ==
    /\ ioctl[d].at = "bind"
    /\ \/ Take(d, "Sockets") /\ UNCHANGED failures
       \/ Fail /\ UNCHANGED holding
    /\ StandsAt(d, "none", <<>>)
    /\ SameButIoctl
    /\ UNCHANGED <<wsk, stray>>

BringupNext ==
    \/ DriverEntry \/ Unload
    \/ \E o \in Devices \cup {Driver} :
         StepTaken(o) \/ StepFailed(o) \/ Started(o) \/ GiveBack(o) \/ Gone(o)
    \/ \E d \in Devices :
         \/ InitializeEx(d) \/ HaltEx(d) \/ CreatePeer(d) \/ PeerFree(d)
         \/ \E t \in BringupThreads : TakePeer(d, t) \/ DropPeerRef(d, t)
         \/ AdapterUp(d) \/ WskLock(d) \/ WskStep(d) \/ WskStepFails(d)
         \/ WskGiveBack(d) \/ WskEnd(d) \/ Bind(d)

BringupSpec == BringupInit /\ [][BringupNext]_buVars

-----------------------------------------------------------------------------
(* Whatever step of DriverEntry, InitializeEx or WskInit fails, and in     *)
(* whatever order adapters come and go: nothing is given back while        *)
(* something that uses it exists, nothing is given back that is not held,     *)
(* and a driver or an adapter that is gone has left nothing behind.        *)
Unwound ==
    /\ \A r \in holding : r[1] # Driver => Needs(r[1], r[2]) \subseteq holding
    /\ ~stray
    /\ \A o \in Devices \cup {Driver} :
         phase[o] = "absent" => \A r \in holding : r[1] # o

=============================================================================
