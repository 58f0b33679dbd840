-------------------------- MODULE TimerPrimitives ---------------------------
(***************************************************************************)
(* TimerMod, TimerDelete, ModPeerTimer and TimerDpcCallback of             *)
(* driver/timers.c, one access to shared memory or one kernel call per     *)
(* step, against what stops a peer's timers: Down and PeerRemove.          *)
(*                                                                         *)
(* Callers are threads that hold a reference to the peer while they set or *)
(* delete its timers; a processor runs timer DPCs, which hold none.  What  *)
(* a callback does to timers is a free choice of such operations.  InUse   *)
(* and Refcount are the sets of their holders: PeerTimers shows that the   *)
(* counts in the code are exact.                                           *)
(***************************************************************************)
EXTENDS Integers, FiniteSets

CONSTANTS
    Timers,   \* the timers of the peer
    Callers,  \* threads that may hold a reference to it
    Cpus,     \* processors, each with a DPC queue
    Config,   \* the holder of DeviceUpdateLock
    NoTimer

ASSUME TimerAssumption ==
    /\ Callers \cap Cpus = {} /\ Config \notin Callers \cup Cpus
    /\ NoTimer \notin Cpus /\ NoTimer \notin Timers

TimerThreads == Callers \cup Cpus \cup {Config}

VARIABLES
    isUp,      \* Device->IsUp
    closing,   \* ExWaitForRundownProtectionRelease(&InUse) was called
    InUse,     \* threads that hold InUse
    refs,      \* callers that hold a reference, and Config for the one of PeerCreate
    armed,     \* timers in the kernel's timer queue
    dpc,       \* per timer, the processor whose DPC queue it is in, or NoTimer
    pending,   \* timers with Pending set
    stage,     \* per thread, the step it is about to take
    timer,     \* per thread, the timer it works on
    left,      \* TimersStop: timers not yet deleted
    unflushed  \* KeFlushQueuedDpcs: processors not yet waited for

timerVars == <<isUp, closing, InUse, refs, armed, dpc, pending, stage, timer, left, unflushed>>

Steps == {"idle", "mod", "acquire", "mark", "set", "release", "delete", "removeDpc",
          "unpend", "callback", "wait", "stop", "flush", "put", "removed"}

TimerTypeOK ==
    /\ isUp \in BOOLEAN /\ closing \in BOOLEAN
    /\ InUse \subseteq TimerThreads
    /\ refs \subseteq Callers \cup {Config}
    /\ armed \subseteq Timers /\ pending \subseteq Timers
    /\ dpc \in [Timers -> Cpus \cup {NoTimer}]
    /\ stage \in [TimerThreads -> Steps]
    /\ timer \in [TimerThreads -> Timers \cup {NoTimer}]
    /\ left \subseteq Timers
    /\ unflushed \subseteq Cpus

TimerInit ==
    /\ isUp \in BOOLEAN
    /\ closing = FALSE
    /\ InUse = {}
    /\ refs = {Config}
    /\ armed = {} /\ pending = {}
    /\ dpc = [t \in Timers |-> NoTimer]
    /\ stage = [th \in TimerThreads |-> "idle"]
    /\ timer = [th \in TimerThreads |-> NoTimer]
    /\ left = {} /\ unflushed = {}

StepTo(th, step) == stage' = [stage EXCEPT ![th] = step]

-----------------------------------------------------------------------------
(* A caller looks the peer up, and drops its reference between operations. *)

PeerGet(c) ==
    /\ stage[c] = "idle" /\ c \notin refs
    /\ refs # {}
    /\ refs' = refs \cup {c}
    /\ UNCHANGED <<isUp, closing, InUse, armed, dpc, pending, stage, timer, left, unflushed>>

PeerPut(c) ==
    /\ stage[c] = "idle" /\ c \in refs
    /\ refs' = refs \ {c}
    /\ UNCHANGED <<isUp, closing, InUse, armed, dpc, pending, stage, timer, left, unflushed>>

(* TimerThreads that may call into timers.c now. *)
MayCall(th) == (th \in Callers /\ th \in refs /\ stage[th] = "idle")
               \/ (th \in Cpus /\ stage[th] = "callback")

(* A processor is done with its callback after the last call. *)
Return(th) == IF th \in Cpus THEN "callback" ELSE "idle"

-----------------------------------------------------------------------------
(* ModPeerTimer(t); some callers first look whether the timer is pending. *)

CallMod(th, t) ==
    /\ MayCall(th)
    /\ timer' = [timer EXCEPT ![th] = t]
    /\ StepTo(th, "mod")
    /\ UNCHANGED <<isUp, closing, InUse, refs, armed, dpc, pending, left, unflushed>>

CallModIfIdle(th, t) == t \notin pending /\ CallMod(th, t)

ReadIsUp(th) ==
    /\ stage[th] = "mod"
    /\ StepTo(th, IF isUp THEN "acquire" ELSE Return(th))
    /\ UNCHANGED <<isUp, closing, InUse, refs, armed, dpc, pending, timer, left, unflushed>>

\* Mutant: timers are set while the peer goes, too.
AcquireAnyway(th) ==
    /\ stage[th] = "acquire"
    /\ InUse' = InUse \cup {th}
    /\ StepTo(th, "mark")
    /\ UNCHANGED <<isUp, closing, refs, armed, dpc, pending, timer, left, unflushed>>

AcquireInUse(th) ==
    /\ stage[th] = "acquire"
    /\ \/ /\ closing
          /\ StepTo(th, Return(th))
          /\ UNCHANGED InUse
       \/ /\ ~closing
          /\ InUse' = InUse \cup {th}
          /\ StepTo(th, "mark")
    /\ UNCHANGED <<isUp, closing, refs, armed, dpc, pending, timer, left, unflushed>>

(* TimerMod *)
MarkPending(th) ==
    /\ stage[th] = "mark"
    /\ pending' = pending \cup {timer[th]}
    /\ StepTo(th, "set")
    /\ UNCHANGED <<isUp, closing, InUse, refs, armed, dpc, timer, left, unflushed>>

KeSetCoalescableTimer(th) ==
    /\ stage[th] = "set"
    /\ armed' = armed \cup {timer[th]}
    /\ StepTo(th, "release")
    /\ UNCHANGED <<isUp, closing, InUse, refs, dpc, pending, timer, left, unflushed>>

ReleaseInUse(th) ==
    /\ stage[th] = "release"
    /\ InUse' = InUse \ {th}
    /\ StepTo(th, Return(th))
    /\ UNCHANGED <<isUp, closing, refs, armed, dpc, pending, timer, left, unflushed>>

-----------------------------------------------------------------------------
(* TimerDelete(t) *)

CallDelete(th, t) ==
    /\ MayCall(th)
    /\ timer' = [timer EXCEPT ![th] = t]
    /\ StepTo(th, "delete")
    /\ UNCHANGED <<isUp, closing, InUse, refs, armed, dpc, pending, left, unflushed>>

\* Mutant: a cancelled timer stays pending.
CancelOnly(th) ==
    /\ stage[th] = "delete"
    /\ armed' = armed \ {timer[th]}
    /\ StepTo(th, CASE timer[th] \notin armed -> "removeDpc"
                  [] timer[th] \in armed /\ th = Config -> "stop"
                  [] timer[th] \in armed /\ th # Config -> Return(th))
    /\ UNCHANGED <<isUp, closing, InUse, refs, dpc, pending, timer, left, unflushed>>

KeCancelTimer(th) ==
    /\ stage[th] = "delete"
    /\ armed' = armed \ {timer[th]}
    /\ StepTo(th, IF timer[th] \in armed THEN "unpend" ELSE "removeDpc")
    /\ UNCHANGED <<isUp, closing, InUse, refs, dpc, pending, timer, left, unflushed>>

KeRemoveQueueDpc(th) ==
    /\ stage[th] = "removeDpc"
    /\ dpc' = [dpc EXCEPT ![timer[th]] = NoTimer]
    /\ StepTo(th, "unpend")
    /\ UNCHANGED <<isUp, closing, InUse, refs, armed, pending, timer, left, unflushed>>

(* The last step of TimerDelete, and the first of TimerDpcCallback. *)
ClearPending(th) ==
    /\ stage[th] = "unpend"
    /\ pending' = pending \ {timer[th]}
    /\ StepTo(th, IF th = Config THEN "stop" ELSE Return(th))
    /\ UNCHANGED <<isUp, closing, InUse, refs, armed, dpc, timer, left, unflushed>>

-----------------------------------------------------------------------------
(* The kernel queues the DPC of an expired timer on some processor, where *)
(* it already is if it is queued, and runs it.                            *)

Expire(t, c) ==
    /\ t \in armed
    /\ dpc[t] \in {NoTimer, c}
    /\ armed' = armed \ {t}
    /\ dpc' = [dpc EXCEPT ![t] = c]
    /\ UNCHANGED <<isUp, closing, InUse, refs, pending, stage, timer, left, unflushed>>

TimerDpcCallback(c, t) ==
    /\ stage[c] = "idle"
    /\ dpc[t] = c
    /\ dpc' = [dpc EXCEPT ![t] = NoTimer]
    /\ timer' = [timer EXCEPT ![c] = t]
    /\ StepTo(c, "unpend")
    /\ UNCHANGED <<isUp, closing, InUse, refs, armed, pending, left, unflushed>>

EndDpc(c) ==
    /\ stage[c] = "callback"
    /\ StepTo(c, "idle")
    /\ UNCHANGED <<isUp, closing, InUse, refs, armed, dpc, pending, timer, left, unflushed>>

-----------------------------------------------------------------------------
(* Configuration. *)

Up ==
    /\ stage[Config] = "idle"
    /\ ~isUp
    /\ isUp' = TRUE
    /\ UNCHANGED <<closing, InUse, refs, armed, dpc, pending, stage, timer, left, unflushed>>

(* Down, with DeviceStop's call of TimersStop. *)
Down ==
    /\ stage[Config] = "idle"
    /\ isUp
    /\ isUp' = FALSE
    /\ left' = Timers
    /\ StepTo(Config, "stop")
    /\ UNCHANGED <<closing, InUse, refs, armed, dpc, pending, timer, unflushed>>

PeerRemove ==
    /\ stage[Config] = "idle"
    /\ closing' = TRUE
    /\ StepTo(Config, "wait")
    /\ UNCHANGED <<isUp, InUse, refs, armed, dpc, pending, timer, left, unflushed>>

WaitForRundown ==
    /\ stage[Config] = "wait"
    /\ InUse = {}
    /\ left' = Timers
    /\ StepTo(Config, "stop")
    /\ UNCHANGED <<isUp, closing, InUse, refs, armed, dpc, pending, timer, unflushed>>

(* TimersStop: every timer is deleted, then the DPC queues are flushed. *)
StopTimer(t) ==
    /\ stage[Config] = "stop"
    /\ t \in left
    /\ left' = left \ {t}
    /\ timer' = [timer EXCEPT ![Config] = t]
    /\ StepTo(Config, "delete")
    /\ UNCHANGED <<isUp, closing, InUse, refs, armed, dpc, pending, unflushed>>

BeginFlush ==
    /\ stage[Config] = "stop"
    /\ left = {}
    /\ unflushed' = Cpus
    /\ StepTo(Config, "flush")
    /\ UNCHANGED <<isUp, closing, InUse, refs, armed, dpc, pending, timer, left>>

(* KeFlushQueuedDpcs gets to run on a processor when no DPC is left there. *)
FlushCpu(c) ==
    /\ stage[Config] = "flush"
    /\ c \in unflushed
    /\ stage[c] = "idle" /\ \A t \in Timers : dpc[t] # c
    /\ unflushed' = unflushed \ {c}
    /\ UNCHANGED <<isUp, closing, InUse, refs, armed, dpc, pending, stage, timer, left>>

EndStop ==
    /\ stage[Config] = "flush"
    /\ unflushed = {}
    /\ StepTo(Config, IF closing THEN "put" ELSE "idle")
    /\ UNCHANGED <<isUp, closing, InUse, refs, armed, dpc, pending, timer, left, unflushed>>

RemoveReference ==
    /\ stage[Config] = "put"
    /\ refs' = refs \ {Config}
    /\ StepTo(Config, "removed")
    /\ UNCHANGED <<isUp, closing, InUse, armed, dpc, pending, timer, left, unflushed>>

-----------------------------------------------------------------------------
Call(th, t) == CallMod(th, t) \/ CallModIfIdle(th, t) \/ CallDelete(th, t)

Step(th) ==
    \/ ReadIsUp(th) \/ AcquireInUse(th) \/ MarkPending(th) \/ KeSetCoalescableTimer(th)
    \/ ReleaseInUse(th) \/ KeCancelTimer(th) \/ KeRemoveQueueDpc(th) \/ ClearPending(th)

ConfigStep ==
    \/ Up \/ Down \/ PeerRemove \/ WaitForRundown \/ BeginFlush \/ EndStop \/ RemoveReference
    \/ \E t \in Timers : StopTimer(t)
    \/ \E c \in Cpus : FlushCpu(c)

TimerNext ==
    \/ \E c \in Callers : PeerGet(c) \/ PeerPut(c)
    \/ \E th \in TimerThreads : Step(th)
    \/ \E th \in TimerThreads, t \in Timers : Call(th, t)
    \/ \E t \in Timers, c \in Cpus : Expire(t, c) \/ TimerDpcCallback(c, t)
    \/ \E c \in Cpus : EndDpc(c)
    \/ ConfigStep

TimerSpec == TimerInit /\ [][TimerNext]_timerVars

(* Pending is believed by those who only set an idle timer.  It is never   *)
(* left set with nothing that will clear it: the timer is set, its DPC is  *)
(* queued, or a thread is about to set it or to clear the flag.            *)
PendingIsHonest ==
    \A t \in pending :
        \/ t \in armed \/ dpc[t] # NoTimer
        \/ \E th \in TimerThreads : timer[th] = t /\ stage[th] \in {"set", "removeDpc", "unpend"}

(* Timers and DPCs hold no reference.  When the last one goes, no timer of *)
(* the peer is set, and no DPC of it is queued or running.                 *)
ReleasedPeerIsQuiet ==
    refs = {} =>
        /\ armed = {}
        /\ \A t \in Timers : dpc[t] = NoTimer
        /\ \A c \in Cpus : stage[c] = "idle"
=============================================================================
