---------------------------------- MODULE Rcu ----------------------------------
(***************************************************************************)
(* Read-copy-update of driver/rcu.c: readers run at DISPATCH_LEVEL, so that a *)
(* processor which has run a DPC has left every section it was in; one thread *)
(* waits for that and then runs the callbacks.                                *)
(*                                                                         *)
(* What is protected is one pointer to an object.  An updater replaces the    *)
(* object and hands the old one to RcuCall or RcuFree.  Threads that call     *)
(* RcuSynchronize themselves wait for CallerThread's call of it to end, and   *)
(* it for theirs (SyncState.Lock); they are left out.                         *)
(***************************************************************************)
EXTENDS Integers, Sequences, SequencesExt, FiniteSets

CONSTANTS Processors, Objects,
          Barriers,    \* threads that call RcuBarrier, and Unloader
          Unloader,    \* the thread that calls RcuUnload
          Nothing

ASSUME RcuAssumption ==
    /\ Unloader \in Barriers
    /\ Objects # {} /\ Objects \cap Barriers = {}
    /\ {Nothing, "reading"} \cap (Objects \cup Barriers) = {} /\ Nothing # "reading"

VARIABLES pointer,   \* the object that is published
          held,      \* per processor: the object its reader has, "reading" before that
          freed,     \* objects whose memory was given back
          replaced,  \* the object replaced and not yet passed to RcuCall, or Nothing
          callbacks,      \* Cleanup.Head to Cleanup.Tail
          WorkPending, Terminate,
          callerThread,   \* CallerThread: "wait", "sync", "call" or "gone", its batch, and
                          \* the processors whose DPC RcuSynchronize has to insert and await
          barrier    \* per thread of Barriers: "no", "waiting", "done"

rcuVars == <<pointer, held, freed, replaced, callbacks, WorkPending, Terminate, callerThread, barrier>>

(* RcuDriverEntry *)
RcuInit ==
    /\ pointer = CHOOSE o \in Objects : TRUE
    /\ held = [p \in Processors |-> Nothing]
    /\ freed = {} /\ replaced = Nothing
    /\ callbacks = <<>>
    /\ WorkPending = FALSE /\ Terminate = FALSE
    /\ callerThread = [at |-> "wait", batch |-> <<>>, insert |-> {}, await |-> {}]
    /\ barrier = [b \in Barriers |-> "no"]

Unloading == barrier[Unloader] # "no"

-----------------------------------------------------------------------------
RcuReadLock(p) ==
    /\ held[p] = Nothing /\ ~Unloading
    /\ held' = [held EXCEPT ![p] = "reading"]
    /\ UNCHANGED <<pointer, freed, replaced, callbacks, WorkPending, Terminate, callerThread, barrier>>

RcuDereference(p) ==
    /\ held[p] = "reading"
    /\ held' = [held EXCEPT ![p] = pointer]
    /\ UNCHANGED <<pointer, freed, replaced, callbacks, WorkPending, Terminate, callerThread, barrier>>

RcuReadUnlock(p) ==
    /\ held[p] # Nothing
    /\ held' = [held EXCEPT ![p] = Nothing]
    /\ UNCHANGED <<pointer, freed, replaced, callbacks, WorkPending, Terminate, callerThread, barrier>>

(* Objects in use, or waiting for their callback. *)
Busy == {pointer, replaced} \cup ToSet(callbacks) \cup ToSet(callerThread.batch)

RcuAssignPointer(o) ==
    /\ replaced = Nothing /\ ~Unloading
    /\ o \notin Busy /\ o \notin freed
    /\ replaced' = pointer
    /\ pointer' = o
    /\ UNCHANGED <<held, freed, callbacks, WorkPending, Terminate, callerThread, barrier>>

(* __RcuCall, under its spin lock. *)
Enqueue(x) ==
    /\ callbacks' = Append(callbacks, x)
    /\ WorkPending' = TRUE

RcuCall ==
    /\ replaced # Nothing
    /\ Enqueue(replaced)
    /\ replaced' = Nothing
    /\ UNCHANGED <<pointer, held, freed, Terminate, callerThread, barrier>>

(* RcuBarrier, which RcuUnload begins with, when the users of RCU are gone. *)
RcuBarrier(b) ==
    /\ barrier[b] = "no" /\ ~Unloading
    /\ b = Unloader => replaced = Nothing
    /\ Enqueue(b)
    /\ barrier' = [barrier EXCEPT ![b] = "waiting"]
    /\ UNCHANGED <<pointer, held, freed, replaced, Terminate, callerThread>>

(* Mutant: RcuUnload goes without a barrier. *)
TerminateAtOnce ==
    /\ ~Terminate /\ replaced = Nothing
    /\ Terminate' = TRUE
    /\ WorkPending' = TRUE
    /\ barrier' = [barrier EXCEPT ![Unloader] = "done"]
    /\ UNCHANGED <<pointer, held, freed, replaced, callbacks, callerThread>>

RcuUnload ==
    /\ ~Terminate
    /\ barrier[Unloader] = "done"
    /\ Terminate' = TRUE
    /\ WorkPending' = TRUE
    /\ UNCHANGED <<pointer, held, freed, replaced, callbacks, callerThread, barrier>>

-----------------------------------------------------------------------------
(* CallerThread takes the whole list ... *)
TakeCallbacks ==
    /\ callerThread.at = "wait" /\ WorkPending
    /\ callerThread' = [at |-> "sync", batch |-> callbacks, insert |-> Processors, await |-> {}]
    /\ callbacks' = <<>>
    /\ WorkPending' = FALSE
    /\ UNCHANGED <<pointer, held, freed, replaced, Terminate, barrier>>

(* ... waits in RcuSynchronize, which queues a DPC to every processor, ... *)
KeInsertQueueDpc(p) ==
    /\ callerThread.at = "sync" /\ p \in callerThread.insert
    /\ callerThread' = [callerThread EXCEPT !.insert = @ \ {p}, !.await = @ \cup {p}]
    /\ UNCHANGED <<pointer, held, freed, replaced, callbacks, WorkPending, Terminate, barrier>>

(* Mutant: a processor that has looked at its readers counts, whatever it runs. *)
BelowDispatchAlways(p) == TRUE

(* A DPC runs when the processor's level drops below DISPATCH_LEVEL. *)
BelowDispatch(p) == held[p] = Nothing

ProcessorTick(p) ==
    /\ p \in callerThread.await /\ BelowDispatch(p)
    /\ callerThread' = [callerThread EXCEPT !.await = @ \ {p}]
    /\ UNCHANGED <<pointer, held, freed, replaced, callbacks, WorkPending, Terminate, barrier>>

SynchronizeEnds ==
    /\ callerThread.at = "sync" /\ callerThread.insert = {} /\ callerThread.await = {}
    /\ callerThread' = [callerThread EXCEPT !.at = "call"]
    /\ UNCHANGED <<pointer, held, freed, replaced, callbacks, WorkPending, Terminate, barrier>>

(* ... and runs one callback after the other. *)
RunCallback ==
    /\ callerThread.at = "call" /\ callerThread.batch # <<>>
    /\ LET x == Head(callerThread.batch)
       IN  IF x \in Objects
             THEN freed' = freed \cup {x} /\ UNCHANGED barrier
             ELSE barrier' = [barrier EXCEPT ![x] = "done"] /\ UNCHANGED freed
    /\ callerThread' = [callerThread EXCEPT !.batch = Tail(@)]
    /\ UNCHANGED <<pointer, held, replaced, callbacks, WorkPending, Terminate>>

CallbacksDone ==
    /\ callerThread.at = "call" /\ callerThread.batch = <<>>
    /\ callerThread' = [callerThread EXCEPT !.at = IF Terminate THEN "gone" ELSE "wait"]
    /\ UNCHANGED <<pointer, held, freed, replaced, callbacks, WorkPending, Terminate, barrier>>

RcuNext ==
    \/ \E p \in Processors : RcuReadLock(p) \/ RcuDereference(p) \/ RcuReadUnlock(p)
                             \/ KeInsertQueueDpc(p) \/ ProcessorTick(p)
    \/ \E o \in Objects : RcuAssignPointer(o)
    \/ \E b \in Barriers : RcuBarrier(b)
    \/ RcuCall \/ RcuUnload \/ TakeCallbacks \/ SynchronizeEnds \/ RunCallback \/ CallbacksDone

RcuSpec == RcuInit /\ [][RcuNext]_rcuVars

-----------------------------------------------------------------------------
(* No reader has an object whose memory was given back (rcu.c): its processor's
   DPC, queued after the object was replaced, cannot have run since.         *)
GracePeriod == \A p \in Processors : held[p] \notin freed

(* RcuUnload leaves nothing behind (rcu.c): when CallerThread has ended, every
   callback has run, and whoever waited in RcuBarrier has been released, provided
   nobody calls RcuCall once RcuUnload has begun.                            *)
UnloadComplete ==
    callerThread.at = "gone" =>
        callbacks = <<>> /\ \A b \in Barriers : barrier[b] # "waiting"
=============================================================================
