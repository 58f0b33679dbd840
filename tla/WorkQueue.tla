------------------------------- MODULE WorkQueue -------------------------------
(***************************************************************************)
(* MULTICORE_WORKQUEUE of driver/queueing.c: one worker thread per processor, *)
(* made by a spawner thread as processors arrive, woken by an event that one  *)
(* waiter resets (NewWork) and ended by one that stays set (Dead).            *)
(*                                                                         *)
(* The routine the workers run takes items from a queue until there are none  *)
(* (PacketEncryptWorker, PacketDecryptWorker, PacketHandshakeRxWorker); the   *)
(* queue is a number of items here.  Producers put an item and then set       *)
(* NewWork.  A creation of a thread may fail.                                 *)
(***************************************************************************)
EXTENDS Integers, Sequences, FiniteSets

CONSTANTS Processors,  \* processors that may arrive
          MaxItems     \* bound on the items waiting

ASSUME WorkQueueAssumption == MaxItems \in Nat \ {0}

VARIABLES threads,   \* FirstThread: the processors of the work threads, newest first
          thread,    \* per processor: what its thread does; "none" if there is no thread
          spawner,   \* NewThreadSpawner: "wait", "spawn" or "gone"
          spawning,  \* the work threads it has still to look at
          NewWork, NewCpus, Dead,
          items,     \* items in the queue
          bumping,   \* producers that have put an item and not yet set NewWork
          destroy    \* MulticoreWorkQueueDestroy: "no", "deregistered", "spawner",
                     \* "threads" or "done"

wqVars == <<threads, thread, spawner, spawning, NewWork, NewCpus, Dead, items, bumping, destroy>>

(* MulticoreWorkQueueInit *)
WorkQueueInit ==
    /\ threads = <<>>
    /\ thread = [p \in Processors |-> "none"]
    /\ spawner = "wait" /\ spawning = <<>>
    /\ NewWork = FALSE /\ NewCpus = FALSE /\ Dead = FALSE
    /\ items = 0 /\ bumping = 0
    /\ destroy = "no"

Arrived == {threads[i] : i \in DOMAIN threads}

(* NewCpuArrival; KE_PROCESSOR_CHANGE_ADD_EXISTING reports the present ones too. *)
NewCpuArrival(p) ==
    /\ destroy = "no" /\ p \notin Arrived
    /\ threads' = <<p>> \o threads
    /\ NewCpus' = TRUE
    /\ UNCHANGED <<thread, spawner, spawning, NewWork, Dead, items, bumping, destroy>>

(* NewThreadSpawner, woken: NewCpus comes before Dead in the list it waits on. *)
SpawnerWakes ==
    /\ spawner = "wait"
    /\ NewCpus \/ Dead
    /\ IF NewCpus THEN spawner' = "spawn" /\ spawning' = threads
                  ELSE spawner' = "gone" /\ spawning' = <<>>
    /\ NewCpus' = FALSE
    /\ UNCHANGED <<threads, thread, NewWork, Dead, items, bumping, destroy>>

(* ... it makes threads until it meets a work thread that has one or that it
   cannot make, and waits again.                                             *)
SpawnOne ==
    /\ spawner = "spawn"
    /\ spawning # <<>> /\ thread[Head(spawning)] = "none"
    /\ thread' = [thread EXCEPT ![Head(spawning)] = "wait"]
    /\ spawning' = Tail(spawning)
    /\ UNCHANGED <<threads, spawner, NewWork, NewCpus, Dead, items, bumping, destroy>>

SpawnEnds ==
    /\ spawner = "spawn"
    /\ spawner' = "wait" /\ spawning' = <<>>
    /\ UNCHANGED <<threads, thread, NewWork, NewCpus, Dead, items, bumping, destroy>>

-----------------------------------------------------------------------------
(* A producer, at a time when the device is not being torn down. *)
PutItem ==
    /\ destroy = "no" /\ items < MaxItems /\ bumping < MaxItems
    /\ items' = items + 1
    /\ bumping' = bumping + 1
    /\ UNCHANGED <<threads, thread, spawner, spawning, NewWork, NewCpus, Dead, destroy>>

(* MulticoreWorkQueueBump *)
WorkQueueBump ==
    /\ bumping > 0
    /\ NewWork' = TRUE
    /\ bumping' = bumping - 1
    /\ UNCHANGED <<threads, thread, spawner, spawning, NewCpus, Dead, items, destroy>>

(* WorkerThread: NewWork comes before Dead in the list. *)
WorkerWakes(p) ==
    /\ thread[p] = "wait"
    /\ NewWork \/ Dead
    /\ thread' = [thread EXCEPT ![p] = IF NewWork THEN "work" ELSE "gone"]
    /\ NewWork' = FALSE
    /\ UNCHANGED <<threads, spawner, spawning, NewCpus, Dead, items, bumping, destroy>>

TakeItem(p) ==
    /\ thread[p] = "work" /\ items > 0
    /\ items' = items - 1
    /\ UNCHANGED <<threads, thread, spawner, spawning, NewWork, NewCpus, Dead, bumping, destroy>>

(* Mutant: the routine handles what it was woken for and returns. *)
ReturnsEarly == TRUE

QueueFoundEmpty == items = 0

RoutineReturns(p) ==
    /\ thread[p] = "work" /\ QueueFoundEmpty
    /\ thread' = [thread EXCEPT ![p] = "wait"]
    /\ UNCHANGED <<threads, spawner, spawning, NewWork, NewCpus, Dead, items, bumping, destroy>>

-----------------------------------------------------------------------------
(* MulticoreWorkQueueDestroy, when no producer is left: the callback is
   deregistered, Dead is set, and the spawner and then the threads awaited.  *)
Deregister ==
    /\ destroy = "no" /\ bumping = 0
    /\ destroy' = "deregistered"
    /\ UNCHANGED <<threads, thread, spawner, spawning, NewWork, NewCpus, Dead, items, bumping>>

(* Mutant: the spawner is awaited first. *)
SetDeadAfterSpawner ==
    /\ destroy = "deregistered" /\ spawner = "gone"
    /\ Dead' = TRUE
    /\ destroy' = "spawner"
    /\ UNCHANGED <<threads, thread, spawner, spawning, NewWork, NewCpus, items, bumping>>

SetDead ==
    /\ destroy = "deregistered"
    /\ Dead' = TRUE
    /\ destroy' = "spawner"
    /\ UNCHANGED <<threads, thread, spawner, spawning, NewWork, NewCpus, items, bumping>>

AwaitSpawner ==
    /\ destroy = "spawner" /\ spawner = "gone"
    /\ destroy' = "threads"
    /\ UNCHANGED <<threads, thread, spawner, spawning, NewWork, NewCpus, Dead, items, bumping>>

AwaitThreads ==
    /\ destroy = "threads"
    /\ \A p \in Arrived : thread[p] \in {"none", "gone"}
    /\ threads' = <<>>
    /\ thread' = [p \in Processors |-> "none"]
    /\ destroy' = "done"
    /\ UNCHANGED <<spawner, spawning, NewWork, NewCpus, Dead, items, bumping>>

SpawnerStep == SpawnerWakes \/ SpawnOne \/ SpawnEnds
WorkerThread(p) == WorkerWakes(p) \/ TakeItem(p) \/ RoutineReturns(p)
DestroyStep == SetDead \/ AwaitSpawner \/ AwaitThreads

WorkQueueNext ==
    \/ SpawnerStep \/ PutItem \/ WorkQueueBump \/ Deregister \/ DestroyStep
    \/ \E p \in Processors : NewCpuArrival(p) \/ WorkerThread(p)

WorkQueueSpec == WorkQueueInit /\ [][WorkQueueNext]_wqVars

(* Threads run; nothing makes producers, processors or a removal arrive. *)
WorkQueueFairness ==
    /\ WF_wqVars(SpawnerStep) /\ WF_wqVars(WorkQueueBump) /\ WF_wqVars(DestroyStep)
    /\ \A p \in Processors : WF_wqVars(WorkerThread(p))

-----------------------------------------------------------------------------
(* No wakeup is lost although many bumps set one event (queueing.c): while there
   are items, NewWork is set, or a producer is about to set it, or a worker is
   at the queue and will look again.                                         *)
NoWorkForgotten ==
    items > 0 => NewWork \/ bumping > 0 \/ \E p \in Processors : thread[p] = "work"

(* A removal that has begun comes to its end, whatever threads are being made or
   are at work when Dead is set (queueing.c, MulticoreWorkQueueDestroy).     *)
DestroyEnds == destroy # "no" ~> destroy = "done"
=============================================================================
