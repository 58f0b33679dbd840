------------------------------ MODULE MCQueues ------------------------------
(***************************************************************************)
(* TLC instance of the packet pipeline and of what moves its packets and   *)
(* threads: the per-peer queue, the pointer ring, the work queue; and of   *)
(* the library's log reader, a thread that has to end as well.  They do    *)
(* not interact here, so a behaviour moves one of them, chosen at the      *)
(* start.                                                                  *)
(*                                                                         *)
(*   pipeline: as in MCPacketPipeline;                                     *)
(*   packet queue: three processors enqueue three packets, two fit;        *)
(*   pointer ring: five places, of which two are read per batch;           *)
(*   work queue: three processors and two items of work;                   *)
(*   log reader: two reopenings of the device, four changes of the state.  *)
(***************************************************************************)
EXTENDS MCPacketPipeline, PrevQueue, PtrRing, WorkQueue, AdapterLogging

CONSTANT Parts

VARIABLE part

\* Of the initial states of the pipeline, the parts that stand still take one.
MCInit ==
    /\ part \in Parts
    /\ Init /\ PrevQueueInit /\ RingInit /\ WorkQueueInit /\ LoggingInit
    /\ part # "pipeline" => dir = "rx"

MCNext ==
    /\ UNCHANGED part
    /\ IF part = "pipeline" THEN Next ELSE UNCHANGED vars
    /\ IF part = "packet queue" THEN PrevQueueNext ELSE UNCHANGED pqVars
    /\ IF part = "pointer ring" THEN RingNext ELSE UNCHANGED ringVars
    /\ IF part = "work queue" THEN WorkQueueNext ELSE UNCHANGED wqVars
    /\ IF part = "log reader" THEN LoggingNext ELSE UNCHANGED alVars

\* Fairness, PrevQueueFairness, WorkQueueFairness and LoggingFairness, each
\* for the part that moves.
MCFairness ==
    /\ \A t \in Producers : WF_vars(part = "pipeline" /\ ProducerStep(t))
    /\ \A w \in Workers : WF_vars(part = "pipeline" /\ WorkerStep(w))
    /\ \A p \in Removable :
         /\ WF_vars(part = "pipeline" /\ PeerRemoveDone(p))
         /\ WF_vars(part = "pipeline" /\ RcuRelease(p))
    /\ WF_pqVars(part = "packet queue" /\ Consumer)
    /\ \A t \in Enqueuers : WF_pqVars(part = "packet queue" /\ (Exchange(t) \/ LinkPrevious(t)))
    /\ WF_wqVars(part = "work queue" /\ SpawnerStep)
    /\ WF_wqVars(part = "work queue" /\ WorkQueueBump)
    /\ WF_wqVars(part = "work queue" /\ DestroyStep)
    /\ \A p \in Processors : WF_wqVars(part = "work queue" /\ WorkerThread(p))
    /\ WF_alVars(part = "log reader" /\ ReaderStep)
    /\ WF_alVars(part = "log reader" /\ CallerStep)

MCSpec ==
    MCInit /\ [][MCNext]_<<part, vars, pqVars, ringVars, wqVars, alVars>> /\ MCFairness
=============================================================================
