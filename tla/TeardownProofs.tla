---------------------------- MODULE TeardownProofs ----------------------------
(***************************************************************************)
(* What makes it safe to take things away, proved for any number of        *)
(* processors, threads, objects, timers and adapters: the grace periods of *)
(* RCU (GracePeriod, UnloadComplete), the end of a peer's timers           *)
(* (ReleasedPeerIsQuiet), the filter of NSI requests while adapters come   *)
(* and go (FilterSound), and the unwinding of whatever loading, starting   *)
(* or binding failed, as of halting and unloading (Unwound).               *)
(*                                                                         *)
(* GracePeriod is not inductive: what a reader has is safe because of      *)
(* where the object is on its way from the pointer to its callback.        *)
(* PlacesInv says that it is at one place at a time and not freed before   *)
(* the last, ReadersInv that a reader whose object has reached the batch   *)
(* is on a processor that RcuSynchronize still waits for.  UnloadComplete  *)
(* rests on the Unloader's callback being the last one of all (UnloadInv). *)
(***************************************************************************)
EXTENDS Rcu, TimerPrimitives, Bringup, NsiFilter, TLAPS, SequenceTheorems

RcuTypeOK ==
    /\ pointer \in Objects
    /\ held \in [Processors -> Objects \cup {Nothing, "reading"}]
    /\ freed \subseteq Objects
    /\ replaced \in Objects \cup {Nothing}
    /\ callbacks \in Seq(Objects \cup Barriers)
    /\ WorkPending \in BOOLEAN /\ Terminate \in BOOLEAN
    /\ callerThread \in [at : {"wait", "sync", "call", "gone"},
                   batch : Seq(Objects \cup Barriers),
                   insert : SUBSET Processors, await : SUBSET Processors]
    /\ barrier \in [Barriers -> {"no", "waiting", "done"}]

(* A sequence in which nothing occurs twice. *)
Once(s) == \A i, j \in DOMAIN s : s[i] = s[j] => i = j

(* An object, or a thread's callback, is at one place at a time; what was freed
   or released is at none.                                                  *)
PlacesInv ==
    /\ Once(callbacks) /\ Once(callerThread.batch)
    /\ ToSet(callbacks) \cap ToSet(callerThread.batch) = {}
    /\ {pointer, replaced} \cap (ToSet(callbacks) \cup ToSet(callerThread.batch)) = {}
    /\ pointer # replaced
    /\ Busy \cap freed = {}

(* Outside of a batch nothing is left of one, and none is begun after RcuSynchronize
   has asked every processor.                                               *)
BatchInv ==
    /\ callerThread.at \in {"wait", "gone"} => callerThread.batch = <<>>
    /\ callerThread.at # "sync" => callerThread.insert = {} /\ callerThread.await = {}

(* What a reader has is published, or on its way to a batch, or in the batch for
   which the reader's own processor has still to run the DPC.               *)
ReadersInv ==
    \A p \in Processors :
      held[p] \in Objects =>
        \/ held[p] \in {pointer, replaced} \cup ToSet(callbacks)
        \/ held[p] \in ToSet(callerThread.batch) /\ p \in callerThread.insert \cup callerThread.await

(* Who waits in RcuBarrier has a callback queued; the one of RcuUnload is behind all
   others, and when it has run, nothing is queued any more.                 *)
UnloadInv ==
    /\ \A b \in Barriers :
         barrier[b] = "waiting" <=> b \in ToSet(callbacks) \cup ToSet(callerThread.batch)
    /\ Unloading => replaced = Nothing
    /\ barrier[Unloader] = "done" => callbacks = <<>> /\ callerThread.batch = <<>>
    /\ \A i \in DOMAIN callbacks : callbacks[i] = Unloader => i = Len(callbacks)
    /\ \A i \in DOMAIN callerThread.batch :
         callerThread.batch[i] = Unloader => i = Len(callerThread.batch) /\ callbacks = <<>>
    /\ Terminate => barrier[Unloader] = "done"
    /\ callerThread.at = "gone" => Terminate

IInv == RcuTypeOK /\ PlacesInv /\ BatchInv /\ ReadersInv /\ UnloadInv
-----------------------------------------------------------------------------
(* Sequences as the sets of their elements. *)
LEMMA AppendFacts ==
    ASSUME NEW S, NEW s \in Seq(S), NEW x \in S
    PROVE  /\ Append(s, x) \in Seq(S)
           /\ ToSet(Append(s, x)) = ToSet(s) \cup {x}
           /\ Once(s) /\ x \notin ToSet(s) => Once(Append(s, x))
           /\ Len(Append(s, x)) = Len(s) + 1 /\ Len(s) \in Nat
           /\ \A i \in 1 .. Len(s) : Append(s, x)[i] = s[i]
           /\ Append(s, x)[Len(s) + 1] = x
           /\ DOMAIN s = 1 .. Len(s) /\ DOMAIN Append(s, x) = 1 .. Len(s) + 1
<1>1. /\ Append(s, x) \in Seq(S)
      /\ Len(Append(s, x)) = Len(s) + 1 /\ Len(s) \in Nat
      /\ \A i \in 1 .. Len(s) : Append(s, x)[i] = s[i]
      /\ Append(s, x)[Len(s) + 1] = x
      /\ DOMAIN s = 1 .. Len(s) /\ DOMAIN Append(s, x) = 1 .. Len(s) + 1
  OBVIOUS
<1>2. ToSet(Append(s, x)) = ToSet(s) \cup {x}
  BY <1>1 DEF ToSet
<1>3. Once(s) /\ x \notin ToSet(s) => Once(Append(s, x))
  BY <1>1 DEF ToSet, Once
<1> QED
  BY <1>1, <1>2, <1>3

LEMMA TailFacts ==
    ASSUME NEW S, NEW s \in Seq(S), s # <<>>
    PROVE  /\ Head(s) \in S /\ Tail(s) \in Seq(S)
           /\ ToSet(s) = ToSet(Tail(s)) \cup {Head(s)}
           /\ Once(s) => Once(Tail(s)) /\ Head(s) \notin ToSet(Tail(s))
           /\ Len(s) \in Nat /\ Len(s) > 0 /\ Len(Tail(s)) = Len(s) - 1
           /\ \A i \in DOMAIN Tail(s) : i + 1 \in DOMAIN s /\ Tail(s)[i] = s[i + 1]
           /\ 1 \in DOMAIN s /\ s[1] = Head(s)
<1>1. /\ Head(s) \in S /\ Tail(s) \in Seq(S)
      /\ Len(s) \in Nat /\ Len(s) > 0 /\ Len(Tail(s)) = Len(s) - 1
      /\ DOMAIN s = 1 .. Len(s) /\ DOMAIN Tail(s) = 1 .. Len(s) - 1
      /\ \A i \in 1 .. Len(s) - 1 : Tail(s)[i] = s[i + 1]
      /\ Head(s) = s[1]
  BY HeadTailProperties, LenProperties
<1>2. \A i \in DOMAIN s : i = 1 \/ (i - 1 \in DOMAIN Tail(s) /\ Tail(s)[i - 1] = s[i])
  BY <1>1
<1>3. ToSet(s) = ToSet(Tail(s)) \cup {Head(s)}
  <2>1. \A x \in ToSet(s) : x \in ToSet(Tail(s)) \cup {Head(s)}
    BY <1>1, <1>2 DEF ToSet
  <2>2. ToSet(Tail(s)) \subseteq ToSet(s)
    BY <1>1 DEF ToSet
  <2>3. Head(s) \in ToSet(s)
    BY <1>1 DEF ToSet
  <2> QED
    BY <2>1, <2>2, <2>3
<1>4. Once(s) => Once(Tail(s)) /\ Head(s) \notin ToSet(Tail(s))
  BY <1>1 DEF ToSet, Once
<1> QED
  BY <1>1, <1>3, <1>4

LEMMA EmptyFacts == ToSet(<<>>) = {} /\ Once(<<>>)
  BY DEF ToSet, Once

(* Only the empty sequence has no elements. *)
LEMMA EmptySet ==
    ASSUME NEW S, NEW s \in Seq(S), ToSet(s) = {}
    PROVE  s = <<>>
<1>1. ASSUME s # <<>> PROVE FALSE
  <2>1. ToSet(s) = ToSet(Tail(s)) \cup {Head(s)}
    BY <1>1, TailFacts
  <2> QED
    BY <2>1
<1> QED
  BY <1>1

-----------------------------------------------------------------------------
(* The invariant holds initially. *)
LEMMA InitIInv == RcuInit => IInv
<1> SUFFICES ASSUME RcuInit PROVE IInv
  OBVIOUS
<1> USE RcuAssumption, EmptyFacts DEF RcuInit
<1>1. RcuTypeOK
  <2>1. pointer \in Objects
    OBVIOUS
  <2>2. /\ held \in [Processors -> Objects \cup {Nothing, "reading"}]
        /\ barrier \in [Barriers -> {"no", "waiting", "done"}]
    OBVIOUS
  <2>3. callerThread \in [at : {"wait", "sync", "call", "gone"},
                   batch : Seq(Objects \cup Barriers),
                   insert : SUBSET Processors, await : SUBSET Processors]
    OBVIOUS
  <2> QED
    BY <2>1, <2>2, <2>3 DEF RcuTypeOK
<1>2. PlacesInv /\ BatchInv
  BY <1>1 DEF PlacesInv, BatchInv, Busy, RcuTypeOK
<1>3. ReadersInv
  BY DEF ReadersInv
<1>4. UnloadInv
  BY DEF UnloadInv, Unloading
<1> QED
  BY <1>1, <1>2, <1>3, <1>4 DEF IInv

-----------------------------------------------------------------------------
(* Every action preserves the invariant. *)
LEMMA ReaderKeeps ==
    ASSUME IInv, NEW p \in Processors,
           RcuReadLock(p) \/ RcuDereference(p) \/ RcuReadUnlock(p)
    PROVE  IInv'
<1> USE RcuAssumption DEF IInv, RcuReadLock, RcuDereference, RcuReadUnlock
<1>1. RcuTypeOK'
  BY DEF RcuTypeOK
<1>2. PlacesInv'
  BY DEF PlacesInv, Busy
<1>3. BatchInv' /\ UnloadInv'
  BY DEF BatchInv, UnloadInv, Unloading
<1>4. ReadersInv'
  BY DEF ReadersInv, RcuTypeOK
<1> QED
  BY <1>1, <1>2, <1>3, <1>4

LEMMA AssignKeeps ==
    ASSUME IInv, NEW o \in Objects, RcuAssignPointer(o)
    PROVE  IInv'
<1> USE RcuAssumption DEF IInv, RcuAssignPointer
<1>1. RcuTypeOK'
  BY DEF RcuTypeOK
<1>2. PlacesInv'
  <2>1. /\ pointer' = o /\ replaced' = pointer
        /\ UNCHANGED <<callbacks, callerThread, freed>>
    OBVIOUS
  <2>2. /\ o # pointer /\ o \notin ToSet(callbacks) /\ o \notin ToSet(callerThread.batch)
        /\ o \notin freed
    BY DEF Busy
  <2>3. /\ pointer \notin ToSet(callbacks) /\ pointer \notin ToSet(callerThread.batch)
        /\ pointer \notin freed
        /\ (ToSet(callbacks) \cup ToSet(callerThread.batch)) \cap freed = {}
    BY DEF PlacesInv, Busy
  <2>4. Busy' = {o, pointer} \cup ToSet(callbacks) \cup ToSet(callerThread.batch)
    BY <2>1 DEF Busy
  <2>5. Busy' \cap freed' = {}
    BY <2>1, <2>2, <2>3, <2>4
  <2> QED
    BY <2>1, <2>2, <2>3, <2>5 DEF PlacesInv
<1>3. BatchInv' /\ UnloadInv'
  BY DEF BatchInv, UnloadInv, Unloading
<1>4. ReadersInv'
  BY DEF ReadersInv, RcuTypeOK
<1> QED
  BY <1>1, <1>2, <1>3, <1>4

LEMMA CallKeeps ==
    ASSUME IInv, RcuCall
    PROVE  IInv'
<1> USE RcuAssumption DEF IInv, RcuCall, Enqueue
<1>0. /\ callbacks \in Seq(Objects \cup Barriers) /\ replaced \in Objects
      /\ replaced \notin ToSet(callbacks) /\ callbacks' = Append(callbacks, replaced)
      /\ ToSet(callbacks') = ToSet(callbacks) \cup {replaced}
      /\ Once(callbacks')
      /\ callbacks' \in Seq(Objects \cup Barriers)
  BY AppendFacts DEF RcuTypeOK, PlacesInv
<1>1. RcuTypeOK'
  BY <1>0 DEF RcuTypeOK
<1>2. PlacesInv'
  <2>1. /\ replaced' = Nothing /\ pointer' = pointer
        /\ UNCHANGED <<callerThread, freed>>
    OBVIOUS
  <2>2. /\ pointer # replaced /\ replaced \notin ToSet(callerThread.batch)
        /\ replaced \notin freed
        /\ pointer \notin ToSet(callbacks) /\ pointer \notin ToSet(callerThread.batch)
        /\ ToSet(callbacks) \cap ToSet(callerThread.batch) = {} /\ Once(callerThread.batch)
        /\ ({pointer} \cup ToSet(callbacks) \cup ToSet(callerThread.batch)) \cap freed = {}
    BY DEF PlacesInv, Busy
  <2>3. ToSet(callbacks) \subseteq Objects \cup Barriers
    BY <1>0 DEF ToSet
  <2>4. ToSet(callerThread.batch) \subseteq Objects \cup Barriers
    BY DEF ToSet, RcuTypeOK
  <2>5. /\ Nothing \notin ToSet(callbacks') /\ Nothing \notin ToSet(callerThread.batch)
        /\ Nothing \notin freed /\ Nothing # pointer
    BY <1>0, <2>3, <2>4 DEF RcuTypeOK
  <2>6. Busy' = {pointer, Nothing, replaced} \cup ToSet(callbacks) \cup ToSet(callerThread.batch)
    BY <1>0, <2>1 DEF Busy
  <2>7. Busy' \cap freed' = {}
    BY <2>1, <2>2, <2>5, <2>6
  <2> QED
    BY <1>0, <2>1, <2>2, <2>5, <2>7 DEF PlacesInv
<1>3. BatchInv'
  BY DEF BatchInv
<1>4. ReadersInv'
  BY <1>0 DEF ReadersInv
<1>5. UnloadInv'
  <2>1. ~Unloading /\ barrier' = barrier
    BY DEF UnloadInv
  <2>2. Unloader \notin ToSet(callbacks) \cup ToSet(callerThread.batch)
    BY <2>1 DEF UnloadInv, Unloading
  <2>3. \A i \in DOMAIN callbacks' : callbacks'[i] # Unloader
    BY <1>0, <2>2 DEF ToSet
  <2>4. \A i \in DOMAIN callerThread.batch : callerThread.batch[i] # Unloader
    BY <2>2 DEF ToSet
  <2> QED
    BY <1>0, <2>1, <2>3, <2>4 DEF UnloadInv, Unloading
<1> QED
  BY <1>1, <1>2, <1>3, <1>4, <1>5

LEMMA BarrierKeeps ==
    ASSUME IInv, NEW b \in Barriers, RcuBarrier(b)
    PROVE  IInv'
<1> USE RcuAssumption DEF IInv, RcuBarrier, Enqueue
<1>0. /\ callbacks \in Seq(Objects \cup Barriers) /\ b \in Objects \cup Barriers
      /\ b \notin ToSet(callbacks) \cup ToSet(callerThread.batch)
      /\ callbacks' = Append(callbacks, b)
  BY DEF RcuTypeOK, UnloadInv
<1>a. /\ ToSet(callbacks') = ToSet(callbacks) \cup {b}
      /\ Once(callbacks) => Once(callbacks')
      /\ callbacks' \in Seq(Objects \cup Barriers)
  BY <1>0, AppendFacts
<1>1. RcuTypeOK'
  BY <1>a DEF RcuTypeOK
<1>2. PlacesInv'
  BY <1>0, <1>a DEF PlacesInv, Busy, RcuTypeOK
<1>3. BatchInv'
  BY DEF BatchInv
<1>4. ReadersInv'
  BY <1>0, <1>a DEF ReadersInv
<1>5. UnloadInv'
  <2>1. /\ \A c \in Barriers :
             barrier'[c] = "waiting" <=> c \in ToSet(callbacks') \cup ToSet(callerThread'.batch)
    BY <1>0, <1>a DEF UnloadInv, RcuTypeOK
  <2>2. Unloader \notin ToSet(callbacks) \cup ToSet(callerThread.batch)
    BY DEF UnloadInv, Unloading
  <2>3. \A i \in DOMAIN callbacks : callbacks[i] # Unloader
    BY <2>2 DEF ToSet
  <2>4. \A i \in DOMAIN callbacks' : i \in DOMAIN callbacks \/ i = Len(callbacks')
    BY <1>0, AppendFacts
  <2>5. \A i \in DOMAIN callbacks : callbacks'[i] = callbacks[i]
    BY <1>0, AppendFacts
  <2>6. \A i \in DOMAIN callbacks' : callbacks'[i] = Unloader => i = Len(callbacks')
    BY <2>3, <2>4, <2>5
  <2>7. \A i \in DOMAIN callerThread.batch : callerThread.batch[i] # Unloader
    BY <2>2 DEF ToSet
  <2>8. Unloading' => replaced' = Nothing
    BY DEF UnloadInv, Unloading, RcuTypeOK
  <2>9. barrier'[Unloader] # "done" /\ ~Terminate'
    BY DEF UnloadInv, Unloading, RcuTypeOK
  <2> QED
    BY <2>1, <2>6, <2>7, <2>8, <2>9 DEF UnloadInv
<1> QED
  BY <1>1, <1>2, <1>3, <1>4, <1>5

LEMMA UnloadKeeps ==
    ASSUME IInv, RcuUnload
    PROVE  IInv'
<1> USE RcuAssumption DEF IInv, RcuUnload
<1>1. RcuTypeOK'
  BY DEF RcuTypeOK
<1>2. PlacesInv' /\ BatchInv' /\ ReadersInv'
  BY DEF PlacesInv, Busy, BatchInv, ReadersInv
<1>3. UnloadInv'
  BY DEF UnloadInv, Unloading
<1> QED
  BY <1>1, <1>2, <1>3

(* The list becomes the batch, and every processor is to be asked. *)
LEMMA TakeKeeps ==
    ASSUME IInv, TakeCallbacks
    PROVE  IInv'
<1> USE RcuAssumption, EmptyFacts DEF IInv, TakeCallbacks
<1>0. /\ callerThread.batch = <<>> /\ callbacks' = <<>>
      /\ callerThread'.batch = callbacks /\ callerThread'.at = "sync"
      /\ callerThread'.insert = Processors /\ callerThread'.await = {}
  BY DEF BatchInv
<1>1. RcuTypeOK'
  <2>1. /\ callerThread' \in [at : {"wait", "sync", "call", "gone"},
                        batch : Seq(Objects \cup Barriers),
                        insert : SUBSET Processors, await : SUBSET Processors]
    BY DEF RcuTypeOK
  <2>2. callbacks' \in Seq(Objects \cup Barriers)
    OBVIOUS
  <2> QED
    BY <2>1, <2>2 DEF RcuTypeOK
<1>2. PlacesInv'
  BY <1>0 DEF PlacesInv, Busy
<1>3. BatchInv'
  BY <1>0 DEF BatchInv
<1>4. ReadersInv'
  BY <1>0 DEF ReadersInv
<1>5. UnloadInv'
  BY <1>0 DEF UnloadInv, Unloading
<1> QED
  BY <1>1, <1>2, <1>3, <1>4, <1>5

(* RcuSynchronize: only a processor below DISPATCH_LEVEL ends its part of it. *)
LEMMA SynchronizeKeeps ==
    ASSUME IInv,
           \/ \E p \in Processors : KeInsertQueueDpc(p) \/ ProcessorTick(p)
           \/ SynchronizeEnds
    PROVE  IInv'
<1> USE RcuAssumption DEF IInv
<1>1. ASSUME NEW p \in Processors, KeInsertQueueDpc(p) PROVE IInv'
  <2> USE <1>1 DEF KeInsertQueueDpc
  <2>0. /\ callerThread'.batch = callerThread.batch /\ callerThread'.at = "sync" /\ callerThread.at = "sync"
        /\ callerThread'.insert = callerThread.insert \ {p} /\ callerThread'.await = callerThread.await \cup {p}
        /\ p \in callerThread.insert
    BY DEF RcuTypeOK
  <2>1. /\ callerThread'.batch = callerThread.batch /\ callerThread'.at = "sync" /\ callerThread.at = "sync"
        /\ callerThread'.insert \cup callerThread'.await = callerThread.insert \cup callerThread.await
    BY <2>0
  <2>2. RcuTypeOK'
    BY DEF RcuTypeOK
  <2>3. PlacesInv' /\ BatchInv' /\ ReadersInv' /\ UnloadInv'
    BY <2>1 DEF PlacesInv, Busy, BatchInv, ReadersInv, UnloadInv, Unloading
  <2> QED
    BY <2>2, <2>3
<1>2. ASSUME NEW p \in Processors, ProcessorTick(p) PROVE IInv'
  <2> USE <1>2 DEF ProcessorTick, BelowDispatch
  <2>1. /\ callerThread'.batch = callerThread.batch /\ callerThread'.at = callerThread.at
        /\ callerThread'.insert = callerThread.insert /\ callerThread'.await = callerThread.await \ {p}
    BY DEF RcuTypeOK
  <2>2. RcuTypeOK'
    BY DEF RcuTypeOK
  <2>3. PlacesInv' /\ BatchInv' /\ UnloadInv'
    BY <2>1 DEF PlacesInv, Busy, BatchInv, UnloadInv, Unloading
  <2>4. ReadersInv'
    BY <2>1 DEF ReadersInv
  <2> QED
    BY <2>2, <2>3, <2>4
<1>3. CASE SynchronizeEnds
  <2> USE <1>3 DEF SynchronizeEnds
  <2>1. /\ callerThread'.batch = callerThread.batch /\ callerThread'.at = "call"
        /\ callerThread'.insert = {} /\ callerThread'.await = {}
        /\ callerThread.insert = {} /\ callerThread.await = {}
    BY DEF RcuTypeOK
  <2>2. RcuTypeOK'
    BY DEF RcuTypeOK
  <2>3. PlacesInv' /\ BatchInv' /\ ReadersInv' /\ UnloadInv'
    BY <2>1 DEF PlacesInv, Busy, BatchInv, ReadersInv, UnloadInv, Unloading
  <2> QED
    BY <2>2, <2>3
<1> QED
  BY <1>1, <1>2, <1>3

LEMMA RunCallbackKeeps ==
    ASSUME IInv, RunCallback
    PROVE  IInv'
<1> DEFINE x == Head(callerThread.batch)
<1> USE RcuAssumption DEF IInv
<1>0. /\ callerThread.at = "call" /\ callerThread.batch # <<>>
      /\ callerThread'.batch = Tail(callerThread.batch) /\ callerThread'.at = "call"
      /\ callerThread'.insert = callerThread.insert /\ callerThread'.await = callerThread.await
      /\ callerThread.insert = {} /\ callerThread.await = {}
      /\ UNCHANGED <<pointer, held, replaced, callbacks, WorkPending, Terminate>>
  BY DEF RunCallback, RcuTypeOK, BatchInv
<1>a. /\ callerThread.batch \in Seq(Objects \cup Barriers)
      /\ x \in Objects \cup Barriers /\ Tail(callerThread.batch) \in Seq(Objects \cup Barriers)
      /\ ToSet(callerThread.batch) = ToSet(callerThread'.batch) \cup {x}
      /\ Once(callerThread'.batch) /\ x \notin ToSet(callerThread'.batch)
  BY <1>0, TailFacts DEF RcuTypeOK, PlacesInv
<1>b. \/ x \in Objects /\ freed' = freed \cup {x} /\ barrier' = barrier
      \/ x \in Barriers /\ freed' = freed /\ barrier' = [barrier EXCEPT ![x] = "done"]
  BY <1>a DEF RunCallback
<1>1. RcuTypeOK'
  <2>1. callerThread' = [callerThread EXCEPT !.batch = Tail(@)]
    BY DEF RunCallback
  <2>2. callerThread' \in [at : {"wait", "sync", "call", "gone"},
                     batch : Seq(Objects \cup Barriers),
                     insert : SUBSET Processors, await : SUBSET Processors]
    BY <1>a, <2>1 DEF RcuTypeOK
  <2>3. freed' \subseteq Objects /\ barrier' \in [Barriers -> {"no", "waiting", "done"}]
    BY <1>b DEF RcuTypeOK
  <2> QED
    BY <1>0, <2>2, <2>3 DEF RcuTypeOK
<1>2. PlacesInv'
  BY <1>0, <1>a, <1>b DEF PlacesInv, Busy, RcuTypeOK
<1>3. BatchInv'
  BY <1>0 DEF BatchInv
<1>4. ReadersInv'
  BY <1>0 DEF ReadersInv
<1>5. UnloadInv'
  <2>1. \A b \in Barriers :
          barrier'[b] = "waiting" <=> b \in ToSet(callbacks') \cup ToSet(callerThread'.batch)
    <3>1. x \notin ToSet(callbacks)
      BY <1>a DEF PlacesInv
    <3> QED
      BY <1>0, <1>a, <1>b, <3>1 DEF UnloadInv, RcuTypeOK
  <2>2. \A i \in DOMAIN callerThread'.batch :
          callerThread'.batch[i] = Unloader => i = Len(callerThread'.batch) /\ callbacks' = <<>>
    <3> SUFFICES ASSUME NEW i \in DOMAIN callerThread'.batch, callerThread'.batch[i] = Unloader
                 PROVE  i = Len(callerThread'.batch) /\ callbacks' = <<>>
      OBVIOUS
    <3>1. /\ i + 1 \in DOMAIN callerThread.batch /\ callerThread.batch[i + 1] = Unloader
          /\ Len(callerThread'.batch) = Len(callerThread.batch) - 1 /\ Len(callerThread.batch) \in Nat
          /\ i \in Nat
      BY <1>0, <1>a, TailFacts, LenProperties
    <3>2. i + 1 = Len(callerThread.batch) /\ callbacks = <<>>
      BY <3>1 DEF UnloadInv
    <3> QED
      BY <1>0, <3>1, <3>2
  <2>3. barrier'[Unloader] = "done" => callbacks' = <<>> /\ callerThread'.batch = <<>>
    <3>1. CASE barrier[Unloader] = "done"
      BY <1>0, <3>1 DEF UnloadInv
    <3>2. CASE x = Unloader
      <4>1. 1 \in DOMAIN callerThread.batch /\ callerThread.batch[1] = Unloader
        BY <1>0, <1>a, <3>2, TailFacts
      <4>2. Len(callerThread.batch) = 1 /\ callbacks = <<>>
        BY <4>1 DEF UnloadInv
      <4>3. Len(callerThread'.batch) = 0
        BY <1>0, <1>a, <4>2, TailFacts
      <4> QED
        BY <1>0, <1>a, <4>2, <4>3, EmptySeq
    <3> QED
      BY <1>a, <1>b, <3>1, <3>2 DEF RcuTypeOK
  <2>4. Unloading' => replaced' = Nothing
    <3>1. CASE x = Unloader
      BY <1>0, <1>a, <3>1 DEF UnloadInv, Unloading
    <3>2. CASE x # Unloader
      BY <1>0, <1>b, <3>2 DEF UnloadInv, Unloading, RcuTypeOK
    <3> QED
      BY <3>1, <3>2
  <2>5. Terminate' => barrier'[Unloader] = "done"
    BY <1>0, <1>b DEF UnloadInv, RcuTypeOK
  <2> QED
    BY <1>0, <2>1, <2>2, <2>3, <2>4, <2>5 DEF UnloadInv
<1> QED
  BY <1>1, <1>2, <1>3, <1>4, <1>5

LEMMA CallbacksDoneKeeps ==
    ASSUME IInv, CallbacksDone
    PROVE  IInv'
<1> USE RcuAssumption DEF IInv, CallbacksDone
<1>0. /\ callerThread'.batch = callerThread.batch /\ callerThread.batch = <<>>
      /\ callerThread'.at = IF Terminate THEN "gone" ELSE "wait"
      /\ callerThread'.insert = callerThread.insert /\ callerThread'.await = callerThread.await
  BY DEF RcuTypeOK
<1>1. RcuTypeOK'
  BY DEF RcuTypeOK
<1>2. PlacesInv' /\ BatchInv' /\ ReadersInv'
  BY <1>0 DEF PlacesInv, Busy, BatchInv, ReadersInv
<1>3. UnloadInv'
  BY <1>0 DEF UnloadInv, Unloading
<1> QED
  BY <1>1, <1>2, <1>3

LEMMA NextIInv == IInv /\ [RcuNext]_rcuVars => IInv'
<1> SUFFICES ASSUME IInv, [RcuNext]_rcuVars PROVE IInv'
  OBVIOUS
<1>1. CASE UNCHANGED rcuVars
  BY <1>1
  DEF rcuVars, IInv, RcuTypeOK, PlacesInv, Busy, BatchInv, ReadersInv, UnloadInv,
     Unloading
<1>2. CASE RcuNext
  BY <1>2, ReaderKeeps, AssignKeeps, CallKeeps, BarrierKeeps, UnloadKeeps, TakeKeeps,
     SynchronizeKeeps, RunCallbackKeeps, CallbacksDoneKeeps DEF RcuNext
<1> QED
  BY <1>1, <1>2

-----------------------------------------------------------------------------
(* Reading, updating, RcuCall, RcuBarrier, RcuSynchronize and the unloading of rcu.c
   keep the invariant above. *)
THEOREM RcuInvariance == RcuSpec => []IInv
<1>1. RcuInit => IInv
  BY InitIInv
<1>2. IInv /\ [RcuNext]_rcuVars => IInv'
  BY NextIInv
<1> QED
  BY <1>1, <1>2, PTL DEF RcuSpec

(* Whatever number of processors read: what a reader got from RcuDereference is not
   freed by a callback of RcuCall before its RcuReadUnlock. *)
THEOREM ReadersProtected == RcuSpec => []GracePeriod
<1>1. IInv => GracePeriod
  BY RcuAssumption
  DEF IInv, RcuTypeOK, PlacesInv, Busy, ReadersInv, BatchInv, GracePeriod
<1> QED
  BY <1>1, RcuInvariance, PTL

(* When CallerThread has ended, RcuUnload leaves no callback and no thread waiting
   in RcuBarrier behind. *)
THEOREM NothingLeftBehind == RcuSpec => []UnloadComplete
<1>1. IInv => UnloadComplete
  BY EmptyFacts DEF IInv, UnloadInv, BatchInv, UnloadComplete
<1> QED
  BY <1>1, RcuInvariance, PTL

-----------------------------------------------------------------------------
(* The timers of a peer.                                                   *)

Working == {"mod", "acquire", "mark", "set", "release", "delete", "removeDpc", "unpend"}
ConfigSteps == {"idle", "delete", "removeDpc", "unpend", "wait", "stop", "flush", "put",
                "removed"}

(* Where each kind of thread can be, and that it works on a real timer. *)
Roles ==
    /\ \A c \in Callers : stage[c] \in Working \cup {"idle"}
    /\ \A c \in Cpus : stage[c] \in Working \cup {"idle", "callback"}
    /\ stage[Config] \in ConfigSteps
    /\ \A th \in TimerThreads : stage[th] \in Working => timer[th] \in Timers

(* InUse is held exactly from its acquisition to its release. *)
HoldsInUse ==
    \A th \in TimerThreads : th \in InUse <=> stage[th] \in {"mark", "set", "release"}

(* How far PeerRemove has come. *)
Removal ==
    /\ Config \in refs <=> stage[Config] # "removed"
    /\ stage[Config] = "idle" => ~closing
    /\ stage[Config] \in {"wait", "put", "removed"} => closing
    /\ closing /\ stage[Config] # "wait" => InUse = {}

(* Once InUse is closed and released, TimersStop makes progress that   *)
(* nobody undoes: deleted timers are not set, flushed processors rest. *)
Stopping ==
    closing /\ stage[Config] # "wait" =>
        /\ \A t \in armed : t \in left \/ (stage[Config] = "delete" /\ t = timer[Config])
        /\ stage[Config] \in {"flush", "put", "removed"} =>
              /\ left = {}
              /\ \A c \in Cpus \ unflushed :
                    stage[c] = "idle" /\ \A t \in Timers : dpc[t] # c
        /\ stage[Config] \in {"put", "removed"} => unflushed = {}

TimerIInv == TimerTypeOK /\ Roles /\ HoldsInUse /\ Removal /\ Stopping /\ PendingIsHonest

(* The types are kept; that a thread works on a real timer is part of Roles. *)
LEMMA TypeInductive == TimerIInv /\ [TimerNext]_timerVars => TimerTypeOK'
<1> SUFFICES ASSUME TimerIInv, [TimerNext]_timerVars PROVE TimerTypeOK'
  OBVIOUS
<1> USE TimerAssumption DEF TimerIInv, TimerTypeOK, TimerThreads, Steps, Roles, Working
<1>1. ASSUME UNCHANGED <<isUp, closing, InUse, refs, armed, dpc, pending, stage, timer, left,
     unflushed>> PROVE TimerTypeOK'
  BY <1>1
<1>2. ASSUME NEW c \in Callers, PeerGet(c) PROVE TimerTypeOK'
  BY <1>2 DEF PeerGet
<1>3. ASSUME NEW c \in Callers, PeerPut(c) PROVE TimerTypeOK'
  BY <1>3 DEF PeerPut
<1>4. ASSUME NEW th \in TimerThreads, NEW t \in Timers, CallMod(th, t) PROVE TimerTypeOK'
  BY <1>4 DEF CallMod, MayCall, StepTo
<1>5. ASSUME NEW th \in TimerThreads, NEW t \in Timers, CallDelete(th, t) PROVE TimerTypeOK'
  BY <1>5 DEF CallDelete, MayCall, StepTo
<1>6. ASSUME NEW th \in TimerThreads, ReadIsUp(th) PROVE TimerTypeOK'
  BY <1>6 DEF ReadIsUp, StepTo, Return
<1>7. ASSUME NEW th \in TimerThreads, AcquireInUse(th) PROVE TimerTypeOK'
  BY <1>7 DEF AcquireInUse, StepTo, Return
<1>8. ASSUME NEW th \in TimerThreads, MarkPending(th) PROVE TimerTypeOK'
  BY <1>8 DEF MarkPending, StepTo
<1>9. ASSUME NEW th \in TimerThreads, KeSetCoalescableTimer(th) PROVE TimerTypeOK'
  BY <1>9 DEF KeSetCoalescableTimer, StepTo
<1>10. ASSUME NEW th \in TimerThreads, ReleaseInUse(th) PROVE TimerTypeOK'
  BY <1>10 DEF ReleaseInUse, StepTo, Return
<1>11. ASSUME NEW th \in TimerThreads, KeCancelTimer(th) PROVE TimerTypeOK'
  BY <1>11 DEF KeCancelTimer, StepTo
<1>12. ASSUME NEW th \in TimerThreads, KeRemoveQueueDpc(th) PROVE TimerTypeOK'
  BY <1>12 DEF KeRemoveQueueDpc, StepTo
<1>13. ASSUME NEW th \in TimerThreads, ClearPending(th) PROVE TimerTypeOK'
  BY <1>13 DEF ClearPending, StepTo, Return
<1>14. ASSUME NEW t \in Timers, NEW c \in Cpus, Expire(t, c) PROVE TimerTypeOK'
  BY <1>14 DEF Expire
<1>15. ASSUME NEW t \in Timers, NEW c \in Cpus, TimerDpcCallback(c, t) PROVE TimerTypeOK'
  BY <1>15 DEF TimerDpcCallback, StepTo
<1>16. ASSUME NEW c \in Cpus, EndDpc(c) PROVE TimerTypeOK'
  BY <1>16 DEF EndDpc, StepTo
<1>17. ASSUME Up PROVE TimerTypeOK'
  BY <1>17 DEF Up
<1>18. ASSUME Down PROVE TimerTypeOK'
  BY <1>18 DEF Down, StepTo
<1>19. ASSUME PeerRemove PROVE TimerTypeOK'
  BY <1>19 DEF PeerRemove, StepTo
<1>20. ASSUME WaitForRundown PROVE TimerTypeOK'
  BY <1>20 DEF WaitForRundown, StepTo
<1>21. ASSUME BeginFlush PROVE TimerTypeOK'
  BY <1>21 DEF BeginFlush, StepTo
<1>22. ASSUME EndStop PROVE TimerTypeOK'
  BY <1>22 DEF EndStop, StepTo
<1>23. ASSUME RemoveReference PROVE TimerTypeOK'
  BY <1>23 DEF RemoveReference, StepTo
<1>24. ASSUME NEW t \in Timers, StopTimer(t) PROVE TimerTypeOK'
  BY <1>24 DEF StopTimer, StepTo
<1>25. ASSUME NEW c \in Cpus, FlushCpu(c) PROVE TimerTypeOK'
  BY <1>25 DEF FlushCpu
<1>26. QED
  BY <1>1, <1>2, <1>3, <1>4, <1>5, <1>6, <1>7, <1>8, <1>9, <1>10, <1>11, <1>12, <1>13,
     <1>14, <1>15, <1>16, <1>17, <1>18, <1>19, <1>20, <1>21, <1>22, <1>23, <1>24, <1>25
     DEF TimerNext, Step, Call, CallModIfIdle, ConfigStep, timerVars

(* No thread leaves the steps of its kind. *)
LEMMA RolesInductive == TimerIInv /\ [TimerNext]_timerVars => Roles'
<1> SUFFICES ASSUME TimerIInv, [TimerNext]_timerVars PROVE Roles'
  OBVIOUS
<1> USE TimerAssumption DEF TimerIInv, TimerTypeOK, TimerThreads, Roles, Working, ConfigSteps, Steps
<1>1. ASSUME UNCHANGED <<stage, timer>> PROVE Roles'
  BY <1>1
<1>2. ASSUME NEW th \in TimerThreads, NEW t \in Timers, CallMod(th, t) PROVE Roles'
  BY <1>2 DEF CallMod, MayCall, StepTo
<1>3. ASSUME NEW th \in TimerThreads, NEW t \in Timers, CallDelete(th, t) PROVE Roles'
  BY <1>3 DEF CallDelete, MayCall, StepTo
<1>4. ASSUME NEW th \in TimerThreads, ReadIsUp(th) PROVE Roles'
  BY <1>4 DEF ReadIsUp, StepTo, Return
<1>5. ASSUME NEW th \in TimerThreads, AcquireInUse(th) PROVE Roles'
  BY <1>5 DEF AcquireInUse, StepTo, Return
<1>6. ASSUME NEW th \in TimerThreads, MarkPending(th) PROVE Roles'
  BY <1>6 DEF MarkPending, StepTo
<1>7. ASSUME NEW th \in TimerThreads, KeSetCoalescableTimer(th) PROVE Roles'
  BY <1>7 DEF KeSetCoalescableTimer, StepTo
<1>8. ASSUME NEW th \in TimerThreads, ReleaseInUse(th) PROVE Roles'
  BY <1>8 DEF ReleaseInUse, StepTo, Return
<1>9. ASSUME NEW th \in TimerThreads, KeCancelTimer(th) PROVE Roles'
  BY <1>9 DEF KeCancelTimer, StepTo
<1>10. ASSUME NEW th \in TimerThreads, KeRemoveQueueDpc(th) PROVE Roles'
  BY <1>10 DEF KeRemoveQueueDpc, StepTo
<1>11. ASSUME NEW th \in TimerThreads, ClearPending(th) PROVE Roles'
  BY <1>11 DEF ClearPending, StepTo, Return
<1>12. ASSUME NEW t \in Timers, NEW c \in Cpus, TimerDpcCallback(c, t) PROVE Roles'
  BY <1>12 DEF TimerDpcCallback, StepTo
<1>13. ASSUME NEW c \in Cpus, EndDpc(c) PROVE Roles'
  BY <1>13 DEF EndDpc, StepTo
<1>14. ASSUME Down PROVE Roles'
  BY <1>14 DEF Down, StepTo
<1>15. ASSUME PeerRemove PROVE Roles'
  BY <1>15 DEF PeerRemove, StepTo
<1>16. ASSUME WaitForRundown PROVE Roles'
  BY <1>16 DEF WaitForRundown, StepTo
<1>17. ASSUME BeginFlush PROVE Roles'
  BY <1>17 DEF BeginFlush, StepTo
<1>18. ASSUME EndStop PROVE Roles'
  BY <1>18 DEF EndStop, StepTo
<1>19. ASSUME RemoveReference PROVE Roles'
  BY <1>19 DEF RemoveReference, StepTo
<1>20. ASSUME NEW t \in Timers, StopTimer(t) PROVE Roles'
  BY <1>20 DEF StopTimer, StepTo
<1>21. QED
  BY <1>1, <1>2, <1>3, <1>4, <1>5, <1>6, <1>7, <1>8, <1>9, <1>10, <1>11, <1>12, <1>13,
     <1>14, <1>15, <1>16, <1>17, <1>18, <1>19, <1>20 DEF TimerNext, Step, Call, CallModIfIdle,
     ConfigStep, timerVars, PeerGet, PeerPut, Expire, Up, FlushCpu

(* ModPeerTimer's acquisition and release of InUse match. *)
LEMMA HoldsInUseInductive == TimerIInv /\ [TimerNext]_timerVars => HoldsInUse'
<1> SUFFICES ASSUME TimerIInv, [TimerNext]_timerVars PROVE HoldsInUse'
  OBVIOUS
<1> USE TimerAssumption DEF TimerIInv, HoldsInUse, TimerTypeOK, TimerThreads, Roles, Working, ConfigSteps
<1>1. ASSUME UNCHANGED <<InUse, stage>> PROVE HoldsInUse'
  BY <1>1
<1>2. ASSUME NEW th \in TimerThreads, NEW t \in Timers, CallMod(th, t) PROVE HoldsInUse'
  BY <1>2 DEF CallMod, MayCall, StepTo
<1>3. ASSUME NEW th \in TimerThreads, NEW t \in Timers, CallDelete(th, t) PROVE HoldsInUse'
  BY <1>3 DEF CallDelete, MayCall, StepTo
<1>4. ASSUME NEW th \in TimerThreads, ReadIsUp(th) PROVE HoldsInUse'
  BY <1>4 DEF ReadIsUp, StepTo, Return
<1>5. ASSUME NEW th \in TimerThreads, AcquireInUse(th) PROVE HoldsInUse'
  BY <1>5 DEF AcquireInUse, StepTo, Return
<1>6. ASSUME NEW th \in TimerThreads, MarkPending(th) PROVE HoldsInUse'
  BY <1>6 DEF MarkPending, StepTo
<1>7. ASSUME NEW th \in TimerThreads, KeSetCoalescableTimer(th) PROVE HoldsInUse'
  BY <1>7 DEF KeSetCoalescableTimer, StepTo
<1>8. ASSUME NEW th \in TimerThreads, ReleaseInUse(th) PROVE HoldsInUse'
  BY <1>8 DEF ReleaseInUse, StepTo, Return
<1>9. ASSUME NEW th \in TimerThreads, KeCancelTimer(th) PROVE HoldsInUse'
  BY <1>9 DEF KeCancelTimer, StepTo
<1>10. ASSUME NEW th \in TimerThreads, KeRemoveQueueDpc(th) PROVE HoldsInUse'
  BY <1>10 DEF KeRemoveQueueDpc, StepTo
<1>11. ASSUME NEW th \in TimerThreads, ClearPending(th) PROVE HoldsInUse'
  BY <1>11 DEF ClearPending, StepTo, Return
<1>12. ASSUME NEW t \in Timers, NEW c \in Cpus, TimerDpcCallback(c, t) PROVE HoldsInUse'
  BY <1>12 DEF TimerDpcCallback, StepTo
<1>13. ASSUME NEW c \in Cpus, EndDpc(c) PROVE HoldsInUse'
  BY <1>13 DEF EndDpc, StepTo
<1>14. ASSUME Down PROVE HoldsInUse'
  BY <1>14 DEF Down, StepTo
<1>15. ASSUME PeerRemove PROVE HoldsInUse'
  BY <1>15 DEF PeerRemove, StepTo
<1>16. ASSUME WaitForRundown PROVE HoldsInUse'
  BY <1>16 DEF WaitForRundown, StepTo
<1>17. ASSUME BeginFlush PROVE HoldsInUse'
  BY <1>17 DEF BeginFlush, StepTo
<1>18. ASSUME EndStop PROVE HoldsInUse'
  BY <1>18 DEF EndStop, StepTo
<1>19. ASSUME RemoveReference PROVE HoldsInUse'
  BY <1>19 DEF RemoveReference, StepTo
<1>20. ASSUME NEW t \in Timers, StopTimer(t) PROVE HoldsInUse'
  BY <1>20 DEF StopTimer, StepTo
<1>21. QED
  BY <1>1, <1>2, <1>3, <1>4, <1>5, <1>6, <1>7, <1>8, <1>9, <1>10, <1>11, <1>12, <1>13,
     <1>14, <1>15, <1>16, <1>17, <1>18, <1>19, <1>20 DEF TimerNext, Step, Call, CallModIfIdle,
     ConfigStep, timerVars, PeerGet, PeerPut, Expire, Up, FlushCpu

(* After the wait nobody holds InUse again. *)
LEMMA RemovalInductive == TimerIInv /\ [TimerNext]_timerVars => Removal'
<1> SUFFICES ASSUME TimerIInv, [TimerNext]_timerVars PROVE Removal'
  OBVIOUS
<1> USE TimerAssumption DEF TimerIInv, Removal, HoldsInUse, TimerTypeOK, TimerThreads, Roles, Working,
     ConfigSteps
<1>1. ASSUME UNCHANGED <<refs, closing, InUse, stage>> PROVE Removal'
  BY <1>1
<1>2. ASSUME NEW c \in Callers, PeerGet(c) PROVE Removal'
  BY <1>2 DEF PeerGet
<1>3. ASSUME NEW c \in Callers, PeerPut(c) PROVE Removal'
  BY <1>3 DEF PeerPut
<1>4. ASSUME NEW th \in TimerThreads, NEW t \in Timers, CallMod(th, t) PROVE Removal'
  BY <1>4 DEF CallMod, MayCall, StepTo
<1>5. ASSUME NEW th \in TimerThreads, NEW t \in Timers, CallDelete(th, t) PROVE Removal'
  BY <1>5 DEF CallDelete, MayCall, StepTo
<1>6. ASSUME NEW th \in TimerThreads, ReadIsUp(th) PROVE Removal'
  BY <1>6 DEF ReadIsUp, StepTo, Return
<1>7. ASSUME NEW th \in TimerThreads, AcquireInUse(th) PROVE Removal'
  BY <1>7 DEF AcquireInUse, StepTo, Return
<1>8. ASSUME NEW th \in TimerThreads, MarkPending(th) PROVE Removal'
  BY <1>8 DEF MarkPending, StepTo
<1>9. ASSUME NEW th \in TimerThreads, KeSetCoalescableTimer(th) PROVE Removal'
  BY <1>9 DEF KeSetCoalescableTimer, StepTo
<1>10. ASSUME NEW th \in TimerThreads, ReleaseInUse(th) PROVE Removal'
  BY <1>10 DEF ReleaseInUse, StepTo, Return
<1>11. ASSUME NEW th \in TimerThreads, KeCancelTimer(th) PROVE Removal'
  BY <1>11 DEF KeCancelTimer, StepTo
<1>12. ASSUME NEW th \in TimerThreads, KeRemoveQueueDpc(th) PROVE Removal'
  BY <1>12 DEF KeRemoveQueueDpc, StepTo
<1>13. ASSUME NEW th \in TimerThreads, ClearPending(th) PROVE Removal'
  BY <1>13 DEF ClearPending, StepTo, Return
<1>14. ASSUME NEW t \in Timers, NEW c \in Cpus, TimerDpcCallback(c, t) PROVE Removal'
  BY <1>14 DEF TimerDpcCallback, StepTo
<1>15. ASSUME NEW c \in Cpus, EndDpc(c) PROVE Removal'
  BY <1>15 DEF EndDpc, StepTo
<1>16. ASSUME Down PROVE Removal'
  BY <1>16 DEF Down, StepTo
<1>17. ASSUME PeerRemove PROVE Removal'
  BY <1>17 DEF PeerRemove, StepTo
<1>18. ASSUME WaitForRundown PROVE Removal'
  BY <1>18 DEF WaitForRundown, StepTo
<1>19. ASSUME BeginFlush PROVE Removal'
  BY <1>19 DEF BeginFlush, StepTo
<1>20. ASSUME EndStop PROVE Removal'
  BY <1>20 DEF EndStop, StepTo
<1>21. ASSUME RemoveReference PROVE Removal'
  BY <1>21 DEF RemoveReference, StepTo
<1>22. ASSUME NEW t \in Timers, StopTimer(t) PROVE Removal'
  BY <1>22 DEF StopTimer, StepTo
<1>23. QED
  BY <1>1, <1>2, <1>3, <1>4, <1>5, <1>6, <1>7, <1>8, <1>9, <1>10, <1>11, <1>12, <1>13,
     <1>14, <1>15, <1>16, <1>17, <1>18, <1>19, <1>20, <1>21, <1>22 DEF TimerNext, Step, Call,
     CallModIfIdle, ConfigStep, timerVars, Expire, Up, FlushCpu

(* A timer is set only under InUse, a DPC queued only by a set timer. *)
LEMMA StoppingInductive == TimerIInv /\ [TimerNext]_timerVars => Stopping'
<1> SUFFICES ASSUME TimerIInv, [TimerNext]_timerVars PROVE Stopping'
  OBVIOUS
<1> USE TimerAssumption DEF TimerIInv, Stopping, Removal, HoldsInUse, TimerTypeOK, TimerThreads, Roles,
     Working, ConfigSteps
<1>1. ASSUME UNCHANGED <<closing, armed, dpc, stage, timer, left, unflushed>> PROVE Stopping'
  BY <1>1
<1>2. ASSUME NEW th \in TimerThreads, NEW t \in Timers, CallMod(th, t) PROVE Stopping'
  BY <1>2 DEF CallMod, MayCall, StepTo
<1>3. ASSUME NEW th \in TimerThreads, NEW t \in Timers, CallDelete(th, t) PROVE Stopping'
  BY <1>3 DEF CallDelete, MayCall, StepTo
<1>4. ASSUME NEW th \in TimerThreads, ReadIsUp(th) PROVE Stopping'
  BY <1>4 DEF ReadIsUp, StepTo, Return
<1>5. ASSUME NEW th \in TimerThreads, AcquireInUse(th) PROVE Stopping'
  BY <1>5 DEF AcquireInUse, StepTo, Return
<1>6. ASSUME NEW th \in TimerThreads, MarkPending(th) PROVE Stopping'
  BY <1>6 DEF MarkPending, StepTo
<1>7. ASSUME NEW th \in TimerThreads, KeSetCoalescableTimer(th) PROVE Stopping'
  BY <1>7 DEF KeSetCoalescableTimer, StepTo
<1>8. ASSUME NEW th \in TimerThreads, ReleaseInUse(th) PROVE Stopping'
  BY <1>8 DEF ReleaseInUse, StepTo, Return
<1>9. ASSUME NEW th \in TimerThreads, KeCancelTimer(th) PROVE Stopping'
  BY <1>9 DEF KeCancelTimer, StepTo
<1>10. ASSUME NEW th \in TimerThreads, KeRemoveQueueDpc(th) PROVE Stopping'
  BY <1>10 DEF KeRemoveQueueDpc, StepTo
<1>11. ASSUME NEW th \in TimerThreads, ClearPending(th) PROVE Stopping'
  BY <1>11 DEF ClearPending, StepTo, Return
<1>12. ASSUME NEW t \in Timers, NEW c \in Cpus, Expire(t, c) PROVE Stopping'
  BY <1>12 DEF Expire
<1>13. ASSUME NEW t \in Timers, NEW c \in Cpus, TimerDpcCallback(c, t) PROVE Stopping'
  BY <1>13 DEF TimerDpcCallback, StepTo
<1>14. ASSUME NEW c \in Cpus, EndDpc(c) PROVE Stopping'
  BY <1>14 DEF EndDpc, StepTo
<1>15. ASSUME Down PROVE Stopping'
  BY <1>15 DEF Down, StepTo
<1>16. ASSUME PeerRemove PROVE Stopping'
  BY <1>16 DEF PeerRemove, StepTo
<1>17. ASSUME WaitForRundown PROVE Stopping'
  BY <1>17 DEF WaitForRundown, StepTo
<1>18. ASSUME BeginFlush PROVE Stopping'
  BY <1>18 DEF BeginFlush, StepTo
<1>19. ASSUME EndStop PROVE Stopping'
  BY <1>19 DEF EndStop, StepTo
<1>20. ASSUME RemoveReference PROVE Stopping'
  BY <1>20 DEF RemoveReference, StepTo
<1>21. ASSUME NEW t \in Timers, StopTimer(t) PROVE Stopping'
  BY <1>21 DEF StopTimer, StepTo
<1>22. ASSUME NEW c \in Cpus, FlushCpu(c) PROVE Stopping'
  BY <1>22 DEF FlushCpu
<1>23. QED
  BY <1>1, <1>2, <1>3, <1>4, <1>5, <1>6, <1>7, <1>8, <1>9, <1>10, <1>11, <1>12, <1>13,
     <1>14, <1>15, <1>16, <1>17, <1>18, <1>19, <1>20, <1>21, <1>22 DEF TimerNext, Step, Call,
     CallModIfIdle, ConfigStep, timerVars, PeerGet, PeerPut, Up

(* Whoever takes a pending timer off a queue is about to clear the flag. *)
LEMMA PendingInductive == TimerIInv /\ [TimerNext]_timerVars => PendingIsHonest'
<1> SUFFICES ASSUME TimerIInv, [TimerNext]_timerVars PROVE PendingIsHonest'
  OBVIOUS
<1> USE TimerAssumption DEF TimerIInv, PendingIsHonest, TimerTypeOK, TimerThreads, Roles, Working,
     ConfigSteps
<1>1. ASSUME UNCHANGED <<armed, dpc, pending, stage, timer>> PROVE PendingIsHonest'
  BY <1>1
<1>2. ASSUME NEW th \in TimerThreads, NEW t \in Timers, CallMod(th, t) PROVE PendingIsHonest'
  BY <1>2 DEF CallMod, MayCall, StepTo
<1>3. ASSUME NEW th \in TimerThreads, NEW t \in Timers, CallDelete(th, t) PROVE PendingIsHonest'
  BY <1>3 DEF CallDelete, MayCall, StepTo
<1>4. ASSUME NEW th \in TimerThreads, ReadIsUp(th) PROVE PendingIsHonest'
  BY <1>4 DEF ReadIsUp, StepTo, Return
<1>5. ASSUME NEW th \in TimerThreads, AcquireInUse(th) PROVE PendingIsHonest'
  BY <1>5 DEF AcquireInUse, StepTo, Return
<1>6. ASSUME NEW th \in TimerThreads, MarkPending(th) PROVE PendingIsHonest'
  BY <1>6 DEF MarkPending, StepTo
<1>7. ASSUME NEW th \in TimerThreads, KeSetCoalescableTimer(th) PROVE PendingIsHonest'
  BY <1>7 DEF KeSetCoalescableTimer, StepTo
<1>8. ASSUME NEW th \in TimerThreads, ReleaseInUse(th) PROVE PendingIsHonest'
  BY <1>8 DEF ReleaseInUse, StepTo, Return
<1>9. ASSUME NEW th \in TimerThreads, KeCancelTimer(th) PROVE PendingIsHonest'
  BY <1>9 DEF KeCancelTimer, StepTo
<1>10. ASSUME NEW th \in TimerThreads, KeRemoveQueueDpc(th) PROVE PendingIsHonest'
  BY <1>10 DEF KeRemoveQueueDpc, StepTo
<1>11. ASSUME NEW th \in TimerThreads, ClearPending(th) PROVE PendingIsHonest'
  BY <1>11 DEF ClearPending, StepTo, Return
<1>12. ASSUME NEW t \in Timers, NEW c \in Cpus, Expire(t, c) PROVE PendingIsHonest'
  BY <1>12 DEF Expire
<1>13. ASSUME NEW t \in Timers, NEW c \in Cpus, TimerDpcCallback(c, t) PROVE
     PendingIsHonest'
  BY <1>13 DEF TimerDpcCallback, StepTo
<1>14. ASSUME NEW c \in Cpus, EndDpc(c) PROVE PendingIsHonest'
  BY <1>14 DEF EndDpc, StepTo
<1>15. ASSUME Down PROVE PendingIsHonest'
  BY <1>15 DEF Down, StepTo
<1>16. ASSUME PeerRemove PROVE PendingIsHonest'
  BY <1>16 DEF PeerRemove, StepTo
<1>17. ASSUME WaitForRundown PROVE PendingIsHonest'
  BY <1>17 DEF WaitForRundown, StepTo
<1>18. ASSUME BeginFlush PROVE PendingIsHonest'
  BY <1>18 DEF BeginFlush, StepTo
<1>19. ASSUME EndStop PROVE PendingIsHonest'
  BY <1>19 DEF EndStop, StepTo
<1>20. ASSUME RemoveReference PROVE PendingIsHonest'
  BY <1>20 DEF RemoveReference, StepTo
<1>21. ASSUME NEW t \in Timers, StopTimer(t) PROVE PendingIsHonest'
  BY <1>21 DEF StopTimer, StepTo
<1>22. QED
  BY <1>1, <1>2, <1>3, <1>4, <1>5, <1>6, <1>7, <1>8, <1>9, <1>10, <1>11, <1>12, <1>13,
     <1>14, <1>15, <1>16, <1>17, <1>18, <1>19, <1>20, <1>21 DEF TimerNext, Step, Call,
     CallModIfIdle, ConfigStep, timerVars, PeerGet, PeerPut, Up, FlushCpu

LEMMA TimerInitIInv == TimerInit => TimerIInv
  BY TimerAssumption
  DEF TimerInit, TimerIInv, TimerTypeOK, TimerThreads, Steps, Roles, Working,
      ConfigSteps, HoldsInUse, Removal, Stopping, PendingIsHonest

(* TimerIInv is inductive. *)
LEMMA Inductive == TimerSpec => []TimerIInv
<1>1. TimerIInv /\ [TimerNext]_timerVars => TimerIInv'
  BY TypeInductive, RolesInductive, HoldsInUseInductive, RemovalInductive,
     StoppingInductive, PendingInductive DEF TimerIInv
<1>2. QED
  BY <1>1, TimerInitIInv, PTL DEF TimerSpec

(* When the last reference goes, Config's is gone, so TimersStop has ended. *)
LEMMA QuietLemma == TimerIInv => ReleasedPeerIsQuiet
<1> SUFFICES ASSUME TimerIInv, refs = {}
             PROVE  /\ armed = {}
                    /\ \A t \in Timers : dpc[t] = NoTimer
                    /\ \A c \in Cpus : stage[c] = "idle"
  BY DEF ReleasedPeerIsQuiet
<1>1. stage[Config] = "removed" /\ closing
  BY DEF TimerIInv, Removal
<1>2. armed = {} /\ unflushed = {}
  BY <1>1 DEF TimerIInv, Stopping
<1>3. \A c \in Cpus : stage[c] = "idle" /\ \A t \in Timers : dpc[t] # c
  BY <1>1, <1>2 DEF TimerIInv, Stopping
<1>4. \A t \in Timers : dpc[t] = NoTimer
  BY <1>3 DEF TimerIInv, TimerTypeOK
<1>5. QED
  BY <1>2, <1>3, <1>4

(* Types, for any number of timers, callers and processors. *)
THEOREM TimersTypeCorrect == TimerSpec => []TimerTypeOK
<1>1. TimerIInv => TimerTypeOK
  BY DEF TimerIInv
<1>2. QED
  BY <1>1, Inductive, PTL

(* Pending is never left set for a timer that will not clear it: the code  *)
(* that sets only an idle timer (TimersDataSent, TimersDataReceived,       *)
(* ExpiredRetransmitHandshake) is not kept from it for ever.               *)
THEOREM PendingNeverStuck == TimerSpec => []PendingIsHonest
<1>1. TimerIInv => PendingIsHonest
  BY DEF TimerIInv
<1>2. QED
  BY <1>1, Inductive, PTL

(* PeerRemove's order (close InUse, wait, TimersStop, drop the reference)  *)
(* leaves no timer set and no DPC queued or running for a released peer.   *)
THEOREM ReleasedIsQuiet == TimerSpec => []ReleasedPeerIsQuiet
  BY QuietLemma, Inductive, PTL
-----------------------------------------------------------------------------
(* The NSI filter.  What it holds follows from where the one procedure is  *)
(* that has FilterLock, and from the list when nobody has it (FilterHeld). *)

(* The places of NsiActivate and NsiDeactivate under FilterLock. *)
Locked == {"notify", "open", "create", "stack", "undo", "insert", "remove", "cancel", "drain"}

NsiRequests ==
    [at : {"idle", "arrived", "passed", "walking", "leaving"}, of : Adapters \cup {NoThread},
     mtu : Nat, add : BOOLEAN, irp : BOOLEAN, old : BOOLEAN]

NsiTypeOK ==
    /\ DeviceList \subseteq Adapters
    /\ Mtu \in [Adapters -> Nat]
    /\ FilterLock \in Adapters \cup {NoThread}
    /\ doing \in [Adapters -> Locked \cup {"out", "in"}]
    /\ attached \subseteq {"IpInterfaceNotifier", "NsiFileObject", "FilterDevice", "Stack", "NsiDevice"}
    /\ FilterRundown \in {"completed", "active", "draining"}
    /\ request \in [Watchers -> NsiRequests]

(* The procedures run one at a time, and the list is of those that are in. *)
OneAtATime ==
    /\ \A d \in Adapters : doing[d] \in Locked <=> FilterLock = d
    /\ \A d \in Adapters : d \in DeviceList <=> doing[d] \in {"in", "remove"}

Complete == {"IpInterfaceNotifier", "FilterDevice", "Stack", "NsiDevice"}

(* What the filter holds when the list is as it is and nobody changes it. *)
Settled ==
    IF DeviceList = {} THEN attached = {} /\ FilterRundown = "completed"
    ELSE attached = Complete /\ FilterRundown = "active"

(* What it holds at each place of the procedures. *)
HeldAt(place) ==
    /\ place \in Locked \ {"insert", "remove"} => DeviceList = {}
    /\ place = "notify" => attached = {} /\ FilterRundown = "completed"
    /\ place = "open" => attached = {"IpInterfaceNotifier"} /\ FilterRundown = "completed"
    /\ place = "create" =>
         attached = {"IpInterfaceNotifier", "NsiFileObject"} /\ FilterRundown = "completed"
    /\ place = "stack" =>
         /\ attached = {"IpInterfaceNotifier", "NsiFileObject", "FilterDevice"}
         /\ FilterRundown = "active"
    /\ place = "undo" =>
         \/ FilterRundown = "completed"
         \/ /\ FilterRundown = "draining"
            /\ attached = {"IpInterfaceNotifier", "NsiFileObject", "FilterDevice"}
    /\ place \in {"insert", "remove", "cancel"} => attached = Complete /\ FilterRundown = "active"
    /\ place = "drain" => attached = {"FilterDevice", "NsiDevice"} /\ FilterRundown = "draining"

FilterHeld ==
    /\ FilterLock = NoThread => Settled
    /\ \A d \in Adapters : HeldAt(doing[d])

(* Requests that are under the rundown, and threads that walk the list. *)
RequestsInv ==
    /\ InFilter # {} => FilterRundown # "completed"
    /\ \A t \in Inside : request[t].of \in DeviceList

NsiIInv == NsiTypeOK /\ OneAtATime /\ FilterHeld /\ RequestsInv

(* A watcher that asks for nothing. *)
LEMMA IdleRequest == NsiIdle \in NsiRequests /\ NsiIdle.at = "idle" /\ NsiIdle.irp = FALSE
  BY DEF NsiIdle, NsiRequests

(* The table of Attach's steps. *)
LEMMA AttachSteps ==
    /\ DOMAIN After = {"notify", "open", "create"}
    /\ After["notify"] = "open" /\ After["open"] = "create" /\ After["create"] = "stack"
    /\ Acquired["notify"] = "IpInterfaceNotifier" /\ Acquired["open"] = "NsiFileObject"
    /\ Acquired["create"] = "FilterDevice"
  BY DEF After, Acquired

(* What an adapter's step does to the adapters that are not in a procedure. *)
LEMMA OthersHold ==
  ASSUME NsiTypeOK, OneAtATime, NEW d \in Adapters, FilterLock \in {d, NoThread},
         NEW where \in Locked \cup {"out", "in"}, GoesTo(d, where), HeldAt(where)'
  PROVE  \A e \in Adapters : HeldAt(doing[e])'
<1> SUFFICES ASSUME NEW e \in Adapters PROVE HeldAt(doing[e])'
  OBVIOUS
<1>1. CASE e = d
  BY <1>1 DEF GoesTo, NsiTypeOK, HeldAt
<1>2. CASE e # d
  <2>1. doing'[e] = doing[e] /\ doing[e] \notin Locked
    BY <1>2, NsiAssumption DEF GoesTo, NsiTypeOK, OneAtATime
  <2>2. QED
    BY <2>1 DEF HeldAt, Locked
<1>3. QED
  BY <1>1, <1>2

(* The types of the filter are kept by every step. *)
LEMMA NsiTypeInductive == NsiIInv /\ [NsiNext]_nsiVars => NsiTypeOK'
<1> SUFFICES ASSUME NsiIInv, [NsiNext]_nsiVars PROVE NsiTypeOK'
  OBVIOUS
<1> USE DEF NsiIInv
<1>1. ASSUME NEW d \in Adapters, NsiActivate(d) PROVE NsiTypeOK'
  BY <1>1 DEF NsiActivate, GoesTo, NsiTypeOK, Locked
<1>2. ASSUME NEW d \in Adapters, Attach(d) PROVE NsiTypeOK'
  BY <1>2, AttachSteps DEF Attach, GoesTo, NsiTypeOK, Locked
<1>3. ASSUME NEW d \in Adapters, AttachToStack(d) PROVE NsiTypeOK'
  BY <1>3 DEF AttachToStack, GoesTo, NsiTypeOK, Locked
<1>4. ASSUME NEW d \in Adapters, AttachFails(d) PROVE NsiTypeOK'
  BY <1>4 DEF AttachFails, GoesTo, NsiTypeOK, Locked
<1>5. ASSUME NEW d \in Adapters, UndoAttach(d) PROVE NsiTypeOK'
  BY <1>5 DEF UndoAttach, GoesTo, NsiTypeOK, Locked
<1>6. ASSUME NEW d \in Adapters, InsertDevice(d) PROVE NsiTypeOK'
  BY <1>6 DEF InsertDevice, GoesTo, NsiTypeOK, Locked
<1>7. ASSUME NEW d \in Adapters, NsiDeactivate(d) PROVE NsiTypeOK'
  BY <1>7 DEF NsiDeactivate, GoesTo, NsiTypeOK, Locked
<1>8. ASSUME NEW d \in Adapters, RemoveDevice(d) PROVE NsiTypeOK'
  BY <1>8 DEF RemoveDevice, GoesTo, NsiTypeOK, Locked
<1>9. ASSUME NEW d \in Adapters, CancelAndDetach(d) PROVE NsiTypeOK'
  BY <1>9 DEF CancelAndDetach, GoesTo, NsiTypeOK, Locked
<1>10. ASSUME NEW d \in Adapters, DeleteFilter(d) PROVE NsiTypeOK'
  <2>1. ASSUME NEW t \in Watchers
        PROVE  [request[t] EXCEPT !.old = request[t].at = "arrived"] \in NsiRequests
    BY DEF NsiTypeOK, NsiRequests
  <2>2. request' \in [Watchers -> NsiRequests]
    BY <1>10, <2>1 DEF DeleteFilter
  <2>3. QED
    BY <1>10, <2>2 DEF DeleteFilter, GoesTo, NsiTypeOK, Locked
<1>11. ASSUME NEW t \in Watchers, RequestArrives(t) PROVE NsiTypeOK'
  BY <1>11, NsiAssumption DEF RequestArrives, NsiTypeOK, NsiRequests
<1>12. ASSUME NEW t \in Watchers, FilterDispatch(t) PROVE NsiTypeOK'
  BY <1>12, IdleRequest DEF FilterDispatch, NsiTypeOK, NsiRequests
<1>13. ASSUME NEW t \in Watchers, NsiAnswers(t) PROVE NsiTypeOK'
  BY <1>13, IdleRequest DEF NsiAnswers, NsiTypeOK, NsiRequests, Walk
<1>14. ASSUME NEW t \in Watchers, IpInterfaceChangeNotification(t) PROVE NsiTypeOK'
  <2>1. PICK d \in Adapters, m \in MtuRequests, add \in BOOLEAN :
          Walk(t, [NsiIdle EXCEPT !.of = d, !.mtu = m, !.add = add])
    BY <1>14 DEF IpInterfaceChangeNotification
  <2> DEFINE row == [NsiIdle EXCEPT !.of = d, !.mtu = m, !.add = add]
  <2>2. row \in NsiRequests
    BY IdleRequest, NsiAssumption DEF NsiRequests
  <2> HIDE DEF row
  <2>3. request' \in [Watchers -> NsiRequests]
    BY <2>1, <2>2, IdleRequest DEF row, Walk, NsiRequests, NsiTypeOK
  <2>4. QED
    BY <1>14, <2>3 DEF IpInterfaceChangeNotification, NsiTypeOK
<1>15. ASSUME NEW t \in Watchers, WriteMtu(t) PROVE NsiTypeOK'
  <2>1. request[t] \in NsiRequests /\ request[t].mtu \in Nat
    BY DEF NsiTypeOK, NsiRequests
  <2>2. Mtu[request[t].of] \in Nat
    BY <1>15 DEF WriteMtu, RequestsInv, Inside, NsiTypeOK
  <2>3. NewMtus(request[t]) \subseteq Nat
    BY <2>1, <2>2, NsiAssumption DEF NewMtus, Capped, NsiTypeOK
  <2>4. Mtu' \in [Adapters -> Nat]
    BY <1>15, <2>3 DEF WriteMtu, NsiTypeOK
  <2>5. request' \in [Watchers -> NsiRequests]
    BY <1>15, IdleRequest DEF WriteMtu, NsiTypeOK, NsiRequests
  <2>6. QED
    BY <1>15, <2>4, <2>5 DEF WriteMtu, NsiTypeOK
<1>16. ASSUME NEW t \in Watchers, LeaveFilter(t) PROVE NsiTypeOK'
  BY <1>16, IdleRequest DEF LeaveFilter, NsiTypeOK, NsiRequests
<1>17. CASE UNCHANGED nsiVars
  BY <1>17 DEF nsiVars, NsiTypeOK
<1>18. QED
  BY <1>1, <1>2, <1>3, <1>4, <1>5, <1>6, <1>7, <1>8, <1>9, <1>10, <1>11, <1>12, <1>13,
      <1>14, <1>15, <1>16, <1>17 DEF NsiNext

(* FilterLock keeps the procedures apart, and the list follows what they did. *)
LEMMA OneAtATimeInductive == NsiIInv /\ [NsiNext]_nsiVars => OneAtATime'
<1> SUFFICES ASSUME NsiIInv, [NsiNext]_nsiVars PROVE OneAtATime'
  OBVIOUS
<1> USE DEF NsiIInv
<1>1. ASSUME NEW d \in Adapters, NsiActivate(d) PROVE OneAtATime'
  BY <1>1, NsiAssumption DEF NsiActivate, GoesTo, NsiTypeOK, Locked, OneAtATime
<1>2. ASSUME NEW d \in Adapters, Attach(d) PROVE OneAtATime'
  BY <1>2, NsiAssumption DEF Attach, GoesTo, NsiTypeOK, Locked, OneAtATime, After
<1>3. ASSUME NEW d \in Adapters, AttachToStack(d) PROVE OneAtATime'
  BY <1>3, NsiAssumption DEF AttachToStack, GoesTo, NsiTypeOK, Locked, OneAtATime
<1>4. ASSUME NEW d \in Adapters, AttachFails(d) PROVE OneAtATime'
  BY <1>4, NsiAssumption DEF AttachFails, GoesTo, NsiTypeOK, Locked, OneAtATime
<1>5. ASSUME NEW d \in Adapters, UndoAttach(d) PROVE OneAtATime'
  BY <1>5, NsiAssumption DEF UndoAttach, GoesTo, NsiTypeOK, Locked, OneAtATime
<1>6. ASSUME NEW d \in Adapters, InsertDevice(d) PROVE OneAtATime'
  BY <1>6, NsiAssumption DEF InsertDevice, GoesTo, NsiTypeOK, Locked, OneAtATime
<1>7. ASSUME NEW d \in Adapters, NsiDeactivate(d) PROVE OneAtATime'
  BY <1>7, NsiAssumption DEF NsiDeactivate, GoesTo, NsiTypeOK, Locked, OneAtATime
<1>8. ASSUME NEW d \in Adapters, RemoveDevice(d) PROVE OneAtATime'
  BY <1>8, NsiAssumption DEF RemoveDevice, GoesTo, NsiTypeOK, Locked, OneAtATime
<1>9. ASSUME NEW d \in Adapters, CancelAndDetach(d) PROVE OneAtATime'
  BY <1>9, NsiAssumption DEF CancelAndDetach, GoesTo, NsiTypeOK, Locked, OneAtATime
<1>10. ASSUME NEW d \in Adapters, DeleteFilter(d) PROVE OneAtATime'
  BY <1>10, NsiAssumption DEF DeleteFilter, GoesTo, NsiTypeOK, Locked, OneAtATime
<1>11. ASSUME NEW t \in Watchers, RequestArrives(t) PROVE OneAtATime'
  BY <1>11 DEF RequestArrives, OneAtATime
<1>12. ASSUME NEW t \in Watchers, FilterDispatch(t) PROVE OneAtATime'
  BY <1>12 DEF FilterDispatch, OneAtATime
<1>13. ASSUME NEW t \in Watchers, NsiAnswers(t) PROVE OneAtATime'
  BY <1>13 DEF NsiAnswers, OneAtATime
<1>14. ASSUME NEW t \in Watchers, IpInterfaceChangeNotification(t) PROVE OneAtATime'
  BY <1>14 DEF IpInterfaceChangeNotification, OneAtATime
<1>15. ASSUME NEW t \in Watchers, WriteMtu(t) PROVE OneAtATime'
  BY <1>15 DEF WriteMtu, OneAtATime
<1>16. ASSUME NEW t \in Watchers, LeaveFilter(t) PROVE OneAtATime'
  BY <1>16 DEF LeaveFilter, OneAtATime
<1>17. CASE UNCHANGED nsiVars
  BY <1>17 DEF nsiVars, OneAtATime
<1>18. QED
  BY <1>1, <1>2, <1>3, <1>4, <1>5, <1>6, <1>7, <1>8, <1>9, <1>10, <1>11, <1>12, <1>13,
      <1>14, <1>15, <1>16, <1>17 DEF NsiNext

(* What the filter holds stays a function of where the procedure under FilterLock is. *)
LEMMA FilterHeldInductive == NsiIInv /\ [NsiNext]_nsiVars => FilterHeld'
<1> SUFFICES ASSUME NsiIInv, [NsiNext]_nsiVars PROVE FilterHeld'
  OBVIOUS
<1> USE DEF NsiIInv
<1>1. ASSUME NEW d \in Adapters, NsiActivate(d) PROVE FilterHeld'
  BY <1>1, OthersHold, NsiAssumption
  DEF NsiActivate, GoesTo, NsiTypeOK, OneAtATime, FilterHeld, Settled, HeldAt, Locked,
      Complete
<1>2. ASSUME NEW d \in Adapters, Attach(d) PROVE FilterHeld'
  <2>1. FilterLock = d /\ HeldAt(doing[d]) /\ FilterLock' = d /\ doing[d] \in {"notify", "open", "create"}
    BY <1>2, AttachSteps DEF Attach, OneAtATime, FilterHeld, Locked
  <2>2. PICK where \in Locked : where = After[doing[d]]
    BY <2>1, AttachSteps DEF Locked
  <2>a. HeldAt(where)'
    BY <1>2, <2>1, <2>2, AttachSteps DEF Attach, HeldAt, Locked
  <2>3. \A e \in Adapters : HeldAt(doing[e])'
    BY <1>2, <2>1, <2>2, <2>a, OthersHold DEF Attach
  <2>4. QED
    BY <2>1, <2>3, NsiAssumption DEF FilterHeld
<1>3. ASSUME NEW d \in Adapters, AttachToStack(d) PROVE FilterHeld'
  BY <1>3, OthersHold, NsiAssumption
  DEF AttachToStack, GoesTo, NsiTypeOK, OneAtATime, FilterHeld, Settled, HeldAt, Locked,
      Complete
<1>4. ASSUME NEW d \in Adapters, AttachFails(d) PROVE FilterHeld'
  BY <1>4, OthersHold, NsiAssumption
  DEF AttachFails, GoesTo, NsiTypeOK, OneAtATime, FilterHeld, Settled, HeldAt, Locked,
      Complete
<1>5. ASSUME NEW d \in Adapters, UndoAttach(d) PROVE FilterHeld'
  BY <1>5, OthersHold, NsiAssumption
  DEF UndoAttach, GoesTo, NsiTypeOK, OneAtATime, FilterHeld, Settled, HeldAt, Locked,
      Complete
<1>6. ASSUME NEW d \in Adapters, InsertDevice(d) PROVE FilterHeld'
  BY <1>6, OthersHold, NsiAssumption
  DEF InsertDevice, GoesTo, NsiTypeOK, OneAtATime, FilterHeld, Settled, HeldAt, Locked,
      Complete
<1>7. ASSUME NEW d \in Adapters, NsiDeactivate(d) PROVE FilterHeld'
  BY <1>7, OthersHold, NsiAssumption
  DEF NsiDeactivate, GoesTo, NsiTypeOK, OneAtATime, FilterHeld, Settled, HeldAt, Locked,
      Complete
<1>8. ASSUME NEW d \in Adapters, RemoveDevice(d) PROVE FilterHeld'
  BY <1>8, OthersHold, NsiAssumption
  DEF RemoveDevice, GoesTo, NsiTypeOK, OneAtATime, FilterHeld, Settled, HeldAt, Locked,
      Complete
<1>9. ASSUME NEW d \in Adapters, CancelAndDetach(d) PROVE FilterHeld'
  BY <1>9, OthersHold, NsiAssumption
  DEF CancelAndDetach, GoesTo, NsiTypeOK, OneAtATime, FilterHeld, Settled, HeldAt,
      Locked, Complete
<1>10. ASSUME NEW d \in Adapters, DeleteFilter(d) PROVE FilterHeld'
  BY <1>10, OthersHold, NsiAssumption
  DEF DeleteFilter, GoesTo, NsiTypeOK, OneAtATime, FilterHeld, Settled, HeldAt, Locked,
      Complete
<1>11. ASSUME NEW t \in Watchers, RequestArrives(t) PROVE FilterHeld'
  BY <1>11 DEF RequestArrives, FilterHeld, Settled, HeldAt
<1>12. ASSUME NEW t \in Watchers, FilterDispatch(t) PROVE FilterHeld'
  BY <1>12 DEF FilterDispatch, FilterHeld, Settled, HeldAt
<1>13. ASSUME NEW t \in Watchers, NsiAnswers(t) PROVE FilterHeld'
  BY <1>13 DEF NsiAnswers, FilterHeld, Settled, HeldAt
<1>14. ASSUME NEW t \in Watchers, IpInterfaceChangeNotification(t) PROVE FilterHeld'
  BY <1>14 DEF IpInterfaceChangeNotification, FilterHeld, Settled, HeldAt
<1>15. ASSUME NEW t \in Watchers, WriteMtu(t) PROVE FilterHeld'
  BY <1>15 DEF WriteMtu, FilterHeld, Settled, HeldAt
<1>16. ASSUME NEW t \in Watchers, LeaveFilter(t) PROVE FilterHeld'
  BY <1>16 DEF LeaveFilter, FilterHeld, Settled, HeldAt
<1>17. CASE UNCHANGED nsiVars
  BY <1>17 DEF nsiVars, FilterHeld, Settled, HeldAt, Locked, Complete
<1>18. QED
  BY <1>1, <1>2, <1>3, <1>4, <1>5, <1>6, <1>7, <1>8, <1>9, <1>10, <1>11, <1>12, <1>13,
      <1>14, <1>15, <1>16, <1>17 DEF NsiNext

(* A request that is under the rundown keeps the filter from being deleted. *)
LEMMA RequestsInductive == NsiIInv /\ [NsiNext]_nsiVars => RequestsInv'
<1> SUFFICES ASSUME NsiIInv, [NsiNext]_nsiVars PROVE RequestsInv'
  OBVIOUS
<1> USE DEF NsiIInv
<1>1. ASSUME NEW d \in Adapters, NsiActivate(d) PROVE RequestsInv'
  BY <1>1 DEF NsiActivate, RequestsInv, InFilter, Inside, NsiTypeOK, NsiRequests
<1>2. ASSUME NEW d \in Adapters, Attach(d) PROVE RequestsInv'
  BY <1>2, IdleRequest
  DEF Attach, RequestsInv, InFilter, Inside, NsiTypeOK, NsiRequests, After, FilterHeld,
      HeldAt
<1>3. ASSUME NEW d \in Adapters, AttachToStack(d) PROVE RequestsInv'
  BY <1>3 DEF AttachToStack, RequestsInv, InFilter, Inside, NsiTypeOK, NsiRequests
<1>4. ASSUME NEW d \in Adapters, AttachFails(d) PROVE RequestsInv'
  BY <1>4 DEF AttachFails, RequestsInv, InFilter, Inside, NsiTypeOK, NsiRequests
<1>5. ASSUME NEW d \in Adapters, UndoAttach(d) PROVE RequestsInv'
  BY <1>5 DEF UndoAttach, RequestsInv, InFilter, Inside, NsiTypeOK, NsiRequests
<1>6. ASSUME NEW d \in Adapters, InsertDevice(d) PROVE RequestsInv'
  BY <1>6 DEF InsertDevice, RequestsInv, InFilter, Inside, NsiTypeOK, NsiRequests
<1>7. ASSUME NEW d \in Adapters, NsiDeactivate(d) PROVE RequestsInv'
  BY <1>7 DEF NsiDeactivate, RequestsInv, InFilter, Inside, NsiTypeOK, NsiRequests
<1>8. ASSUME NEW d \in Adapters, RemoveDevice(d) PROVE RequestsInv'
  BY <1>8 DEF RemoveDevice, RequestsInv, InFilter, Inside, NsiTypeOK, NsiRequests
<1>9. ASSUME NEW d \in Adapters, CancelAndDetach(d) PROVE RequestsInv'
  BY <1>9 DEF CancelAndDetach, RequestsInv, InFilter, Inside, NsiTypeOK, NsiRequests
<1>10. ASSUME NEW d \in Adapters, DeleteFilter(d) PROVE RequestsInv'
  BY <1>10 DEF DeleteFilter, RequestsInv, InFilter, Inside, NsiTypeOK, NsiRequests
<1>11. ASSUME NEW t \in Watchers, RequestArrives(t) PROVE RequestsInv'
  BY <1>11 DEF RequestArrives, RequestsInv, InFilter, Inside, NsiTypeOK, NsiRequests
<1>12. ASSUME NEW t \in Watchers, FilterDispatch(t) PROVE RequestsInv'
  BY <1>12, IdleRequest
  DEF FilterDispatch, RequestsInv, InFilter, Inside, NsiTypeOK, NsiRequests
<1>13. ASSUME NEW t \in Watchers, NsiAnswers(t) PROVE RequestsInv'
  BY <1>13, IdleRequest
  DEF NsiAnswers, RequestsInv, InFilter, Inside, NsiTypeOK, NsiRequests, Walk
<1>14. ASSUME NEW t \in Watchers, IpInterfaceChangeNotification(t) PROVE RequestsInv'
  BY <1>14, IdleRequest
  DEF IpInterfaceChangeNotification, RequestsInv, InFilter, Inside, NsiTypeOK,
      NsiRequests, Walk
<1>15. ASSUME NEW t \in Watchers, WriteMtu(t) PROVE RequestsInv'
  BY <1>15, IdleRequest
  DEF WriteMtu, RequestsInv, InFilter, Inside, NsiTypeOK, NsiRequests
<1>16. ASSUME NEW t \in Watchers, LeaveFilter(t) PROVE RequestsInv'
  BY <1>16, IdleRequest
  DEF LeaveFilter, RequestsInv, InFilter, Inside, NsiTypeOK, NsiRequests
<1>17. CASE UNCHANGED nsiVars
  BY <1>17 DEF nsiVars, RequestsInv, InFilter, Inside
<1>18. QED
  BY <1>1, <1>2, <1>3, <1>4, <1>5, <1>6, <1>7, <1>8, <1>9, <1>10, <1>11, <1>12, <1>13,
      <1>14, <1>15, <1>16, <1>17 DEF NsiNext

(* Nothing is attached at the start. *)
LEMMA NsiInitIInv == NsiInit => NsiIInv
  BY IdleRequest, NsiAssumption
  DEF NsiInit, NsiIInv, NsiTypeOK, OneAtATime, FilterHeld, Settled, HeldAt, Locked, RequestsInv,
      InFilter, Inside

(* NsiIInv holds in every state. *)
LEMMA NsiInductive == NsiSpec => []NsiIInv
<1>1. NsiIInv /\ [NsiNext]_nsiVars => NsiIInv'
  BY NsiTypeInductive, OneAtATimeInductive, FilterHeldInductive, RequestsInductive
  DEF NsiIInv
<1>2. QED
  BY <1>1, NsiInitIInv, PTL DEF NsiSpec

(* Being a function of the place, what the filter holds is never more or less than it uses. *)
LEMMA FilterSoundLemma == NsiIInv => FilterSound
<1> SUFFICES ASSUME NsiIInv PROVE FilterSound
  OBVIOUS
<1>1. ASSUME NEW t \in Inside PROVE doing[request[t].of] # "out"
  BY <1>1 DEF NsiIInv, RequestsInv, OneAtATime, NsiTypeOK
<1>2. ASSUME FilterRundown # "completed"
      PROVE  "FilterDevice" \in attached /\ attached \cap {"NsiFileObject", "NsiDevice"} # {}
  <2>1. CASE FilterLock = NoThread
    BY <1>2, <2>1 DEF NsiIInv, FilterHeld, Settled, Complete
  <2>2. CASE FilterLock # NoThread
    <3>1. HeldAt(doing[FilterLock]) /\ doing[FilterLock] \in Locked
      BY <2>2 DEF NsiIInv, FilterHeld, OneAtATime, NsiTypeOK
    <3>2. QED
      BY <1>2, <3>1 DEF HeldAt, Locked, Complete
  <2>3. QED
    BY <2>1, <2>2
<1>3. FilterLock = NoThread => attached = IF DeviceList = {} THEN {} ELSE Complete
  BY DEF NsiIInv, FilterHeld, Settled
<1>4. QED
  BY <1>1, <1>2, <1>3 DEF FilterSound, NsiIInv, RequestsInv, Complete

(* However many adapters come and go and whatever requests and interface   *)
(* notifications are under way: none of them uses an adapter that          *)
(* NsiDeactivate has returned for, or a device that DeleteFilter took, and *)
(* a failed NsiActivate leaves the filter as it was before.                *)
THEOREM FilterIsSound == NsiSpec => []FilterSound
  BY FilterSoundLemma, NsiInductive, PTL

-----------------------------------------------------------------------------
(* Loading, starting, halting and unloading.  Every procedure follows one  *)
(* of a few orders: what is held follows from how much of it is left.      *)

WskNames == {"Lookaside", "WskRegistration", "Provider", "RouteNotifierV4", "RouteNotifierV6"}

DriverNames ==
    WskNames \cup {"NblDataPools", "NbDataPools", "LooseNblPool", "LooseNbPool", "Rcu",
                   "NodeCache", "Ratelimiter", "PeerCache", "Miniport"}

DeviceNames ==
    BringupThreads \cup {"Wg", "PeerHashtable", "IndexHashtable", "EncryptQueue", "DecryptQueue",
                         "HandshakeRxQueue", "Nsi", "Sockets", "Peers"}

(* What the orders and labels are made of. *)
Labels ==
    DriverNames \cup DeviceNames
      \cup {"Selftests", "Registration", "Wsk", "PeerRemoveAll", "RcuBarrier"}

BringupTypeOK ==
    /\ holding \subseteq ({Driver} \X DriverNames) \cup (Devices \X DeviceNames)
    /\ phase \in [Devices \cup {Driver} -> {"absent", "starting", "ready", "undoing"}]
    /\ agenda \in [Devices \cup {Driver} -> Seq(Labels)]
    /\ wsk \in [ready : BOOLEAN, lock : Devices \cup {Driver}]
    /\ ioctl \in [Devices -> [at : {"none", "lock", "init", "undo", "bind"}, agenda : Seq(Labels)]]
    /\ peerRefs \in [Devices -> SUBSET BringupThreads]
    /\ removed \subseteq Devices
    /\ stray \in BOOLEAN

Rest(order, k) == SubSeq(order, k, Len(order))

Has(o, name) == <<o, name>> \in holding

(* Of the first n steps of an order, the ones before the k-th are done. *)
Done(o, order, k, n) == \A j \in 1 .. n : Has(o, order[j]) <=> j < k

(* Of the labels of an order, the ones from the k-th on are left. *)
Left(o, labels, k) == \A j \in 1 .. Len(labels) : Has(o, labels[j]) <=> j >= k

(* Starting and unwinding of the driver or an adapter. *)
Starting(o) ==
    \E k \in 1 .. Len(OrderOf(o)) + 1 :
      agenda[o] = Rest(OrderOf(o), k) /\ Done(o, OrderOf(o), k, Len(UndoOf(o)))

Unwinding(o) ==
    \E k \in 1 .. Len(UndoOf(o)) + 1 : agenda[o] = Rest(UndoOf(o), k) /\ Left(o, UndoOf(o), k)

WskHeld == \A j \in 1 .. 5 : Has(Driver, WskOrder[j])

WskFree == \A j \in 1 .. 5 : ~Has(Driver, WskOrder[j])

(* Unload at its k-th line. *)
UnloadingAt(k) ==
    /\ agenda[Driver] = Rest(UnloadOrder, k)
    /\ \A j \in 1 .. 10 : j # 2 => (Has(Driver, UnloadOrder[j]) <=> j >= k)
    /\ IF wsk.ready /\ k <= 2 THEN WskHeld ELSE WskFree

DriverInv ==
    /\ phase[Driver] = "absent" => \A name \in DriverNames : ~Has(Driver, name)
    /\ phase[Driver] = "starting" => Starting(Driver)
    /\ phase[Driver] = "ready" => \A j \in 1 .. 9 : Has(Driver, DriverOrder[j])
    /\ phase[Driver] = "undoing" => (Unwinding(Driver) /\ ~wsk.ready) \/ \E k \in 1 .. 11 : UnloadingAt(k)
    /\ phase[Driver] \in {"absent", "starting"} => ~wsk.ready
    /\ phase[Driver] # "ready" => \A d \in Devices : phase[d] = "absent"

Bare(d) == ~Has(d, "Sockets") /\ ~Has(d, "Peers") /\ d \notin removed

TakesNothing == {2, 3, 10}

HaltingAt(d, k) ==
    /\ agenda[d] = Rest(HaltOrder, k)
    /\ \A j \in (1 .. 14) \ TakesNothing : Has(d, HaltOrder[j]) <=> j >= k
    /\ Has(d, "Sockets") => k <= 2
    /\ Has(d, "Peers") => k <= 10
    /\ d \in removed <=> k > 3

DeviceInv(d) ==
    /\ phase[d] = "absent" => \A name \in DeviceNames : ~Has(d, name)
    /\ phase[d] = "starting" => Starting(d)
    /\ phase[d] = "ready" => \A j \in 1 .. 11 : Has(d, InitializeOrder[j])
    /\ phase[d] = "undoing" => (Unwinding(d) /\ Bare(d)) \/ \E k \in 1 .. 15 : HaltingAt(d, k)
    /\ phase[d] \in {"absent", "starting"} => Bare(d)
    /\ phase[d] = "ready" => d \notin removed
    /\ \A t \in peerRefs[d] : Has(d, t) /\ Has(d, "Peers")
    /\ Has(d, "Sockets") => wsk.ready
    /\ ioctl[d].at # "none" => phase[d] = "ready" /\ ~Has(d, "Sockets")

RequestInv(d) ==
    /\ ioctl[d].at \in {"init", "undo"} => wsk.lock = d
    /\ ioctl[d].at = "bind" => wsk.ready
    /\ ioctl[d].at = "init" =>
         \E k \in 1 .. 6 : ioctl[d].agenda = Rest(WskOrder, k) /\ Done(Driver, WskOrder, k, 5)
    /\ ioctl[d].at = "undo" =>
         /\ ~Has(Driver, "RouteNotifierV6")
         /\ \E k \in 1 .. 5 : ioctl[d].agenda = Rest(WskUndo, k) /\ Left(Driver, WskUndo, k)

WskInv ==
    /\ wsk.lock # Driver => ~wsk.ready /\ ioctl[wsk.lock].at \in {"init", "undo"}
    /\ wsk.lock = Driver /\ ~wsk.ready => WskFree
    /\ wsk.ready /\ phase[Driver] = "ready" => WskHeld
    /\ \A d \in Devices : RequestInv(d)

BringupIInv ==
    /\ BringupTypeOK /\ DriverInv /\ (\A d \in Devices : DeviceInv(d)) /\ WskInv
    /\ stray = FALSE

-----------------------------------------------------------------------------
(* What is left of an order at its k-th line, and what the next line leaves. *)
LEMMA RestFacts ==
  ASSUME NEW order \in Seq(Labels), NEW k \in 1 .. Len(order) + 1
  PROVE  /\ Rest(order, k) \in Seq(Labels)
         /\ Len(Rest(order, k)) = Len(order) + 1 - k
         /\ Rest(order, k) = <<>> <=> k = Len(order) + 1
         /\ k <= Len(order) => Head(Rest(order, k)) = order[k] /\ Tail(Rest(order, k)) = Rest(order, k + 1)
         /\ Rest(order, 1) = order
<1>1. \A i \in 1 .. Len(order) : order[i] \in Labels
  OBVIOUS
<1>2. Rest(order, k) \in Seq(Labels) /\ Len(Rest(order, k)) = Len(order) + 1 - k
  BY <1>1, SubSeqProperties DEF Rest
<1>3. Rest(order, k) = <<>> <=> k = Len(order) + 1
  BY <1>2
<1>4. k <= Len(order) => Head(Rest(order, k)) = order[k] /\ Tail(Rest(order, k)) = Rest(order, k + 1)
  BY HeadTailOfSubSeq DEF Rest
<1>5. Rest(order, 1) = order
  <2>1. /\ SubSeq(order, 1, Len(order)) \in Seq(Labels)
        /\ Len(SubSeq(order, 1, Len(order))) = Len(order)
        /\ \A i \in 1 .. Len(order) : SubSeq(order, 1, Len(order))[i] = order[i]
    BY <1>1, SubSeqProperties
  <2>2. QED
    BY <2>1, SeqEqual DEF Rest
<1>6. QED
  BY <1>2, <1>3, <1>4, <1>5

(* An order whose steps differ, and the labels that undo all but the last. *)
Reversible(order, labels) ==
    /\ order \in Seq(Labels) /\ labels \in Seq(Labels)
    /\ Len(labels) = Len(order) - 1
    /\ \A i, j \in 1 .. Len(order) : order[i] = order[j] => i = j
    /\ \A j \in 1 .. Len(labels) : labels[j] = order[Len(order) - j]

(* Where the k-th line of a reversible order jumps to when it fails. *)
LEMMA UndoFacts ==
  ASSUME NEW order, NEW labels, Reversible(order, labels), NEW k \in 1 .. Len(order)
  PROVE  UndoAfter(order, labels, Rest(order, k)) = Rest(labels, Len(order) - k + 1)
<1>1. Len(Rest(order, k)) = Len(order) + 1 - k
  BY RestFacts DEF Reversible
<1>2. CASE k = 1
  <2>1. Rest(labels, Len(order)) = <<>>
    BY <1>2, RestFacts DEF Reversible
  <2>2. QED
    BY <1>1, <1>2, <2>1 DEF UndoAfter, Reversible
<1>3. CASE k # 1
  <2> DEFINE j == CHOOSE i \in 1 .. Len(labels) : labels[i] = order[k - 1]
  <2>1. j \in 1 .. Len(labels) /\ labels[j] = order[k - 1]
    <3>1. Len(order) - (k - 1) \in 1 .. Len(labels)
      BY <1>3 DEF Reversible
    <3>2. labels[Len(order) - (k - 1)] = order[k - 1]
      BY <3>1 DEF Reversible
    <3>3. QED
      BY <3>1, <3>2
  <2> HIDE DEF j
  <2>2. j = Len(order) - k + 1
    <3>1. labels[j] = order[Len(order) - j]
          /\ Len(order) - j \in 1 .. Len(order) /\ k - 1 \in 1 .. Len(order)
      BY <1>3, <2>1 DEF Reversible
    <3>2. Len(order) - j = k - 1
      BY <2>1, <3>1 DEF Reversible
    <3>3. QED
      BY <2>1, <3>2
  <2>3. UndoAfter(order, labels, Rest(order, k)) = From(labels, order[k - 1])
    BY <1>1, <1>3 DEF UndoAfter, Reversible
  <2>4. From(labels, order[k - 1]) = SubSeq(labels, j, Len(labels))
    BY DEF From, j
  <2>5. QED
    BY <2>2, <2>3, <2>4 DEF Rest
<1>4. QED
  BY <1>2, <1>3

(* WskInit undoes its own steps in reverse order. *)
LEMMA WskReversible == Reversible(WskOrder, WskUndo) /\ Len(WskOrder) = 5
  BY DEF Reversible, Labels, DriverNames, DeviceNames, BringupThreads, WskNames,
      WskOrder, WskUndo

(* InitializeEx undoes its own steps in reverse order. *)
LEMMA InitializeReversible == Reversible(InitializeOrder, InitializeUndo) /\ Len(InitializeOrder) = 12
<1>1. /\ InitializeOrder \in Seq(Labels) /\ InitializeUndo \in Seq(Labels)
      /\ Len(InitializeUndo) = 11 /\ Len(InitializeOrder) = 12
  BY DEF Labels, DriverNames, DeviceNames, BringupThreads, InitializeOrder,
      InitializeUndo
<1>2. \A i, j \in 1 .. 12 : InitializeOrder[i] = InitializeOrder[j] => i = j
  BY SMTT(30) DEF InitializeOrder
<1>3. \A j \in 1 .. 11 : InitializeUndo[j] = InitializeOrder[12 - j]
  BY SMTT(30) DEF InitializeOrder, InitializeUndo
<1>4. QED
  BY <1>1, <1>2, <1>3 DEF Reversible

(* The labels of DriverEntry, written out. *)
LEMMA DriverUndoIs ==
    /\ DriverUndo \in Seq(Labels) /\ Len(DriverUndo) = 9
    /\ DriverUndo[1] = "Miniport" /\ DriverUndo[2] = "PeerCache" /\ DriverUndo[3] = "Ratelimiter"
    /\ DriverUndo[4] = "NodeCache" /\ DriverUndo[5] = "Rcu" /\ DriverUndo[6] = "LooseNbPool"
    /\ DriverUndo[7] = "LooseNblPool" /\ DriverUndo[8] = "NbDataPools" /\ DriverUndo[9] = "NblDataPools"
<1> DEFINE first == <<"Miniport", "PeerCache", "Ratelimiter", "NodeCache", "Rcu">>
<1>1. first \in Seq(Labels) /\ Len(first) = 5 /\ MemUndo \in Seq(Labels) /\ Len(MemUndo) = 4
  BY DEF Labels, DriverNames, MemUndo
<1>2. /\ first[1] = "Miniport" /\ first[2] = "PeerCache" /\ first[3] = "Ratelimiter"
      /\ first[4] = "NodeCache" /\ first[5] = "Rcu"
  OBVIOUS
<1>3. /\ MemUndo[1] = "LooseNbPool" /\ MemUndo[2] = "LooseNblPool"
      /\ MemUndo[3] = "NbDataPools" /\ MemUndo[4] = "NblDataPools"
  BY DEF MemUndo
<1>4. DriverUndo = first \o MemUndo
  BY DEF DriverUndo
<1> HIDE DEF first
<1>5. /\ DriverUndo \in Seq(Labels) /\ Len(DriverUndo) = 9
      /\ \A i \in 1 .. 9 : DriverUndo[i] = IF i <= 5 THEN first[i] ELSE MemUndo[i - 5]
  <2>1. /\ first \o MemUndo \in Seq(Labels)
        /\ Len(first \o MemUndo) = Len(first) + Len(MemUndo)
        /\ \A i \in 1 .. Len(first) + Len(MemUndo) :
             (first \o MemUndo)[i] = IF i <= Len(first) THEN first[i] ELSE MemUndo[i - Len(first)]
    BY <1>1, ConcatProperties, Zenon
  <2>2. Len(first) + Len(MemUndo) = 9
    BY <1>1
  <2>3. QED
    BY <1>1, <1>4, <2>1, <2>2
<1>6. /\ \A i \in 1 .. 5 : DriverUndo[i] = first[i]
      /\ DriverUndo[6] = MemUndo[1] /\ DriverUndo[7] = MemUndo[2]
      /\ DriverUndo[8] = MemUndo[3] /\ DriverUndo[9] = MemUndo[4]
  BY <1>5
<1>7. QED
  BY <1>2, <1>3, <1>5, <1>6

(* The lines of Unload, written out. *)
LEMMA UnloadOrderIs ==
    /\ UnloadOrder \in Seq(Labels) /\ Len(UnloadOrder) = 10
    /\ UnloadOrder[1] = "Miniport" /\ UnloadOrder[2] = "Wsk" /\ UnloadOrder[3] = "PeerCache"
    /\ UnloadOrder[4] = "Ratelimiter" /\ UnloadOrder[5] = "NodeCache" /\ UnloadOrder[6] = "Rcu"
    /\ UnloadOrder[7] = "LooseNbPool" /\ UnloadOrder[8] = "LooseNblPool"
    /\ UnloadOrder[9] = "NbDataPools" /\ UnloadOrder[10] = "NblDataPools"
<1> DEFINE first == <<"Miniport", "Wsk", "PeerCache", "Ratelimiter", "NodeCache", "Rcu">>
<1>1. first \in Seq(Labels) /\ Len(first) = 6 /\ MemUndo \in Seq(Labels) /\ Len(MemUndo) = 4
  BY DEF Labels, DriverNames, MemUndo
<1>2. /\ first[1] = "Miniport" /\ first[2] = "Wsk" /\ first[3] = "PeerCache"
      /\ first[4] = "Ratelimiter" /\ first[5] = "NodeCache" /\ first[6] = "Rcu"
  OBVIOUS
<1>3. /\ MemUndo[1] = "LooseNbPool" /\ MemUndo[2] = "LooseNblPool"
      /\ MemUndo[3] = "NbDataPools" /\ MemUndo[4] = "NblDataPools"
  BY DEF MemUndo
<1>4. UnloadOrder = first \o MemUndo
  BY DEF UnloadOrder
<1> HIDE DEF first
<1>5. /\ UnloadOrder \in Seq(Labels) /\ Len(UnloadOrder) = 10
      /\ \A i \in 1 .. 10 : UnloadOrder[i] = IF i <= 6 THEN first[i] ELSE MemUndo[i - 6]
  <2>1. /\ first \o MemUndo \in Seq(Labels)
        /\ Len(first \o MemUndo) = Len(first) + Len(MemUndo)
        /\ \A i \in 1 .. Len(first) + Len(MemUndo) :
             (first \o MemUndo)[i] = IF i <= Len(first) THEN first[i] ELSE MemUndo[i - Len(first)]
    BY <1>1, ConcatProperties, Zenon
  <2>2. Len(first) + Len(MemUndo) = 10
    BY <1>1
  <2>3. QED
    BY <1>1, <1>4, <2>1, <2>2
<1>6. /\ \A i \in 1 .. 6 : UnloadOrder[i] = first[i]
      /\ UnloadOrder[7] = MemUndo[1] /\ UnloadOrder[8] = MemUndo[2]
      /\ UnloadOrder[9] = MemUndo[3] /\ UnloadOrder[10] = MemUndo[4]
  BY <1>5
<1>7. QED
  BY <1>2, <1>3, <1>5, <1>6

(* DriverEntry undoes its own steps in reverse order. *)
LEMMA DriverReversible == Reversible(DriverOrder, DriverUndo) /\ Len(DriverOrder) = 10
<1>1. DriverOrder \in Seq(Labels) /\ Len(DriverOrder) = 10
  BY DEF Labels, DriverNames, DriverOrder
<1>2. \A i, j \in 1 .. 10 : DriverOrder[i] = DriverOrder[j] => i = j
  BY SMTT(30) DEF DriverOrder
<1>3. \A j \in 1 .. 9 : DriverUndo[j] = DriverOrder[10 - j]
  BY DriverUndoIs, SMTT(30) DEF DriverOrder
<1>4. QED
  BY <1>1, <1>2, <1>3, DriverUndoIs DEF Reversible

(* The lines of HaltEx, written out. *)
LEMMA HaltOrderIs ==
    /\ HaltOrder \in Seq(Labels) /\ Len(HaltOrder) = 14
    /\ HaltOrder[1] = "Nsi" /\ HaltOrder[2] = "Sockets" /\ HaltOrder[3] = "PeerRemoveAll"
    /\ HaltOrder[4] = "DecryptThreads" /\ HaltOrder[5] = "EncryptThreads"
    /\ HaltOrder[6] = "HandshakeRxThreads" /\ HaltOrder[7] = "HandshakeTxThreads"
    /\ HaltOrder[8] = "DecryptQueue" /\ HaltOrder[9] = "EncryptQueue" /\ HaltOrder[10] = "RcuBarrier"
    /\ HaltOrder[11] = "HandshakeRxQueue" /\ HaltOrder[12] = "IndexHashtable"
    /\ HaltOrder[13] = "PeerHashtable" /\ HaltOrder[14] = "Wg"
  BY DEF Labels, DriverNames, DeviceNames, BringupThreads, HaltOrder

(* The lines of InitializeEx, written out. *)
LEMMA InitializeOrderIs ==
    /\ InitializeOrder[1] = "Wg" /\ InitializeOrder[2] = "PeerHashtable"
    /\ InitializeOrder[3] = "IndexHashtable" /\ InitializeOrder[4] = "EncryptQueue"
    /\ InitializeOrder[5] = "DecryptQueue" /\ InitializeOrder[6] = "HandshakeRxQueue"
    /\ InitializeOrder[7] = "EncryptThreads" /\ InitializeOrder[8] = "DecryptThreads"
    /\ InitializeOrder[9] = "HandshakeTxThreads" /\ InitializeOrder[10] = "HandshakeRxThreads"
    /\ InitializeOrder[11] = "Nsi" /\ InitializeOrder[12] = "Registration"
  BY DEF InitializeOrder

(* The lines of DriverEntry, written out. *)
LEMMA DriverOrderIs ==
    /\ DriverOrder[1] = "NblDataPools" /\ DriverOrder[2] = "NbDataPools" /\ DriverOrder[3] = "LooseNblPool"
    /\ DriverOrder[4] = "LooseNbPool" /\ DriverOrder[5] = "Rcu" /\ DriverOrder[6] = "NodeCache"
    /\ DriverOrder[7] = "Ratelimiter" /\ DriverOrder[8] = "PeerCache" /\ DriverOrder[9] = "Miniport"
    /\ DriverOrder[10] = "Selftests"
  BY DEF DriverOrder

(* The lines of WskInit, written out. *)
LEMMA WskOrderIs ==
    /\ WskOrder[1] = "Lookaside" /\ WskOrder[2] = "WskRegistration" /\ WskOrder[3] = "Provider"
    /\ WskOrder[4] = "RouteNotifierV4" /\ WskOrder[5] = "RouteNotifierV6"
  BY DEF WskOrder

(* What the lines of each order take or give back. *)
LEMMA NamesOfOrders ==
    /\ \A j \in 1 .. 9 : DriverOrder[j] \in DriverNames \ WskNames
    /\ \A j \in 1 .. 5 : WskOrder[j] \in WskNames
    /\ \A j \in 1 .. 11 : InitializeOrder[j] \in DeviceNames \ {"Sockets", "Peers"}
    /\ \A j \in 1 .. 10 : j # 2 => UnloadOrder[j] \in DriverNames \ WskNames
    /\ \A j \in (1 .. 14) \ TakesNothing : HaltOrder[j] \in DeviceNames \ {"Sockets", "Peers"}
<1>1. \A j \in 1 .. 9 : DriverOrder[j] \in DriverNames \ WskNames
  BY DriverOrderIs DEF DriverNames, WskNames
<1>2. \A j \in 1 .. 5 : WskOrder[j] \in WskNames
  BY WskOrderIs DEF WskNames
<1>3. \A j \in 1 .. 11 : InitializeOrder[j] \in DeviceNames \ {"Sockets", "Peers"}
  BY InitializeOrderIs DEF DeviceNames, BringupThreads
<1>4. \A j \in 1 .. 10 : j # 2 => UnloadOrder[j] \in DriverNames \ WskNames
  BY UnloadOrderIs DEF DriverNames, WskNames
<1>5. \A j \in (1 .. 14) \ TakesNothing : HaltOrder[j] \in DeviceNames \ {"Sockets", "Peers"}
  BY HaltOrderIs DEF DeviceNames, BringupThreads, TakesNothing
<1>6. QED
  BY <1>1, <1>2, <1>3, <1>4, <1>5

(* Every name is in the order that takes it and in the one that gives it back. *)
LEMMA NamesCovered ==
    /\ \A n \in WskNames : \E j \in 1 .. 5 : n = WskOrder[j]
    /\ \A n \in DriverNames \ WskNames : \E j \in 1 .. 9 : n = DriverOrder[j]
    /\ \A n \in DriverNames \ WskNames : \E j \in 1 .. 10 : j # 2 /\ n = UnloadOrder[j]
    /\ \A n \in DeviceNames \ {"Sockets", "Peers"} : \E j \in 1 .. 11 : n = InitializeOrder[j]
    /\ \A n \in DeviceNames \ {"Sockets", "Peers"} : \E j \in (1 .. 14) \ TakesNothing : n = HaltOrder[j]
<1>1. \A n \in WskNames : \E j \in 1 .. 5 : n = WskOrder[j]
  BY WskOrderIs DEF WskNames
<1>2. \A n \in DriverNames \ WskNames : \E j \in 1 .. 9 : n = DriverOrder[j]
  BY DriverOrderIs DEF DriverNames, WskNames
<1>3. \A n \in DriverNames \ WskNames : \E j \in 1 .. 10 : j # 2 /\ n = UnloadOrder[j]
  BY UnloadOrderIs DEF DriverNames, WskNames
<1>4. \A n \in DeviceNames \ {"Sockets", "Peers"} : \E j \in 1 .. 11 : n = InitializeOrder[j]
  BY InitializeOrderIs DEF DeviceNames, BringupThreads
<1>5. \A n \in DeviceNames \ {"Sockets", "Peers"} : \E j \in (1 .. 14) \ TakesNothing : n = HaltOrder[j]
  BY HaltOrderIs DEF DeviceNames, BringupThreads, TakesNothing
<1>6. QED
  BY <1>1, <1>2, <1>3, <1>4, <1>5

(* Both starting procedures, by their owner. *)
NamesOf(o) == IF o = Driver THEN DriverNames \ WskNames ELSE DeviceNames \ {"Sockets", "Peers"}

(* The driver and an adapter start along a reversible order whose last line takes nothing. *)
LEMMA OwnersOrders ==
  ASSUME NEW o \in Devices \cup {Driver}
  PROVE  /\ Reversible(OrderOf(o), UndoOf(o)) /\ Len(UndoOf(o)) \in Nat /\ Len(UndoOf(o)) >= 1
         /\ OrderOf(o)[Len(OrderOf(o))] \in {"Selftests", "Registration"}
         /\ \A j \in 1 .. Len(UndoOf(o)) : OrderOf(o)[j] \in NamesOf(o) /\ UndoOf(o)[j] \in NamesOf(o)
<1>1. CASE o = Driver
  <2>1. OrderOf(o) = DriverOrder /\ UndoOf(o) = DriverUndo /\ NamesOf(o) = DriverNames \ WskNames
    BY <1>1 DEF OrderOf, UndoOf, NamesOf
  <2>2. Len(DriverUndo) = 9
    BY DriverUndoIs
  <2>3. \A j \in 1 .. 9 : DriverUndo[j] = DriverOrder[10 - j] /\ 10 - j \in 1 .. 9
    BY DriverReversible, <2>2 DEF Reversible
  <2>4. \A j \in 1 .. 9 :
          DriverOrder[j] \in DriverNames \ WskNames /\ DriverUndo[j] \in DriverNames \ WskNames
    BY <2>3, NamesOfOrders
  <2>5. QED
    BY <2>1, <2>2, <2>4, DriverReversible, DriverOrderIs
<1>2. CASE o # Driver
  <2>1. OrderOf(o) = InitializeOrder /\ UndoOf(o) = InitializeUndo
        /\ NamesOf(o) = DeviceNames \ {"Sockets", "Peers"}
    BY <1>2 DEF OrderOf, UndoOf, NamesOf
  <2>2. Len(InitializeUndo) = 11
    BY InitializeReversible DEF Reversible
  <2>3. \A j \in 1 .. 11 : InitializeUndo[j] = InitializeOrder[12 - j] /\ 12 - j \in 1 .. 11
    BY InitializeReversible, <2>2 DEF Reversible
  <2>4. \A j \in 1 .. 11 : /\ InitializeOrder[j] \in DeviceNames \ {"Sockets", "Peers"}
                           /\ InitializeUndo[j] \in DeviceNames \ {"Sockets", "Peers"}
    BY <2>3, NamesOfOrders
  <2>5. QED
    BY <2>1, <2>2, <2>4, InitializeReversible, InitializeOrderIs
<1>3. QED
  BY <1>1, <1>2

-----------------------------------------------------------------------------
(* What a step that does not touch an adapter, the driver or the socket
   layer keeps of it.                                                       *)
SameFor(o) ==
    /\ phase'[o] = phase[o] /\ agenda'[o] = agenda[o]
    /\ \A n : <<o, n>> \in holding' <=> <<o, n>> \in holding

(* An adapter that a step leaves alone keeps its part of the invariant. *)
LEMMA DeviceKeeps ==
  ASSUME NEW d \in Devices, DeviceInv(d), SameFor(d), ioctl'[d] = ioctl[d], peerRefs'[d] = peerRefs[d],
         d \in removed' <=> d \in removed, wsk.ready => wsk'.ready \/ ~Has(d, "Sockets")
  PROVE  DeviceInv(d)'
<1>1. \A n : Has(d, n)' <=> Has(d, n)
  BY DEF SameFor, Has
<1>2. Starting(d) => Starting(d)'
  BY <1>1 DEF Starting, Done, SameFor
<1>3. Unwinding(d) => Unwinding(d)'
  BY <1>1 DEF Unwinding, Left, SameFor
<1>4. \A k \in 1 .. 15 : HaltingAt(d, k) => HaltingAt(d, k)'
  BY <1>1 DEF HaltingAt, SameFor
<1>5. Bare(d) => Bare(d)'
  BY <1>1 DEF Bare
<1>6. QED
  BY <1>1, <1>2, <1>3, <1>4, <1>5 DEF DeviceInv, SameFor

(* So does the driver. *)
LEMMA DriverKeeps ==
  ASSUME DriverInv, SameFor(Driver), wsk'.ready = wsk.ready,
         phase[Driver] # "ready" => \A d \in Devices : phase'[d] = phase[d]
  PROVE  DriverInv'
<1>1. \A n : Has(Driver, n)' <=> Has(Driver, n)
  BY DEF SameFor, Has
<1>2. Starting(Driver) => Starting(Driver)'
  BY <1>1 DEF Starting, Done, SameFor
<1>3. Unwinding(Driver) => Unwinding(Driver)'
  BY <1>1 DEF Unwinding, Left, SameFor
<1>4. \A k \in 1 .. 11 : UnloadingAt(k) => UnloadingAt(k)'
  BY <1>1 DEF UnloadingAt, SameFor, WskHeld, WskFree
<1>5. QED
  BY <1>1, <1>2, <1>3, <1>4 DEF DriverInv, SameFor

(* So do the sockets of the driver and who brings them up. *)
LEMMA WskKeeps ==
  ASSUME WskInv, wsk' = wsk, ioctl' = ioctl,
         phase'[Driver] = "ready" => phase[Driver] = "ready" \/ ~wsk.ready,
         \A n \in WskNames : <<Driver, n>> \in holding' <=> <<Driver, n>> \in holding
  PROVE  WskInv'
<1>1. \A j \in 1 .. 5 : Has(Driver, WskOrder[j])' <=> Has(Driver, WskOrder[j])
  BY NamesOfOrders DEF Has
<1>2. (WskHeld' <=> WskHeld) /\ (WskFree' <=> WskFree)
  BY <1>1 DEF WskHeld, WskFree
<1>3. \A k \in 1 .. 6 : Done(Driver, WskOrder, k, 5) => Done(Driver, WskOrder, k, 5)'
  BY <1>1 DEF Done
<1>4. \A j \in 1 .. Len(WskUndo) : Has(Driver, WskUndo[j])' <=> Has(Driver, WskUndo[j])
  BY <1>1, WskReversible DEF Reversible
<1>5. \A k \in 1 .. 5 : Left(Driver, WskUndo, k) => Left(Driver, WskUndo, k)'
  BY <1>4 DEF Left
<1>6. Has(Driver, "RouteNotifierV6")' <=> Has(Driver, "RouteNotifierV6")
  BY DEF Has, WskNames
<1>7. ASSUME NEW d \in Devices PROVE RequestInv(d)'
  BY <1>3, <1>5, <1>6 DEF WskInv, RequestInv
<1>8. QED
  BY <1>2, <1>7 DEF WskInv

-----------------------------------------------------------------------------
(* The steps of DriverEntry and InitializeEx, and of their labels. *)
LEMMA StartsBare ==
  ASSUME BringupTypeOK, NEW o \in Devices \cup {Driver}, agenda'[o] = OrderOf(o),
         \A n \in NamesOf(o) : <<o, n>> \notin holding'
  PROVE  Starting(o)'
<1>1. OrderOf(o) \in Seq(Labels) /\ Len(OrderOf(o)) \in Nat /\ Len(OrderOf(o)) >= 1
  BY OwnersOrders DEF Reversible
<1>2. OrderOf(o) = Rest(OrderOf(o), 1) /\ 1 \in 1 .. Len(OrderOf(o)) + 1
  BY <1>1, RestFacts
<1>3. Done(o, OrderOf(o), 1, Len(UndoOf(o)))'
  BY OwnersOrders DEF Done, Has
<1>4. QED
  BY <1>2, <1>3 DEF Starting

(* A line of a start takes one more thing. *)
LEMMA TakenFacts ==
  ASSUME BringupTypeOK, NEW o \in Devices \cup {Driver}, Starting(o), StepTaken(o)
  PROVE  /\ Starting(o)' /\ agenda' \in [Devices \cup {Driver} -> Seq(Labels)]
         /\ \A p \in Devices \cup {Driver} : p # o => agenda'[p] = agenda[p]
         /\ \A p, n : <<p, n>> \in holding' =>
                     <<p, n>> \in holding \/ (p = o /\ n \in NamesOf(o))
         /\ holding \subseteq holding' /\ holding' \subseteq holding \cup ({o} \X NamesOf(o))
<1> DEFINE order == OrderOf(o)
           labels == UndoOf(o)
<1>1. /\ order \in Seq(Labels) /\ Len(labels) = Len(order) - 1 /\ Len(labels) \in Nat
      /\ order[Len(order)] \in {"Selftests", "Registration"}
      /\ \A j \in 1 .. Len(labels) : order[j] \in NamesOf(o)
      /\ \A i, j \in 1 .. Len(order) : order[i] = order[j] => i = j
      /\ Len(order) \in Nat
  BY OwnersOrders DEF Reversible
<1>2. PICK k \in 1 .. Len(order) + 1 : agenda[o] = Rest(order, k) /\ Done(o, order, k, Len(labels))
  BY DEF Starting
<1> HIDE DEF order, labels
<1>a. agenda[o] # <<>>
  BY DEF StepTaken
<1>3. k <= Len(order) /\ Head(agenda[o]) = order[k] /\ Tail(agenda[o]) = Rest(order, k + 1)
      /\ Rest(order, k + 1) \in Seq(Labels)
  <2>1. k <= Len(order) /\ k + 1 \in 1 .. Len(order) + 1
    BY <1>a, <1>1, <1>2, RestFacts
  <2>2. QED
    BY <1>1, <1>2, <2>1, RestFacts
<1>4. agenda' = [agenda EXCEPT ![o] = Rest(order, k + 1)]
  BY <1>3 DEF StepTaken, Advance
<1>5. agenda'[o] = Rest(order, k + 1) /\ agenda' \in [Devices \cup {Driver} -> Seq(Labels)]
      /\ \A p \in Devices \cup {Driver} : p # o => agenda'[p] = agenda[p]
  BY <1>3, <1>4 DEF BringupTypeOK
<1>6. CASE k = Len(order)
  <2>1. holding' = holding
    BY <1>1, <1>3, <1>6 DEF StepTaken
  <2>2. Done(o, order, k + 1, Len(labels))'
    BY <1>1, <1>2, <1>6, <2>1 DEF Done, Has
  <2>3. QED
    BY <1>1, <1>5, <1>6, <2>1, <2>2 DEF Starting, order, labels
<1>7. CASE k < Len(order)
  <2>1. order[k] \in NamesOf(o) /\ order[k] \notin {"Selftests", "Registration"}
    BY <1>1, <1>7 DEF NamesOf, DriverNames, DeviceNames, WskNames, BringupThreads
  <2>2. holding' = holding \cup {<<o, order[k]>>}
    BY <1>3, <2>1 DEF StepTaken, Take
  <2>3. \A j \in 1 .. Len(labels) : <<o, order[j]>> \in holding' <=> j < k + 1
    <3> SUFFICES ASSUME NEW j \in 1 .. Len(labels) PROVE <<o, order[j]>> \in holding' <=> j < k + 1
      OBVIOUS
    <3>1. <<o, order[j]>> \in holding <=> j < k
      BY <1>2 DEF Done, Has
    <3>2. order[j] = order[k] <=> j = k
      BY <1>1, <1>7
    <3>3. QED
      BY <2>2, <3>1, <3>2
  <2>4. Done(o, order, k + 1, Len(labels))'
    BY <2>3 DEF Done, Has
  <2>5. Starting(o)'
    BY <1>1, <1>5, <1>7, <2>4 DEF Starting, order, labels
  <2>6. QED
    BY <1>5, <2>1, <2>2, <2>5
<1>8. QED
  BY <1>1, <1>3, <1>6, <1>7

(* A line that fails leaves exactly the labels below it to undo. *)
LEMMA FailedFacts ==
  ASSUME BringupTypeOK, NEW o \in Devices \cup {Driver}, Starting(o), StepFailed(o)
  PROVE  /\ Unwinding(o)' /\ agenda' \in [Devices \cup {Driver} -> Seq(Labels)]
         /\ \A p \in Devices \cup {Driver} : p # o => agenda'[p] = agenda[p]
<1> DEFINE order == OrderOf(o)
           labels == UndoOf(o)
<1>1. /\ Reversible(order, labels) /\ order \in Seq(Labels) /\ labels \in Seq(Labels)
      /\ Len(labels) = Len(order) - 1 /\ Len(labels) \in Nat /\ Len(order) \in Nat
  BY OwnersOrders DEF Reversible
<1>2. PICK k \in 1 .. Len(order) + 1 : agenda[o] = Rest(order, k) /\ Done(o, order, k, Len(labels))
  BY DEF Starting
<1>3. k <= Len(order)
  BY <1>1, <1>2, RestFacts DEF StepFailed
<1> DEFINE back == Len(order) - k + 1
<1>4. UndoAfter(order, labels, agenda[o]) = Rest(labels, back)
  BY <1>1, <1>2, <1>3, UndoFacts
<1>5. back \in 1 .. Len(labels) + 1 /\ Rest(labels, back) \in Seq(Labels)
  BY <1>1, <1>3, RestFacts
<1>6. agenda' = [agenda EXCEPT ![o] = Rest(labels, back)]
  BY <1>4 DEF StepFailed, Begins
<1>7. agenda'[o] = Rest(labels, back) /\ agenda' \in [Devices \cup {Driver} -> Seq(Labels)]
      /\ \A p \in Devices \cup {Driver} : p # o => agenda'[p] = agenda[p]
  BY <1>5, <1>6 DEF BringupTypeOK
<1>8. \A j \in 1 .. Len(labels) : <<o, labels[j]>> \in holding' <=> j >= back
  <2> SUFFICES ASSUME NEW j \in 1 .. Len(labels) PROVE <<o, labels[j]>> \in holding' <=> j >= back
    OBVIOUS
  <2>1. labels[j] = order[Len(order) - j] /\ Len(order) - j \in 1 .. Len(labels)
    BY <1>1 DEF Reversible
  <2>2. <<o, order[Len(order) - j]>> \in holding <=> Len(order) - j < k
    BY <1>2, <2>1 DEF Done, Has
  <2>3. QED
    BY <1>1, <2>1, <2>2 DEF StepFailed
<1>9. PICK i \in 1 .. Len(labels) + 1 : i = back
  BY <1>5
<1>10. agenda'[o] = Rest(labels, i) /\ Left(o, labels, i)'
  BY <1>7, <1>8, <1>9 DEF Left, Has
<1>11. QED
  BY <1>7, <1>10 DEF Unwinding

(* A label gives back what the line above it took. *)
LEMMA UndoneFacts ==
  ASSUME BringupTypeOK, NEW o \in Devices \cup {Driver}, Unwinding(o), GiveBack(o)
  PROVE  /\ Unwinding(o)' /\ agenda' \in [Devices \cup {Driver} -> Seq(Labels)]
         /\ \A p \in Devices \cup {Driver} : p # o => agenda'[p] = agenda[p]
         /\ \A p, n : p # o \/ n \notin NamesOf(o) => (<<p, n>> \in holding' <=> <<p, n>> \in holding)
         /\ holding' \subseteq holding /\ (stray = FALSE => stray' = FALSE) /\ removed' = removed
<1> DEFINE order == OrderOf(o)
           labels == UndoOf(o)
<1>1. /\ labels \in Seq(Labels) /\ Len(labels) \in Nat
      /\ \A j \in 1 .. Len(labels) : labels[j] \in NamesOf(o)
      /\ \A i, j \in 1 .. Len(labels) : labels[i] = labels[j] => i = j
  <2>1. Reversible(order, labels) /\ Len(labels) \in Nat
        /\ \A j \in 1 .. Len(labels) : labels[j] \in NamesOf(o)
    BY OwnersOrders
  <2>2. ASSUME NEW i \in 1 .. Len(labels), NEW j \in 1 .. Len(labels), labels[i] = labels[j] PROVE i = j
    <3>1. labels[i] = order[Len(order) - i] /\ labels[j] = order[Len(order) - j]
          /\ Len(order) - i \in 1 .. Len(order) /\ Len(order) - j \in 1 .. Len(order)
      BY <2>1 DEF Reversible
    <3>2. Len(order) - i = Len(order) - j
      BY <2>1, <2>2, <3>1 DEF Reversible
    <3>3. QED
      BY <2>1, <3>2 DEF Reversible
  <2>3. QED
    BY <2>1, <2>2 DEF Reversible
<1>2. PICK k \in 1 .. Len(labels) + 1 : agenda[o] = Rest(labels, k) /\ Left(o, labels, k)
  BY DEF Unwinding
<1> HIDE DEF order, labels
<1>3. k <= Len(labels) /\ Head(agenda[o]) = labels[k] /\ Tail(agenda[o]) = Rest(labels, k + 1)
      /\ Rest(labels, k + 1) \in Seq(Labels)
  BY <1>1, <1>2, RestFacts DEF GiveBack
<1>4. labels[k] \in NamesOf(o) /\ labels[k] \notin {"PeerRemoveAll", "RcuBarrier", "Sockets", "Wsk"}
  BY <1>1, <1>3 DEF NamesOf, DriverNames, DeviceNames, WskNames, BringupThreads
<1>5. Released(o, Head(agenda[o])) = {<<o, labels[k]>>}
  BY <1>3, <1>4 DEF Released
<1>6. <<o, labels[k]>> \in holding
  BY <1>2, <1>3 DEF Left, Has
<1>7. holding' = holding \ {<<o, labels[k]>>} /\ (stray = FALSE => stray' = FALSE) /\ removed' = removed
  BY <1>3, <1>4, <1>5, <1>6 DEF GiveBack, Returns
<1>8. agenda' = [agenda EXCEPT ![o] = Rest(labels, k + 1)]
  BY <1>3 DEF GiveBack, Advance
<1>9. agenda'[o] = Rest(labels, k + 1) /\ agenda' \in [Devices \cup {Driver} -> Seq(Labels)]
      /\ \A p \in Devices \cup {Driver} : p # o => agenda'[p] = agenda[p]
  BY <1>3, <1>8 DEF BringupTypeOK
<1>10. \A j \in 1 .. Len(labels) : <<o, labels[j]>> \in holding' <=> j >= k + 1
  <2> SUFFICES ASSUME NEW j \in 1 .. Len(labels) PROVE <<o, labels[j]>> \in holding' <=> j >= k + 1
    OBVIOUS
  <2>1. <<o, labels[j]>> \in holding <=> j >= k
    BY <1>2 DEF Left, Has
  <2>2. labels[j] = labels[k] <=> j = k
    BY <1>1, <1>3
  <2>3. QED
    BY <1>7, <2>1, <2>2
<1>11. Unwinding(o)'
  BY <1>1, <1>3, <1>9, <1>10 DEF Unwinding, Left, Has, labels
<1>12. QED
  BY <1>4, <1>7, <1>9, <1>11

-----------------------------------------------------------------------------
(* One lemma per action: it keeps BringupIInv. *)
LEMMA OwnersDiffer == \A d \in Devices : d # Driver
  BY BringupAssumption

(* DriverEntry begins. *)
LEMMA DriverEntryKeeps ==
  ASSUME BringupIInv, DriverEntry PROVE BringupIInv'
<1> USE DEF BringupIInv
<1>1. BringupTypeOK'
  BY DriverReversible DEF BringupTypeOK, DriverEntry, Begins, Quiet, Reversible
<1>2. ASSUME NEW d \in Devices PROVE DeviceInv(d)'
  BY DeviceKeeps, OwnersDiffer DEF BringupTypeOK, DriverEntry, Begins, Quiet, SameFor
<1>3. WskInv'
  <2>1. phase'[Driver] = "starting"
    BY DEF BringupTypeOK, DriverEntry, Begins
  <2>2. QED
    BY <2>1, WskKeeps DEF DriverEntry, Quiet
<1>4. DriverInv'
  <2>1. phase'[Driver] = "starting" /\ agenda'[Driver] = OrderOf(Driver)
        /\ \A d \in Devices : phase'[d] = phase[d]
    BY OwnersDiffer DEF BringupTypeOK, DriverEntry, Begins, OrderOf
  <2>2. Starting(Driver)'
    BY <2>1, StartsBare DEF DriverEntry
  <2>3. QED
    BY <2>1, <2>2 DEF DriverInv, DriverEntry, Quiet
<1>5. QED
  BY <1>1, <1>2, <1>3, <1>4 DEF DriverEntry

(* Unload begins. *)
LEMMA UnloadStartKeeps ==
  ASSUME BringupIInv, Unload PROVE BringupIInv'
<1> USE DEF BringupIInv
<1>1. BringupTypeOK'
  BY UnloadOrderIs DEF BringupTypeOK, Unload, Begins, Quiet
<1>2. ASSUME NEW d \in Devices PROVE DeviceInv(d)'
  BY DeviceKeeps, OwnersDiffer DEF BringupTypeOK, Unload, Begins, Quiet, SameFor
<1>3. WskInv'
  BY WskKeeps DEF Unload, Quiet
<1>4. DriverInv'
  <2>1. phase'[Driver] = "undoing" /\ agenda'[Driver] = UnloadOrder
        /\ \A d \in Devices : phase'[d] = phase[d]
    BY OwnersDiffer DEF BringupTypeOK, Unload, Begins
  <2>2. UnloadOrder = Rest(UnloadOrder, 1)
    BY UnloadOrderIs, RestFacts
  <2>3. \A n \in DriverNames \ WskNames : Has(Driver, n)
    BY NamesCovered DEF DriverInv, Unload
  <2>4. \A j \in 1 .. 10 : j # 2 => Has(Driver, UnloadOrder[j])'
    BY <2>3, NamesOfOrders DEF Unload, Has
  <2>5. (IF wsk.ready THEN WskHeld ELSE WskFree)
        /\ (WskHeld' <=> WskHeld) /\ (WskFree' <=> WskFree) /\ wsk' = wsk
    <3>1. \A d \in Devices : ioctl[d].at = "none"
      BY DEF DeviceInv, Unload, BringupTypeOK
    <3>2. wsk.lock = Driver
      BY <3>1 DEF WskInv, BringupTypeOK
    <3>3. QED
      BY <3>2 DEF WskInv, Unload, Quiet, WskHeld, WskFree, Has
  <2>6. UnloadingAt(1)'
    BY <2>1, <2>2, <2>4, <2>5 DEF UnloadingAt
  <2>7. QED
    BY <2>1, <2>6 DEF DriverInv, Unload
<1>5. QED
  BY <1>1, <1>2, <1>3, <1>4 DEF Unload

(* A line of DriverEntry succeeds. *)
LEMMA DriverTakesKeeps ==
  ASSUME BringupIInv, StepTaken(Driver) PROVE BringupIInv'
<1> USE DEF BringupIInv
<1>1. phase[Driver] = "starting" /\ phase' = phase /\ wsk' = wsk /\ ioctl' = ioctl /\ peerRefs' = peerRefs
      /\ removed' = removed /\ stray' = stray
  BY DEF StepTaken, Quiet
<1>2. Starting(Driver)
  BY <1>1 DEF DriverInv
<1>3. /\ Starting(Driver)' /\ agenda' \in [Devices \cup {Driver} -> Seq(Labels)]
      /\ \A p \in Devices : agenda'[p] = agenda[p]
      /\ \A p, n : <<p, n>> \in holding' =>
                     <<p, n>> \in holding \/ (p = Driver /\ n \in DriverNames \ WskNames)
      /\ holding \subseteq holding'
      /\ holding' \subseteq holding \cup ({Driver} \X (DriverNames \ WskNames))
  BY <1>2, TakenFacts, OwnersDiffer DEF NamesOf
<1>4. BringupTypeOK'
  BY <1>1, <1>3 DEF BringupTypeOK
<1>5. ASSUME NEW d \in Devices PROVE DeviceInv(d)'
  BY <1>1, <1>3, DeviceKeeps, OwnersDiffer DEF SameFor
<1>6. WskInv'
  BY <1>1, <1>3, WskKeeps
<1>7. DriverInv'
  BY <1>1, <1>3 DEF DriverInv
<1>8. QED
  BY <1>1, <1>4, <1>5, <1>6, <1>7

(* A line of InitializeEx succeeds. *)
LEMMA DeviceTakesKeeps ==
  ASSUME BringupIInv, NEW d \in Devices, StepTaken(d) PROVE BringupIInv'
<1> USE DEF BringupIInv
<1>1. phase[d] = "starting" /\ phase' = phase /\ wsk' = wsk /\ ioctl' = ioctl /\ peerRefs' = peerRefs
      /\ removed' = removed /\ stray' = stray
  BY DEF StepTaken, Quiet
<1>2. Starting(d)
  BY <1>1 DEF DeviceInv
<1>3. /\ Starting(d)' /\ agenda' \in [Devices \cup {Driver} -> Seq(Labels)]
      /\ \A p \in Devices \cup {Driver} : p # d => agenda'[p] = agenda[p]
      /\ \A p, n : <<p, n>> \in holding' =>
                     <<p, n>> \in holding \/ (p = d /\ n \in DeviceNames \ {"Sockets", "Peers"})
      /\ holding \subseteq holding'
      /\ holding' \subseteq holding \cup ({d} \X (DeviceNames \ {"Sockets", "Peers"}))
  BY <1>2, TakenFacts, OwnersDiffer DEF NamesOf
<1>4. BringupTypeOK'
  BY <1>1, <1>3 DEF BringupTypeOK
<1>5. ASSUME NEW e \in Devices, e # d PROVE DeviceInv(e)'
  BY <1>1, <1>3, <1>5, DeviceKeeps DEF SameFor
<1>6. DeviceInv(d)'
  BY <1>1, <1>3 DEF DeviceInv, Has, Bare
<1>7. WskInv'
  BY <1>1, <1>3, WskKeeps, OwnersDiffer
<1>8. DriverInv'
  BY <1>1, <1>3, DriverKeeps, OwnersDiffer DEF SameFor
<1>9. QED
  BY <1>1, <1>4, <1>5, <1>6, <1>7, <1>8

(* A line of DriverEntry or InitializeEx fails. *)
LEMMA StepFailedKeeps ==
  ASSUME BringupIInv, NEW o \in Devices \cup {Driver}, StepFailed(o) PROVE BringupIInv'
<1> USE DEF BringupIInv
<1>1. phase[o] = "starting" /\ phase' = [phase EXCEPT ![o] = "undoing"] /\ wsk' = wsk /\ ioctl' = ioctl
      /\ peerRefs' = peerRefs /\ removed' = removed /\ stray' = stray /\ holding' = holding
  BY DEF StepFailed, Quiet, Begins
<1>2. Starting(o)
  BY <1>1 DEF DeviceInv, DriverInv
<1>3. /\ Unwinding(o)' /\ agenda' \in [Devices \cup {Driver} -> Seq(Labels)]
      /\ \A p \in Devices \cup {Driver} : p # o => agenda'[p] = agenda[p]
  BY <1>2, FailedFacts
<1>4. phase' \in [Devices \cup {Driver} -> {"absent", "starting", "ready", "undoing"}]
      /\ phase'[o] = "undoing" /\ \A p \in Devices \cup {Driver} : p # o => phase'[p] = phase[p]
  BY <1>1 DEF BringupTypeOK
<1>5. BringupTypeOK'
  BY <1>1, <1>3, <1>4 DEF BringupTypeOK
<1>6. ASSUME NEW e \in Devices, e # o PROVE DeviceInv(e)'
  BY <1>1, <1>3, <1>4, <1>6, DeviceKeeps DEF SameFor
<1>7. o \in Devices => DeviceInv(o)'
  BY <1>1, <1>3, <1>4 DEF DeviceInv, Has, Bare
<1>8. WskInv'
  <2>1. phase'[Driver] = "ready" => phase[Driver] = "ready"
    BY <1>4
  <2>2. QED
    BY <1>1, <2>1, WskKeeps
<1>9. DriverInv'
  <2>1. CASE o = Driver
    <3>1. ~wsk.ready
      BY <1>1, <2>1 DEF DriverInv
    <3>2. QED
      BY <1>1, <1>3, <1>4, <2>1, <3>1, OwnersDiffer DEF DriverInv
  <2>2. CASE o # Driver
    <3>1. phase[Driver] = "ready"
      BY <1>1, <2>2 DEF DriverInv
    <3>2. QED
      BY <1>1, <1>3, <1>4, <2>2, <3>1, DriverKeeps DEF SameFor
  <2>3. QED
    BY <2>1, <2>2
<1>10. QED
  BY <1>1, <1>5, <1>6, <1>7, <1>8, <1>9

(* DriverEntry or InitializeEx returns success. *)
LEMMA StartedKeeps ==
  ASSUME BringupIInv, NEW o \in Devices \cup {Driver}, Started(o) PROVE BringupIInv'
<1> USE DEF BringupIInv
<1>1. phase[o] = "starting" /\ agenda[o] = <<>> /\ phase' = [phase EXCEPT ![o] = "ready"] /\ wsk' = wsk
      /\ ioctl' = ioctl /\ peerRefs' = peerRefs /\ removed' = removed /\ stray' = stray
      /\ holding' = holding /\ agenda' = agenda
  BY DEF Started, Quiet
<1>2. \A j \in 1 .. Len(UndoOf(o)) : Has(o, OrderOf(o)[j])'
  <2>1. PICK k \in 1 .. Len(OrderOf(o)) + 1 :
          agenda[o] = Rest(OrderOf(o), k) /\ Done(o, OrderOf(o), k, Len(UndoOf(o)))
    BY <1>1 DEF DeviceInv, DriverInv, Starting
  <2>2. /\ OrderOf(o) \in Seq(Labels) /\ Len(UndoOf(o)) = Len(OrderOf(o)) - 1 /\ Len(OrderOf(o)) \in Nat
    BY OwnersOrders DEF Reversible
  <2>3. k = Len(OrderOf(o)) + 1
    BY <1>1, <2>1, <2>2, RestFacts
  <2>4. QED
    BY <1>1, <2>1, <2>2, <2>3 DEF Done, Has
<1>3. phase' \in [Devices \cup {Driver} -> {"absent", "starting", "ready", "undoing"}]
      /\ phase'[o] = "ready" /\ \A p \in Devices \cup {Driver} : p # o => phase'[p] = phase[p]
  BY <1>1 DEF BringupTypeOK
<1>4. BringupTypeOK'
  BY <1>1, <1>3 DEF BringupTypeOK
<1>5. ASSUME NEW e \in Devices, e # o PROVE DeviceInv(e)'
  BY <1>1, <1>3, <1>5, DeviceKeeps DEF SameFor
<1>6. o \in Devices => DeviceInv(o)'
  <2> HAVE o \in Devices
  <2>1. \A j \in 1 .. 11 : Has(o, InitializeOrder[j])'
    <3>1. OrderOf(o) = InitializeOrder /\ UndoOf(o) = InitializeUndo
      BY OwnersDiffer DEF OrderOf, UndoOf
    <3>2. Len(InitializeUndo) = 11
      BY InitializeReversible DEF Reversible
    <3>3. QED
      BY <1>2, <3>1, <3>2
  <2>2. QED
    BY <1>1, <1>3, <2>1 DEF DeviceInv, Has, Bare
<1>7. WskInv'
  <2>1. phase'[Driver] = "ready" => phase[Driver] = "ready" \/ ~wsk.ready
    BY <1>1, <1>3 DEF DriverInv
  <2>2. QED
    BY <1>1, <2>1, WskKeeps
<1>8. DriverInv'
  <2>1. CASE o = Driver
    <3>1. \A j \in 1 .. 9 : Has(Driver, DriverOrder[j])'
      BY <1>2, <2>1, DriverUndoIs DEF OrderOf, UndoOf
    <3>2. QED
      BY <1>3, <2>1, <3>1 DEF DriverInv
  <2>2. CASE o # Driver
    <3>1. phase[Driver] = "ready"
      BY <1>1, <2>2 DEF DriverInv
    <3>2. QED
      BY <1>1, <1>3, <2>2, <3>1, DriverKeeps DEF SameFor
  <2>3. QED
    BY <2>1, <2>2
<1>9. QED
  BY <1>1, <1>4, <1>5, <1>6, <1>7, <1>8

(* One line of HaltEx. *)
LEMMA HaltingFacts ==
  ASSUME BringupTypeOK, NEW d \in Devices, DeviceInv(d), NEW k \in 1 .. 15, HaltingAt(d, k), GiveBack(d)
  PROVE  /\ k <= 14 /\ HaltingAt(d, k + 1)' /\ agenda' \in [Devices \cup {Driver} -> Seq(Labels)]
         /\ \A p \in Devices \cup {Driver} : p # d => agenda'[p] = agenda[p]
         /\ \A p, n : p # d => (<<p, n>> \in holding' <=> <<p, n>> \in holding)
         /\ holding' \subseteq holding /\ (stray = FALSE => stray' = FALSE)
         /\ removed' \subseteq Devices /\ \A e \in Devices : e # d => (e \in removed' <=> e \in removed)
         /\ \A t \in peerRefs[d] : Has(d, t)' /\ Has(d, "Peers")'
<1>1. k <= 14 /\ Head(agenda[d]) = HaltOrder[k] /\ Tail(agenda[d]) = Rest(HaltOrder, k + 1)
      /\ Rest(HaltOrder, k + 1) \in Seq(Labels)
  <2>1. agenda[d] # <<>> /\ agenda[d] = Rest(HaltOrder, k)
    BY DEF GiveBack, HaltingAt
  <2>2. HaltOrder \in Seq(Labels) /\ Len(HaltOrder) = 14
    BY HaltOrderIs
  <2>3. k \in 1 .. Len(HaltOrder) + 1
    BY <2>2
  <2>4. k <= 14 /\ k + 1 \in 1 .. Len(HaltOrder) + 1
    <3>1. Rest(HaltOrder, k) = <<>> <=> k = Len(HaltOrder) + 1
      BY <2>2, <2>3, RestFacts
    <3>2. QED
      BY <2>1, <2>2, <3>1
  <2>5. Head(Rest(HaltOrder, k)) = HaltOrder[k] /\ Tail(Rest(HaltOrder, k)) = Rest(HaltOrder, k + 1)
    BY <2>2, <2>3, <2>4, RestFacts
  <2>6. Rest(HaltOrder, k + 1) \in Seq(Labels)
    BY <2>2, <2>4, RestFacts
  <2>7. QED
    BY <2>1, <2>4, <2>5, <2>6
<1>2. agenda' = [agenda EXCEPT ![d] = Rest(HaltOrder, k + 1)]
  BY <1>1 DEF GiveBack, Advance
<1>3. agenda'[d] = Rest(HaltOrder, k + 1) /\ agenda' \in [Devices \cup {Driver} -> Seq(Labels)]
      /\ \A p \in Devices \cup {Driver} : p # d => agenda'[p] = agenda[p]
  BY <1>1, <1>2 DEF BringupTypeOK
<1>4. holding' = holding \ Released(d, HaltOrder[k])
      /\ (stray = FALSE /\ Released(d, HaltOrder[k]) \subseteq holding => stray' = FALSE)
      /\ removed' = (IF HaltOrder[k] = "PeerRemoveAll" THEN removed \cup {d} ELSE removed)
  BY <1>1 DEF GiveBack, Returns
<1>5. Waits(d, HaltOrder[k])
  BY <1>1 DEF GiveBack
<1>6. \A i, j \in 1 .. 14 : HaltOrder[i] = HaltOrder[j] => i = j
  BY HaltOrderIs, SMTT(30)
<1>7. CASE k \in TakesNothing
  <2>1. HaltOrder[k] \in {"Sockets", "PeerRemoveAll", "RcuBarrier"}
    BY <1>7, HaltOrderIs DEF TakesNothing
  <2>2. Released(d, HaltOrder[k]) \subseteq {<<d, "Sockets">>}
        /\ Released(d, HaltOrder[k]) \subseteq holding
    BY <2>1 DEF Released
  <2>3. \A n : n # "Sockets" => (Has(d, n)' <=> Has(d, n))
    BY <1>4, <2>2 DEF Has
  <2>4. \A j \in (1 .. 14) \ TakesNothing : Has(d, HaltOrder[j])' <=> j >= k + 1
    <3> SUFFICES ASSUME NEW j \in (1 .. 14) \ TakesNothing PROVE Has(d, HaltOrder[j])' <=> j >= k + 1
      OBVIOUS
    <3>1. HaltOrder[j] # "Sockets"
      BY NamesOfOrders
    <3>2. j # k
      BY <1>7
    <3>3. QED
      BY <2>3, <3>1, <3>2 DEF HaltingAt, TakesNothing
  <2>5. Has(d, "Sockets")' => k + 1 <= 2
    <3>1. k = 2 => Released(d, HaltOrder[k]) = holding \cap {<<d, "Sockets">>}
      BY HaltOrderIs DEF Released
    <3>2. QED
      BY <1>4, <1>7, <3>1 DEF HaltingAt, Has, TakesNothing
  <2>6. Has(d, "Peers")' => k + 1 <= 10
    <3>1. CASE k = 10
      <4>1. CallbacksRun(d) /\ d \in removed
        BY <1>5, <3>1, HaltOrderIs DEF Waits, HaltingAt
      <4>2. peerRefs[d] = {}
        <5> SUFFICES ASSUME NEW t \in peerRefs[d] PROVE FALSE
          OBVIOUS
        <5>1. Has(d, t) /\ t \in BringupThreads
          BY DEF DeviceInv, BringupTypeOK
        <5>2. PICK j \in (1 .. 14) \ TakesNothing : t = HaltOrder[j]
          BY <5>1, NamesCovered DEF DeviceNames, BringupThreads
        <5>3. j >= 10
          BY <3>1, <5>1, <5>2 DEF HaltingAt
        <5>4. QED
          BY <5>1, <5>2, <5>3, HaltOrderIs DEF BringupThreads, TakesNothing
      <4>3. QED
        BY <2>3, <4>1, <4>2 DEF CallbacksRun, Has
    <3>2. CASE k # 10
      BY <1>7, <2>3, <3>2 DEF HaltingAt, TakesNothing
    <3>3. QED
      BY <3>1, <3>2
  <2>7. d \in removed' <=> k + 1 > 3
    BY <1>4, <1>7, HaltOrderIs DEF HaltingAt, TakesNothing
  <2>8. \A t \in peerRefs[d] : Has(d, t)' /\ Has(d, "Peers")'
    BY <2>3 DEF DeviceInv, BringupTypeOK, BringupThreads
  <2>9. \A p, n : p # d => (<<p, n>> \in holding' <=> <<p, n>> \in holding)
    BY <1>4, <2>2
  <2>10. removed' \subseteq Devices /\ \A e \in Devices : e # d => (e \in removed' <=> e \in removed)
    BY <1>4 DEF BringupTypeOK
  <2>11. QED
    BY <1>1, <1>3, <1>4, <2>2, <2>4, <2>5, <2>6, <2>7, <2>8, <2>9, <2>10 DEF HaltingAt
<1>8. CASE k \notin TakesNothing
  <2>1. HaltOrder[k] \in DeviceNames \ {"Sockets", "Peers"} /\ k \in (1 .. 14) \ TakesNothing
    BY <1>1, <1>8, NamesOfOrders
  <2>2. Released(d, HaltOrder[k]) = {<<d, HaltOrder[k]>>}
        /\ HaltOrder[k] \notin {"PeerRemoveAll", "RcuBarrier", "Wsk"}
    BY <2>1 DEF Released, DeviceNames, BringupThreads
  <2>3. <<d, HaltOrder[k]>> \in holding
    BY <2>1 DEF HaltingAt, Has
  <2>4. \A n : n # HaltOrder[k] => (Has(d, n)' <=> Has(d, n))
    BY <1>4, <2>2 DEF Has
  <2>5. \A j \in (1 .. 14) \ TakesNothing : Has(d, HaltOrder[j])' <=> j >= k + 1
    <3> SUFFICES ASSUME NEW j \in (1 .. 14) \ TakesNothing PROVE Has(d, HaltOrder[j])' <=> j >= k + 1
      OBVIOUS
    <3>1. CASE j = k
      BY <1>4, <2>2, <3>1 DEF Has
    <3>2. CASE j # k
      BY <1>6, <2>1, <2>4, <3>2 DEF HaltingAt
    <3>3. QED
      BY <3>1, <3>2
  <2>6. (Has(d, "Sockets")' => k + 1 <= 2) /\ (Has(d, "Peers")' => k + 1 <= 10)
    BY <1>8, <2>1, <2>4 DEF HaltingAt, TakesNothing
  <2>7. removed' = removed /\ (d \in removed' <=> k + 1 > 3)
    BY <1>4, <1>8, <2>2 DEF HaltingAt, TakesNothing
  <2>8. \A t \in peerRefs[d] : Has(d, t)' /\ Has(d, "Peers")'
    <3> SUFFICES ASSUME NEW t \in peerRefs[d] PROVE Has(d, t)' /\ Has(d, "Peers")'
      OBVIOUS
    <3>1. Has(d, t) /\ Has(d, "Peers") /\ t \in BringupThreads
      BY DEF DeviceInv, BringupTypeOK
    <3>2. t # HaltOrder[k]
      BY <1>5, <3>1 DEF Waits
    <3>3. QED
      BY <2>1, <2>4, <3>1, <3>2
  <2>9. \A p, n : p # d => (<<p, n>> \in holding' <=> <<p, n>> \in holding)
    BY <1>4, <2>2
  <2>10. QED
    BY <1>1, <1>3, <1>4, <2>2, <2>3, <2>5, <2>6, <2>7, <2>8, <2>9
    DEF HaltingAt, BringupTypeOK
<1>9. QED
  BY <1>7, <1>8

(* A label of InitializeEx or a line of HaltEx. *)
LEMMA DeviceGivesBackKeeps ==
  ASSUME BringupIInv, NEW d \in Devices, GiveBack(d) PROVE BringupIInv'
<1> USE DEF BringupIInv
<1>1. phase[d] = "undoing" /\ phase' = phase /\ wsk' = wsk /\ ioctl' = ioctl /\ peerRefs' = peerRefs
  BY DEF GiveBack
<1> DEFINE Kept ==
      /\ agenda' \in [Devices \cup {Driver} -> Seq(Labels)]
      /\ \A p \in Devices \cup {Driver} : p # d => agenda'[p] = agenda[p]
      /\ \A p, n : p # d => (<<p, n>> \in holding' <=> <<p, n>> \in holding)
      /\ holding' \subseteq holding /\ stray' = FALSE
      /\ removed' \subseteq Devices /\ \A e \in Devices : e # d => (e \in removed' <=> e \in removed)
      /\ DeviceInv(d)'
<1>2. Kept
  <2>1. CASE Unwinding(d) /\ Bare(d)
    <3>1. /\ Unwinding(d)' /\ agenda' \in [Devices \cup {Driver} -> Seq(Labels)]
          /\ \A p \in Devices \cup {Driver} : p # d => agenda'[p] = agenda[p]
          /\ \A p, n : p # d \/ n \notin NamesOf(d) => (<<p, n>> \in holding' <=> <<p, n>> \in holding)
          /\ holding' \subseteq holding /\ stray' = FALSE /\ removed' = removed
      BY <2>1, UndoneFacts
    <3>2. Bare(d)' /\ peerRefs[d] = {} /\ ~Has(d, "Sockets")'
      BY <2>1, <3>1 DEF Bare, DeviceInv, Has
    <3>3. DeviceInv(d)'
      BY <1>1, <3>1, <3>2 DEF DeviceInv
    <3>4. QED
      BY <3>1, <3>3 DEF BringupTypeOK
  <2>2. ASSUME NEW k \in 1 .. 15, HaltingAt(d, k) PROVE Kept
    <3>1. /\ k <= 14 /\ HaltingAt(d, k + 1)' /\ agenda' \in [Devices \cup {Driver} -> Seq(Labels)]
          /\ \A p \in Devices \cup {Driver} : p # d => agenda'[p] = agenda[p]
          /\ \A p, n : p # d => (<<p, n>> \in holding' <=> <<p, n>> \in holding)
          /\ holding' \subseteq holding /\ stray' = FALSE
          /\ removed' \subseteq Devices /\ \A e \in Devices : e # d => (e \in removed' <=> e \in removed)
          /\ \A t \in peerRefs[d] : Has(d, t)' /\ Has(d, "Peers")'
      BY <2>2, HaltingFacts
    <3>2. (\E i \in 1 .. 15 : HaltingAt(d, i)') /\ (Has(d, "Sockets")' => Has(d, "Sockets"))
      BY <3>1 DEF Has
    <3>3. DeviceInv(d)'
      BY <1>1, <3>1, <3>2 DEF DeviceInv
    <3>4. QED
      BY <3>1, <3>3
  <2>3. QED
    BY <1>1, <2>1, <2>2 DEF DeviceInv
<1>3. BringupTypeOK'
  BY <1>1, <1>2 DEF BringupTypeOK
<1>4. ASSUME NEW e \in Devices, e # d PROVE DeviceInv(e)'
  BY <1>1, <1>2, <1>4, DeviceKeeps DEF SameFor
<1>5. WskInv'
  BY <1>1, <1>2, WskKeeps, OwnersDiffer
<1>6. DriverInv'
  BY <1>1, <1>2, DriverKeeps, OwnersDiffer DEF SameFor
<1>7. QED
  BY <1>2, <1>3, <1>4, <1>5, <1>6

(* One line of Unload. *)
LEMMA UnloadingFacts ==
  ASSUME BringupTypeOK, NEW k \in 1 .. 11, UnloadingAt(k), GiveBack(Driver)
  PROVE  /\ k <= 10 /\ UnloadingAt(k + 1)' /\ agenda' \in [Devices \cup {Driver} -> Seq(Labels)]
         /\ \A d \in Devices : agenda'[d] = agenda[d]
         /\ \A d \in Devices : \A n : <<d, n>> \in holding' <=> <<d, n>> \in holding
         /\ holding' \subseteq holding /\ (stray = FALSE => stray' = FALSE) /\ removed' = removed
<1>1. k <= 10 /\ Head(agenda[Driver]) = UnloadOrder[k] /\ Tail(agenda[Driver]) = Rest(UnloadOrder, k + 1)
      /\ Rest(UnloadOrder, k + 1) \in Seq(Labels)
  <2>1. agenda[Driver] # <<>> /\ agenda[Driver] = Rest(UnloadOrder, k)
    BY DEF GiveBack, UnloadingAt
  <2>2. UnloadOrder \in Seq(Labels) /\ Len(UnloadOrder) = 10
    BY UnloadOrderIs
  <2>3. k \in 1 .. Len(UnloadOrder) + 1
    BY <2>2
  <2>4. k <= 10 /\ k + 1 \in 1 .. Len(UnloadOrder) + 1
    <3>1. Rest(UnloadOrder, k) = <<>> <=> k = Len(UnloadOrder) + 1
      BY <2>2, <2>3, RestFacts
    <3>2. QED
      BY <2>1, <2>2, <3>1
  <2>5. Head(Rest(UnloadOrder, k)) = UnloadOrder[k] /\ Tail(Rest(UnloadOrder, k)) = Rest(UnloadOrder, k + 1)
    BY <2>2, <2>3, <2>4, RestFacts
  <2>6. Rest(UnloadOrder, k + 1) \in Seq(Labels)
    BY <2>2, <2>4, RestFacts
  <2>7. QED
    BY <2>1, <2>4, <2>5, <2>6
<1>2. agenda' = [agenda EXCEPT ![Driver] = Rest(UnloadOrder, k + 1)]
  BY <1>1 DEF GiveBack, Advance
<1>3. agenda'[Driver] = Rest(UnloadOrder, k + 1) /\ agenda' \in [Devices \cup {Driver} -> Seq(Labels)]
      /\ \A d \in Devices : agenda'[d] = agenda[d]
  BY <1>1, <1>2, OwnersDiffer DEF BringupTypeOK
<1>4. holding' = holding \ Released(Driver, UnloadOrder[k]) /\ removed' = removed /\ wsk' = wsk
      /\ (stray = FALSE /\ Released(Driver, UnloadOrder[k]) \subseteq holding => stray' = FALSE)
  <2>1. UnloadOrder[k] # "PeerRemoveAll"
    BY <1>1, UnloadOrderIs
  <2>2. QED
    BY <1>1, <2>1 DEF GiveBack, Returns
<1>5. \A i, j \in 1 .. 10 : UnloadOrder[i] = UnloadOrder[j] => i = j
  BY UnloadOrderIs, SMTT(30)
<1>6. CASE k = 2
  <2>1. Released(Driver, UnloadOrder[k]) = IF wsk.ready THEN OfDriver(ToSet(WskOrder)) ELSE {}
    BY <1>6, UnloadOrderIs DEF Released
  <2>2. ToSet(WskOrder) = {WskOrder[j] : j \in 1 .. 5}
    BY WskReversible DEF ToSet, Reversible
  <2>3. \A o, n : <<o, n>> \in OfDriver(ToSet(WskOrder)) <=> o = Driver /\ \E j \in 1 .. 5 : n = WskOrder[j]
    BY <2>2 DEF OfDriver
  <2>4. Released(Driver, UnloadOrder[k]) \subseteq holding
    BY <1>6, <2>1, <2>2 DEF UnloadingAt, WskHeld, Has, OfDriver
  <2>5. WskFree'
    BY <1>4, <1>6, <2>1, <2>3 DEF UnloadingAt, WskFree, Has
  <2>6. \A j \in 1 .. 10 : j # 2 => (Has(Driver, UnloadOrder[j])' <=> Has(Driver, UnloadOrder[j]))
    BY <1>4, <2>1, <2>3, NamesOfOrders DEF Has
  <2>7. \A j \in 1 .. 10 : j # 2 => (Has(Driver, UnloadOrder[j])' <=> j >= k + 1)
    BY <1>6, <2>6 DEF UnloadingAt
  <2>8. UnloadingAt(k + 1)'
    BY <1>3, <1>6, <2>5, <2>7 DEF UnloadingAt
  <2>9. \A d \in Devices : \A n : <<d, n>> \in holding' <=> <<d, n>> \in holding
    BY <1>4, <2>1, <2>3, OwnersDiffer
  <2>10. QED
    BY <1>1, <1>3, <1>4, <2>4, <2>8, <2>9
<1>7. CASE k # 2
  <2>1. UnloadOrder[k] \in DriverNames \ WskNames
    BY <1>1, <1>7, NamesOfOrders
  <2>2. Released(Driver, UnloadOrder[k]) = {<<Driver, UnloadOrder[k]>>}
    BY <2>1 DEF Released, DriverNames, WskNames
  <2>3. <<Driver, UnloadOrder[k]>> \in holding
    <3>1. k \in 1 .. 10
      BY <1>1
    <3>2. Has(Driver, UnloadOrder[k]) <=> k >= k
      BY <1>7, <3>1 DEF UnloadingAt
    <3>3. QED
      BY <3>2 DEF Has
  <2>4. \A j \in 1 .. 10 : j # 2 => (Has(Driver, UnloadOrder[j])' <=> j >= k + 1)
    <3> SUFFICES ASSUME NEW j \in 1 .. 10, j # 2 PROVE Has(Driver, UnloadOrder[j])' <=> j >= k + 1
      OBVIOUS
    <3>1. Has(Driver, UnloadOrder[j]) <=> j >= k
      BY DEF UnloadingAt
    <3>2. <<Driver, UnloadOrder[j]>> \in Released(Driver, UnloadOrder[k]) <=> j = k
      <4>1. UnloadOrder[j] = UnloadOrder[k] <=> j = k
        BY SMTT(30), <1>1, <1>5
      <4>2. QED
        BY <2>2, <4>1
    <3>3. QED
      BY <1>1, <1>4, <3>1, <3>2 DEF Has
  <2>5. \A j \in 1 .. 5 : Has(Driver, WskOrder[j])' <=> Has(Driver, WskOrder[j])
    BY <1>4, <2>1, <2>2, NamesOfOrders DEF Has
  <2>6. (WskHeld' <=> WskHeld) /\ (WskFree' <=> WskFree)
    BY <2>5 DEF WskHeld, WskFree
  <2>7. k + 1 <= 2 <=> k <= 2
    BY <1>7
  <2>8. UnloadingAt(k + 1)'
    BY <1>3, <1>4, <2>4, <2>6, <2>7 DEF UnloadingAt
  <2>9. QED
    BY <1>1, <1>3, <1>4, <2>2, <2>3, <2>8, OwnersDiffer
<1>8. QED
  BY <1>6, <1>7

(* A label of DriverEntry or a line of Unload. *)
LEMMA DriverGivesBackKeeps ==
  ASSUME BringupIInv, GiveBack(Driver) PROVE BringupIInv'
<1> USE DEF BringupIInv
<1>1. phase[Driver] = "undoing" /\ phase' = phase /\ wsk' = wsk /\ ioctl' = ioctl /\ peerRefs' = peerRefs
  BY DEF GiveBack
<1>2. wsk.lock = Driver /\ \A d \in Devices : phase[d] = "absent" /\ ioctl[d].at = "none"
  BY <1>1 DEF DriverInv, DeviceInv, WskInv, RequestInv, BringupTypeOK
<1> DEFINE Kept ==
      /\ agenda' \in [Devices \cup {Driver} -> Seq(Labels)]
      /\ \A d \in Devices : agenda'[d] = agenda[d]
      /\ \A d \in Devices : \A n : <<d, n>> \in holding' <=> <<d, n>> \in holding
      /\ holding' \subseteq holding /\ stray' = FALSE /\ removed' = removed
      /\ DriverInv'
<1>3. Kept
  <2>1. CASE Unwinding(Driver) /\ ~wsk.ready
    <3>1. /\ Unwinding(Driver)' /\ agenda' \in [Devices \cup {Driver} -> Seq(Labels)]
          /\ \A p \in Devices \cup {Driver} : p # Driver => agenda'[p] = agenda[p]
          /\ \A p, n : p # Driver \/ n \notin NamesOf(Driver) =>
                         (<<p, n>> \in holding' <=> <<p, n>> \in holding)
          /\ holding' \subseteq holding /\ (stray = FALSE => stray' = FALSE) /\ removed' = removed
      <4>1. BringupTypeOK /\ Driver \in Devices \cup {Driver}
        OBVIOUS
      <4>2. QED
        BY <2>1, <4>1, UndoneFacts, Zenon
    <3>2. DriverInv'
      BY <1>1, <2>1, <3>1 DEF DriverInv
    <3>3. QED
      BY <3>1, <3>2, OwnersDiffer
  <2>2. ASSUME NEW k \in 1 .. 11, UnloadingAt(k) PROVE Kept
    <3>1. /\ k <= 10 /\ UnloadingAt(k + 1)' /\ agenda' \in [Devices \cup {Driver} -> Seq(Labels)]
          /\ \A d \in Devices : agenda'[d] = agenda[d]
          /\ \A d \in Devices : \A n : <<d, n>> \in holding' <=> <<d, n>> \in holding
          /\ holding' \subseteq holding /\ stray' = FALSE /\ removed' = removed
      BY <2>2, UnloadingFacts
    <3>2. \E i \in 1 .. 11 : UnloadingAt(i)'
      BY <3>1
    <3>3. DriverInv'
      BY <1>1, <3>2 DEF DriverInv
    <3>4. QED
      BY <3>1, <3>3
  <2>3. QED
    BY <1>1, <2>1, <2>2 DEF DriverInv
<1>4. BringupTypeOK'
  BY <1>1, <1>3 DEF BringupTypeOK
<1>5. ASSUME NEW d \in Devices PROVE DeviceInv(d)'
  BY <1>1, <1>3, DeviceKeeps DEF SameFor
<1>6. WskInv'
  <2>1. ~wsk.ready => WskFree'
    BY <1>2, <1>3 DEF WskInv, WskFree, Has
  <2>2. \A d \in Devices : RequestInv(d)'
    BY <1>1, <1>2 DEF RequestInv
  <2>3. QED
    BY <1>1, <1>2, <2>1, <2>2 DEF WskInv
<1>7. QED
  BY <1>3, <1>4, <1>5, <1>6

(* An owner whose undo list is done holds nothing that its order takes. *)
LEMMA NothingLeftToUndo ==
  ASSUME NEW o \in Devices \cup {Driver}, Unwinding(o), agenda[o] = <<>>
  PROVE  \A n \in NamesOf(o) : ~Has(o, n)
<1> DEFINE order == OrderOf(o)
           labels == UndoOf(o)
<1>1. /\ order \in Seq(Labels) /\ labels \in Seq(Labels)
      /\ Len(labels) = Len(order) - 1 /\ Len(order) \in Nat
      /\ \A j \in 1 .. Len(labels) : labels[j] = order[Len(order) - j]
  BY OwnersOrders DEF Reversible
<1>2. PICK k \in 1 .. Len(labels) + 1 : agenda[o] = Rest(labels, k) /\ Left(o, labels, k)
  BY DEF Unwinding
<1>3. k = Len(labels) + 1
  BY <1>1, <1>2, RestFacts
<1>4. \A j \in 1 .. Len(labels) : ~Has(o, labels[j])
  BY <1>1, <1>2, <1>3 DEF Left
<1>5. \A j \in 1 .. Len(labels) : ~Has(o, order[j])
  <2> SUFFICES ASSUME NEW j \in 1 .. Len(labels) PROVE ~Has(o, order[j])
    OBVIOUS
  <2>1. Len(order) - j \in 1 .. Len(labels) /\ Len(order) - (Len(order) - j) = j
    BY <1>1
  <2>2. QED
    BY <1>1, <1>4, <2>1
<1>6. \A n \in NamesOf(o) : \E j \in 1 .. Len(labels) : n = order[j]
  <2>1. CASE o = Driver
    <3>1. order = DriverOrder /\ labels = DriverUndo /\ NamesOf(o) = DriverNames \ WskNames
      BY <2>1 DEF NamesOf, OrderOf, UndoOf
    <3>2. 1 .. Len(labels) = 1 .. 9
      BY <3>1, DriverUndoIs
    <3>3. \A n \in DriverNames \ WskNames : \E j \in 1 .. 9 : n = DriverOrder[j]
      BY NamesCovered
    <3>4. QED
      BY <3>1, <3>2, <3>3
  <2>2. CASE o # Driver
    <3>1. /\ order = InitializeOrder /\ labels = InitializeUndo
          /\ NamesOf(o) = DeviceNames \ {"Sockets", "Peers"}
      BY <2>2 DEF NamesOf, OrderOf, UndoOf
    <3>2. 1 .. Len(labels) = 1 .. 11
      BY <3>1, InitializeReversible DEF Reversible
    <3>3. \A n \in DeviceNames \ {"Sockets", "Peers"} : \E j \in 1 .. 11 : n = InitializeOrder[j]
      BY NamesCovered
    <3>4. QED
      BY <3>1, <3>2, <3>3
  <2>3. QED
    BY <2>1, <2>2
<1>7. QED
  BY <1>5, <1>6

(* DriverEntry returns its error, or Unload returns. *)
LEMMA DriverGoneKeeps ==
  ASSUME BringupIInv, Gone(Driver) PROVE BringupIInv'
<1> USE DEF BringupIInv
<1>1. phase[Driver] = "undoing" /\ agenda[Driver] = <<>> /\ phase' = [phase EXCEPT ![Driver] = "absent"]
      /\ removed' = removed \ {Driver} /\ wsk' = [wsk EXCEPT !.ready = FALSE] /\ holding' = holding
      /\ agenda' = agenda /\ ioctl' = ioctl /\ peerRefs' = peerRefs /\ stray' = stray
  BY DEF Gone
<1>2. /\ wsk.lock = Driver
      /\ \A d \in Devices : phase[d] = "absent" /\ ioctl[d].at = "none" /\ ~Has(d, "Sockets")
  BY <1>1 DEF DriverInv, DeviceInv, WskInv, RequestInv, BringupTypeOK, Bare
<1>3. \A n \in DriverNames : ~Has(Driver, n)
  <2>1. CASE Unwinding(Driver) /\ ~wsk.ready
    <3>1. \A n \in DriverNames \ WskNames : ~Has(Driver, n)
      BY <1>1, <2>1, NothingLeftToUndo DEF NamesOf
    <3>2. \A n \in WskNames : ~Has(Driver, n)
      BY <1>2, <2>1, NamesCovered DEF WskInv, WskFree
    <3>3. QED
      BY <3>1, <3>2
  <2>2. ASSUME NEW k \in 1 .. 11, UnloadingAt(k) PROVE \A n \in DriverNames : ~Has(Driver, n)
    <3>1. k = 11
      <4>1. UnloadOrder \in Seq(Labels) /\ Len(UnloadOrder) = 10 /\ k \in 1 .. Len(UnloadOrder) + 1
        BY UnloadOrderIs
      <4>2. Rest(UnloadOrder, k) = <<>> <=> k = Len(UnloadOrder) + 1
        BY <4>1, RestFacts
      <4>3. QED
        BY <1>1, <2>2, <4>1, <4>2 DEF UnloadingAt
    <3>2. WskFree /\ \A j \in 1 .. 10 : j # 2 => ~Has(Driver, UnloadOrder[j])
      BY <2>2, <3>1 DEF UnloadingAt
    <3>3. QED
      BY <3>2, NamesCovered DEF WskFree
  <2>3. QED
    BY <1>1, <2>1, <2>2 DEF DriverInv
<1>4. phase' \in [Devices \cup {Driver} -> {"absent", "starting", "ready", "undoing"}]
      /\ phase'[Driver] = "absent" /\ \A d \in Devices : phase'[d] = phase[d]
  BY <1>1, OwnersDiffer DEF BringupTypeOK
<1>5. wsk' \in [ready : BOOLEAN, lock : Devices \cup {Driver}] /\ wsk'.ready = FALSE /\ wsk'.lock = Driver
  BY <1>1, <1>2 DEF BringupTypeOK
<1>6. BringupTypeOK'
  BY <1>1, <1>4, <1>5 DEF BringupTypeOK
<1>7. ASSUME NEW d \in Devices PROVE DeviceInv(d)'
  BY <1>1, <1>2, <1>4, DeviceKeeps, OwnersDiffer DEF SameFor
<1>8. DriverInv'
  BY <1>1, <1>2, <1>3, <1>4, <1>5 DEF DriverInv, Has
<1>9. WskInv'
  <2>1. WskFree'
    BY <1>1, <1>3, NamesOfOrders DEF WskFree, Has, DriverNames
  <2>2. \A d \in Devices : RequestInv(d)'
    BY <1>1, <1>2 DEF RequestInv
  <2>3. QED
    BY <1>1, <1>2, <1>5, <2>1, <2>2 DEF WskInv
<1>10. QED
  BY <1>1, <1>6, <1>7, <1>8, <1>9

(* InitializeEx returns its error, or HaltEx returns. *)
LEMMA DeviceGoneKeeps ==
  ASSUME BringupIInv, NEW d \in Devices, Gone(d) PROVE BringupIInv'
<1> USE DEF BringupIInv
<1>1. phase[d] = "undoing" /\ agenda[d] = <<>> /\ phase' = [phase EXCEPT ![d] = "absent"]
      /\ removed' = removed \ {d} /\ wsk' = wsk /\ holding' = holding
      /\ agenda' = agenda /\ ioctl' = ioctl /\ peerRefs' = peerRefs /\ stray' = stray
  BY OwnersDiffer DEF Gone
<1>2. \A n \in DeviceNames : ~Has(d, n)
  <2>1. CASE Unwinding(d) /\ Bare(d)
    BY <1>1, <2>1, NothingLeftToUndo, OwnersDiffer DEF NamesOf, Bare
  <2>2. ASSUME NEW k \in 1 .. 15, HaltingAt(d, k) PROVE \A n \in DeviceNames : ~Has(d, n)
    <3>1. k = 15
      <4>1. HaltOrder \in Seq(Labels) /\ Len(HaltOrder) = 14 /\ k \in 1 .. Len(HaltOrder) + 1
        BY HaltOrderIs
      <4>2. Rest(HaltOrder, k) = <<>> <=> k = Len(HaltOrder) + 1
        BY <4>1, RestFacts
      <4>3. QED
        BY <1>1, <2>2, <4>1, <4>2 DEF HaltingAt
    <3>2. /\ ~Has(d, "Sockets") /\ ~Has(d, "Peers")
          /\ \A j \in (1 .. 14) \ TakesNothing : ~Has(d, HaltOrder[j])
      BY <2>2, <3>1 DEF HaltingAt
    <3>3. QED
      BY <3>2, NamesCovered
  <2>3. QED
    BY <1>1, <2>1, <2>2 DEF DeviceInv
<1>3. phase' \in [Devices \cup {Driver} -> {"absent", "starting", "ready", "undoing"}]
      /\ phase'[d] = "absent" /\ \A p \in Devices \cup {Driver} : p # d => phase'[p] = phase[p]
  BY <1>1 DEF BringupTypeOK
<1>4. phase[Driver] = "ready"
  BY <1>1 DEF DriverInv
<1>5. BringupTypeOK'
  BY <1>1, <1>3 DEF BringupTypeOK
<1>6. ASSUME NEW e \in Devices, e # d PROVE DeviceInv(e)'
  BY <1>1, <1>3, <1>6, DeviceKeeps DEF SameFor
<1>7. DeviceInv(d)'
  <2>1. Bare(d)'
    BY <1>1, <1>2 DEF Bare, Has, DeviceNames
  <2>2. QED
    BY <1>1, <1>2, <1>3, <2>1 DEF DeviceInv, Has, DeviceNames
<1>8. WskInv'
  BY <1>1, <1>4, WskKeeps
<1>9. DriverInv'
  BY <1>1, <1>3, <1>4, DriverKeeps, OwnersDiffer DEF SameFor
<1>10. QED
  BY <1>1, <1>5, <1>6, <1>7, <1>8, <1>9

(* InitializeEx begins. *)
LEMMA InitializeExKeeps ==
  ASSUME BringupIInv, NEW d \in Devices, InitializeEx(d) PROVE BringupIInv'
<1> USE DEF BringupIInv
<1>1. phase[Driver] = "ready" /\ phase[d] = "absent" /\ phase' = [phase EXCEPT ![d] = "starting"]
      /\ agenda' = [agenda EXCEPT ![d] = InitializeOrder] /\ removed' = removed /\ wsk' = wsk
      /\ holding' = holding /\ ioctl' = ioctl /\ peerRefs' = peerRefs /\ stray' = stray
  BY DEF InitializeEx, Begins, Quiet
<1>2. phase' \in [Devices \cup {Driver} -> {"absent", "starting", "ready", "undoing"}]
      /\ phase'[d] = "starting" /\ \A p \in Devices \cup {Driver} : p # d => phase'[p] = phase[p]
  BY <1>1 DEF BringupTypeOK
<1>3. agenda' \in [Devices \cup {Driver} -> Seq(Labels)] /\ agenda'[d] = InitializeOrder
      /\ \A p \in Devices \cup {Driver} : p # d => agenda'[p] = agenda[p]
  BY <1>1, InitializeReversible DEF BringupTypeOK, Reversible
<1>4. BringupTypeOK'
  BY <1>1, <1>2, <1>3 DEF BringupTypeOK
<1>5. ASSUME NEW e \in Devices, e # d PROVE DeviceInv(e)'
  BY <1>1, <1>2, <1>3, <1>5, DeviceKeeps DEF SameFor
<1>6. DeviceInv(d)'
  <2>1. agenda'[d] = OrderOf(d) /\ \A n \in NamesOf(d) : <<d, n>> \notin holding'
    BY <1>1, <1>3, OwnersDiffer DEF OrderOf, NamesOf, DeviceInv, Has
  <2>2. Starting(d)'
    BY <2>1, StartsBare
  <2>3. Bare(d)'
    BY <1>1 DEF DeviceInv, Bare, Has
  <2>4. peerRefs'[d] = {} /\ ioctl'[d].at = "none"
    BY <1>1 DEF DeviceInv, Bare
  <2>5. QED
    BY <1>2, <2>2, <2>3, <2>4 DEF DeviceInv, Bare
<1>7. WskInv'
  BY <1>1, <1>2, WskKeeps
<1>8. DriverInv'
  BY <1>1, <1>2, <1>3, DriverKeeps, OwnersDiffer DEF SameFor
<1>9. QED
  BY <1>1, <1>4, <1>5, <1>6, <1>7, <1>8

(* HaltEx begins. *)
LEMMA HaltExKeeps ==
  ASSUME BringupIInv, NEW d \in Devices, HaltEx(d) PROVE BringupIInv'
<1> USE DEF BringupIInv
<1>1. phase[d] = "ready" /\ ioctl[d].at = "none" /\ phase' = [phase EXCEPT ![d] = "undoing"]
      /\ agenda' = [agenda EXCEPT ![d] = HaltOrder] /\ removed' = removed /\ wsk' = wsk
      /\ holding' = holding /\ ioctl' = ioctl /\ peerRefs' = peerRefs /\ stray' = stray
  BY DEF HaltEx, Begins, Quiet
<1>2. phase' \in [Devices \cup {Driver} -> {"absent", "starting", "ready", "undoing"}]
      /\ phase'[d] = "undoing" /\ \A p \in Devices \cup {Driver} : p # d => phase'[p] = phase[p]
  BY <1>1 DEF BringupTypeOK
<1>3. agenda' \in [Devices \cup {Driver} -> Seq(Labels)] /\ agenda'[d] = HaltOrder
      /\ \A p \in Devices \cup {Driver} : p # d => agenda'[p] = agenda[p]
  BY <1>1, HaltOrderIs DEF BringupTypeOK
<1>4. phase[Driver] = "ready"
  BY <1>1 DEF DriverInv
<1>5. BringupTypeOK'
  BY <1>1, <1>2, <1>3 DEF BringupTypeOK
<1>6. ASSUME NEW e \in Devices, e # d PROVE DeviceInv(e)'
  BY <1>1, <1>2, <1>3, <1>6, DeviceKeeps DEF SameFor
<1>7. DeviceInv(d)'
  <2>1. \A n \in DeviceNames \ {"Sockets", "Peers"} : Has(d, n)
    BY <1>1, NamesCovered DEF DeviceInv
  <2>2. \A j \in (1 .. 14) \ TakesNothing : Has(d, HaltOrder[j])' /\ j >= 1
    BY <1>1, <2>1, NamesOfOrders DEF Has
  <2>3. HaltOrder = Rest(HaltOrder, 1)
    BY HaltOrderIs, RestFacts
  <2>4. d \notin removed'
    BY <1>1 DEF DeviceInv
  <2>5. HaltingAt(d, 1)'
    BY <1>3, <2>2, <2>3, <2>4 DEF HaltingAt
  <2>6. \A n : Has(d, n)' <=> Has(d, n)
    BY <1>1 DEF Has
  <2>7. \A t \in peerRefs'[d] : Has(d, t)' /\ Has(d, "Peers")'
    BY <1>1, <2>6 DEF DeviceInv
  <2>8. (Has(d, "Sockets")' => wsk'.ready) /\ ioctl'[d].at = "none" /\ \E k \in 1 .. 15 : HaltingAt(d, k)'
    BY <1>1, <2>5, <2>6 DEF DeviceInv
  <2>9. QED
    BY <1>2, <2>7, <2>8 DEF DeviceInv
<1>8. WskInv'
  BY <1>1, <1>4, WskKeeps
<1>9. DriverInv'
  BY <1>1, <1>2, <1>3, <1>4, DriverKeeps, OwnersDiffer DEF SameFor
<1>10. QED
  BY <1>1, <1>5, <1>6, <1>7, <1>8, <1>9

(* A peer is configured. *)
LEMMA CreatePeerKeeps ==
  ASSUME BringupIInv, NEW d \in Devices, CreatePeer(d) PROVE BringupIInv'
<1> USE DEF BringupIInv
<1>1. phase[d] = "ready" /\ holding' = holding \cup {<<d, "Peers">>}
      /\ UNCHANGED <<phase, agenda, wsk, ioctl, peerRefs, removed, stray>>
  BY DEF CreatePeer, Take
<1>2. BringupTypeOK'
  BY <1>1 DEF BringupTypeOK, DeviceNames
<1>3. ASSUME NEW e \in Devices, e # d PROVE DeviceInv(e)'
  BY <1>1, <1>3, DeviceKeeps DEF SameFor
<1>4. DeviceInv(d)'
  BY <1>1 DEF DeviceInv, Has
<1>5. WskInv'
  BY <1>1, WskKeeps, OwnersDiffer
<1>6. DriverInv'
  BY <1>1, DriverKeeps, OwnersDiffer DEF SameFor
<1>7. QED
  BY <1>1, <1>2, <1>3, <1>4, <1>5, <1>6

(* A worker takes its reference to a peer, or drops it. *)
LEMMA TakePeerKeeps ==
  ASSUME BringupIInv, NEW d \in Devices, NEW t \in BringupThreads, TakePeer(d, t) \/ DropPeerRef(d, t)
  PROVE  BringupIInv'
<1> USE DEF BringupIInv
<1>1. /\ UNCHANGED <<holding, phase, agenda, wsk, ioctl, removed, stray>>
      /\ peerRefs' \in [Devices -> SUBSET BringupThreads]
      /\ \A e \in Devices : e # d => peerRefs'[e] = peerRefs[e]
      /\ \A u \in peerRefs'[d] : u \in peerRefs[d] \/ (Has(d, u) /\ Has(d, "Peers"))
  <2>1. CASE TakePeer(d, t)
    <3>1. peerRefs' = [peerRefs EXCEPT ![d] = peerRefs[d] \cup {t}] /\ Has(d, t) /\ Has(d, "Peers")
      BY <2>1 DEF TakePeer, Has
    <3>2. QED
      BY <2>1, <3>1 DEF TakePeer, BringupTypeOK
  <2>2. CASE DropPeerRef(d, t)
    <3>1. peerRefs' = [peerRefs EXCEPT ![d] = peerRefs[d] \ {t}]
      BY <2>2 DEF DropPeerRef
    <3>2. QED
      BY <2>2, <3>1 DEF DropPeerRef, BringupTypeOK
  <2>3. QED
    BY <2>1, <2>2
<1>2. BringupTypeOK'
  BY <1>1 DEF BringupTypeOK
<1>3. ASSUME NEW e \in Devices, e # d PROVE DeviceInv(e)'
  BY <1>1, <1>3, DeviceKeeps DEF SameFor
<1>4. DeviceInv(d)'
  <2>1. \A n : Has(d, n)' <=> Has(d, n)
    BY <1>1 DEF Has
  <2>2. \A u \in peerRefs'[d] : Has(d, u)' /\ Has(d, "Peers")'
    <3>1. \A u \in peerRefs[d] : Has(d, u) /\ Has(d, "Peers")
      BY DEF DeviceInv
    <3>2. QED
      BY <1>1, <3>1 DEF Has
  <2>3. Starting(d) => Starting(d)'
    BY <1>1, <2>1 DEF Starting, Done
  <2>4. Unwinding(d) => Unwinding(d)'
    BY <1>1, <2>1 DEF Unwinding, Left
  <2>5. \A k \in 1 .. 15 : HaltingAt(d, k) => HaltingAt(d, k)'
    BY <1>1, <2>1 DEF HaltingAt
  <2>6. QED
    BY <1>1, <2>1, <2>2, <2>3, <2>4, <2>5 DEF DeviceInv, Bare
<1>5. WskInv'
  BY <1>1, WskKeeps
<1>6. DriverInv'
  BY <1>1, DriverKeeps DEF SameFor
<1>7. QED
  BY <1>1, <1>2, <1>3, <1>4, <1>5, <1>6

(* The callback of RCU frees the removed peers. *)
LEMMA PeerFreeKeeps ==
  ASSUME BringupIInv, NEW d \in Devices, PeerFree(d) PROVE BringupIInv'
<1> USE DEF BringupIInv
<1>1. d \in removed /\ peerRefs[d] = {} /\ holding' = holding \ {<<d, "Peers">>} /\ stray' = FALSE
      /\ UNCHANGED <<phase, agenda, wsk, ioctl, peerRefs, removed>>
  BY DEF PeerFree, Returns
<1>2. BringupTypeOK'
  BY <1>1 DEF BringupTypeOK
<1>3. ASSUME NEW e \in Devices, e # d PROVE DeviceInv(e)'
  BY <1>1, <1>3, DeviceKeeps DEF SameFor
<1>4. DeviceInv(d)'
  <2>1. phase[d] = "undoing" /\ ~Bare(d)
    BY <1>1 DEF DeviceInv, BringupTypeOK, Bare
  <2>2. PICK k \in 1 .. 15 : HaltingAt(d, k)
    BY <2>1 DEF DeviceInv
  <2>3. \A n : n # "Peers" => (Has(d, n)' <=> Has(d, n))
    BY <1>1 DEF Has
  <2>4. \A j \in (1 .. 14) \ TakesNothing : HaltOrder[j] # "Peers"
    BY NamesOfOrders
  <2>5. HaltingAt(d, k)'
    BY <1>1, <2>2, <2>3, <2>4 DEF HaltingAt, Has
  <2>6. QED
    BY <1>1, <2>1, <2>3, <2>5 DEF DeviceInv
<1>5. WskInv'
  BY <1>1, WskKeeps, OwnersDiffer
<1>6. DriverInv'
  BY <1>1, DriverKeeps, OwnersDiffer DEF SameFor
<1>7. QED
  BY <1>1, <1>2, <1>3, <1>4, <1>5, <1>6

-----------------------------------------------------------------------------
(* The steps of AdapterUp change no phase and no agenda but the request's. *)
LEMMA RequestKeeps ==
  ASSUME BringupIInv, NEW d \in Devices, NEW where \in {"none", "lock", "init", "undo", "bind"},
         NEW steps \in Seq(Labels), StandsAt(d, where, steps), SameButIoctl,
         wsk' \in [ready : BOOLEAN, lock : Devices \cup {Driver}], wsk.ready => wsk'.ready,
         phase[d] = "ready",
         \A n : n \notin WskNames => (<<Driver, n>> \in holding' <=> <<Driver, n>> \in holding),
         \A e \in Devices : \A n :
           e # d \/ n # "Sockets" => (<<e, n>> \in holding' <=> <<e, n>> \in holding),
         holding' \subseteq ({Driver} \X DriverNames) \cup (Devices \X DeviceNames),
         <<d, "Sockets">> \in holding' => wsk'.ready /\ where = "none",
         stray' = FALSE, WskInv'
  PROVE  BringupIInv'
<1> USE DEF BringupIInv
<1>1. UNCHANGED <<phase, agenda, peerRefs, removed>> /\ phase[Driver] = "ready"
  BY DEF SameButIoctl, DriverInv
<1>2. ioctl' \in [Devices -> [at : {"none", "lock", "init", "undo", "bind"}, agenda : Seq(Labels)]]
      /\ ioctl'[d] = [at |-> where, agenda |-> steps]
      /\ \A e \in Devices : e # d => ioctl'[e] = ioctl[e]
  BY DEF StandsAt, BringupTypeOK
<1>3. BringupTypeOK'
  BY <1>1, <1>2 DEF BringupTypeOK
<1>4. ASSUME NEW e \in Devices, e # d PROVE DeviceInv(e)'
  BY <1>1, <1>2, <1>4, DeviceKeeps DEF SameFor
<1>5. DeviceInv(d)'
  <2>1. \A n : n # "Sockets" => (Has(d, n)' <=> Has(d, n))
    BY DEF Has
  <2>2. \A j \in 1 .. 11 : Has(d, InitializeOrder[j])'
    BY <2>1, NamesOfOrders DEF DeviceInv
  <2>3. \A t \in peerRefs'[d] : Has(d, t)' /\ Has(d, "Peers")'
    <3>1. \A t \in peerRefs[d] : Has(d, t) /\ Has(d, "Peers") /\ t \in BringupThreads
      BY DEF DeviceInv, BringupTypeOK
    <3>2. QED
      BY <1>1, <2>1, <3>1 DEF BringupThreads
  <2>4. (Has(d, "Sockets")' => wsk'.ready) /\ (ioctl'[d].at # "none" => ~Has(d, "Sockets")')
    BY <1>2 DEF Has
  <2>5. QED
    BY <1>1, <2>2, <2>3, <2>4 DEF DeviceInv
<1>6. DriverInv'
  <2>1. \A j \in 1 .. 9 : Has(Driver, DriverOrder[j])'
    BY <1>1, NamesOfOrders DEF DriverInv, Has
  <2>2. QED
    BY <1>1, <2>1 DEF DriverInv
<1>7. QED
  BY <1>3, <1>4, <1>5, <1>6

(* An adapter is set up: it binds at once or waits for WskInit. *)
LEMMA AdapterUpKeeps ==
  ASSUME BringupIInv, NEW d \in Devices, AdapterUp(d) PROVE BringupIInv'
<1> USE DEF BringupIInv
<1> DEFINE where == IF wsk.ready THEN "bind" ELSE "lock"
<1>1. /\ phase[d] = "ready" /\ ioctl[d].at = "none" /\ ~Has(d, "Sockets")
      /\ StandsAt(d, where, <<>>) /\ SameButIoctl /\ holding' = holding /\ wsk' = wsk /\ stray' = FALSE
  BY DEF AdapterUp, Has
<1>2. where \in {"none", "lock", "init", "undo", "bind"} /\ where \notin {"init", "undo"}
      /\ (where = "bind" => wsk.ready) /\ <<>> \in Seq(Labels)
  OBVIOUS
<1> HIDE DEF where
<1>3. ioctl'[d].at = where /\ \A e \in Devices : e # d => ioctl'[e] = ioctl[e]
  BY <1>1 DEF StandsAt, BringupTypeOK
<1>4. phase' = phase
  BY <1>1 DEF SameButIoctl
<1>5. WskInv'
  <2>1. /\ wsk.lock # Driver => ~wsk.ready /\ ioctl'[wsk.lock].at \in {"init", "undo"}
        /\ wsk.lock = Driver /\ ~wsk.ready => WskFree'
        /\ wsk.ready /\ phase[Driver] = "ready" => WskHeld'
    BY <1>1, <1>3 DEF WskInv, WskFree, WskHeld, Has, BringupTypeOK
  <2>2. ASSUME NEW e \in Devices, e # d PROVE RequestInv(e)'
    BY <1>1, <1>3, <2>2 DEF WskInv, RequestInv, Done, Left, Has
  <2>3. RequestInv(d)'
    BY <1>1, <1>2, <1>3 DEF RequestInv
  <2>4. \A e \in Devices : RequestInv(e)'
    BY <2>2, <2>3
  <2>5. QED
    BY <1>1, <1>4, <2>1, <2>4 DEF WskInv
<1>6. QED
  <2>1. where \in {"none", "lock", "init", "undo", "bind"} /\ <<>> \in Seq(Labels)
    BY <1>2
  <2>2. StandsAt(d, where, <<>>) /\ SameButIoctl /\ phase[d] = "ready" /\ stray' = FALSE
    BY <1>1
  <2>3. wsk' \in [ready : BOOLEAN, lock : Devices \cup {Driver}] /\ (wsk.ready => wsk'.ready)
    BY <1>1 DEF BringupTypeOK
  <2>4. /\ \A n : n \notin WskNames => (<<Driver, n>> \in holding' <=> <<Driver, n>> \in holding)
        /\ \A e \in Devices : \A n :
             e # d \/ n # "Sockets" => (<<e, n>> \in holding' <=> <<e, n>> \in holding)
    BY <1>1
  <2>5. holding' \subseteq ({Driver} \X DriverNames) \cup (Devices \X DeviceNames)
    BY <1>1 DEF BringupTypeOK
  <2>6. <<d, "Sockets">> \notin holding'
    BY <1>1 DEF Has
  <2>7. QED
    BY <2>1, <2>2, <2>3, <2>4, <2>5, <2>6, <1>5, RequestKeeps

(* The adapters that wait for the lock have no part in what is brought up. *)
LEMMA OthersWait ==
  ASSUME BringupIInv, NEW d \in Devices, ioctl[d].at \in {"init", "undo"},
         \A e \in Devices : e # d => ioctl'[e] = ioctl[e]
  PROVE  /\ wsk.lock = d /\ ~wsk.ready /\ phase[d] = "ready" /\ phase[Driver] = "ready"
         /\ ~Has(d, "Sockets")
         /\ \A e \in Devices : e # d => ioctl[e].at \notin {"init", "undo", "bind"} /\ RequestInv(e)'
<1> USE DEF BringupIInv
<1>1. wsk.lock = d /\ ~wsk.ready /\ phase[d] = "ready" /\ ~Has(d, "Sockets")
  BY OwnersDiffer DEF WskInv, RequestInv, DeviceInv
<1>2. phase[Driver] = "ready"
  BY <1>1 DEF DriverInv
<1>3. ASSUME NEW e \in Devices, e # d
      PROVE  ioctl[e].at \notin {"init", "undo", "bind"} /\ RequestInv(e)'
  <2>1. ioctl[e].at \notin {"init", "undo", "bind"}
    BY <1>1, <1>3 DEF WskInv, RequestInv
  <2>2. QED
    BY <1>3, <2>1 DEF RequestInv
<1>4. QED
  BY <1>1, <1>2, <1>3

(* RestFacts for the order of WskInit. *)
LEMMA WskOrderRest ==
  ASSUME NEW k \in 1 .. 6
  PROVE  /\ WskOrder = Rest(WskOrder, 1) /\ Rest(WskOrder, k) \in Seq(Labels)
         /\ Rest(WskOrder, k) = <<>> <=> k = 6
         /\ k <= 5 => /\ Head(Rest(WskOrder, k)) = WskOrder[k]
                      /\ Tail(Rest(WskOrder, k)) = Rest(WskOrder, k + 1)
                      /\ Rest(WskOrder, k + 1) \in Seq(Labels)
<1>1. WskOrder \in Seq(Labels) /\ Len(WskOrder) = 5 /\ k \in 1 .. Len(WskOrder) + 1
  BY WskReversible DEF Reversible
<1>2. WskOrder = Rest(WskOrder, 1) /\ Rest(WskOrder, k) \in Seq(Labels)
  BY <1>1, RestFacts
<1>3. Rest(WskOrder, k) = <<>> <=> k = Len(WskOrder) + 1
  BY <1>1, RestFacts
<1>4. ASSUME k <= 5
      PROVE  /\ Head(Rest(WskOrder, k)) = WskOrder[k]
             /\ Tail(Rest(WskOrder, k)) = Rest(WskOrder, k + 1)
             /\ Rest(WskOrder, k + 1) \in Seq(Labels)
  <2>1. k + 1 \in 1 .. Len(WskOrder) + 1 /\ k <= Len(WskOrder)
    BY <1>1, <1>4
  <2>2. QED
    BY <1>1, <2>1, RestFacts
<1>5. QED
  BY <1>1, <1>2, <1>3, <1>4

(* RestFacts for its labels. *)
LEMMA WskUndoRest ==
  ASSUME NEW k \in 1 .. 5
  PROVE  /\ Len(WskUndo) = 4 /\ Rest(WskUndo, k) \in Seq(Labels)
         /\ Rest(WskUndo, k) = <<>> <=> k = 5
         /\ k <= 4 => /\ Head(Rest(WskUndo, k)) = WskUndo[k]
                      /\ Tail(Rest(WskUndo, k)) = Rest(WskUndo, k + 1)
                      /\ Rest(WskUndo, k + 1) \in Seq(Labels)
<1>1. WskUndo \in Seq(Labels) /\ Len(WskUndo) = 4 /\ k \in 1 .. Len(WskUndo) + 1
  BY WskReversible DEF Reversible
<1>2. Rest(WskUndo, k) \in Seq(Labels)
  BY <1>1, RestFacts
<1>3. Rest(WskUndo, k) = <<>> <=> k = Len(WskUndo) + 1
  BY <1>1, RestFacts
<1>4. ASSUME k <= 4
      PROVE  /\ Head(Rest(WskUndo, k)) = WskUndo[k]
             /\ Tail(Rest(WskUndo, k)) = Rest(WskUndo, k + 1)
             /\ Rest(WskUndo, k + 1) \in Seq(Labels)
  <2>1. k + 1 \in 1 .. Len(WskUndo) + 1 /\ k <= Len(WskUndo)
    BY <1>1, <1>4
  <2>2. QED
    BY <1>1, <2>1, RestFacts
<1>5. QED
  BY <1>1, <1>2, <1>3, <1>4

\* The agenda of a request in WskInit is empty exactly when the whole order was done, and the agenda of
\* one that unwinds is empty exactly when the whole undo list was.
LEMMA WskAgendaEnds ==
  /\ \A k \in 1 .. 6 : (Rest(WskOrder, k) = <<>> => k = 6) /\ (Rest(WskOrder, k) # <<>> => k <= 5)
  /\ \A k \in 1 .. 5 : (Rest(WskUndo, k) = <<>> => k = 5) /\ (Rest(WskUndo, k) # <<>> => k <= 4)
<1>1. ASSUME NEW k \in 1 .. 6
      PROVE  (Rest(WskOrder, k) = <<>> => k = 6) /\ (Rest(WskOrder, k) # <<>> => k <= 5)
  <2>1. Rest(WskOrder, k) = <<>> <=> k = 6
    BY WskOrderRest
  <2>2. QED
    BY <2>1
<1>2. ASSUME NEW k \in 1 .. 5
      PROVE  (Rest(WskUndo, k) = <<>> => k = 5) /\ (Rest(WskUndo, k) # <<>> => k <= 4)
  <2>1. Rest(WskUndo, k) = <<>> <=> k = 5
    BY WskUndoRest
  <2>2. QED
    BY <2>1
<1>3. QED
  BY <1>1, <1>2

(* The labels of WskInit, written out. *)
LEMMA WskUndoIs ==
    /\ WskUndo[1] = "RouteNotifierV4" /\ WskUndo[2] = "Provider"
    /\ WskUndo[3] = "WskRegistration" /\ WskUndo[4] = "Lookaside"
  BY DEF WskUndo

(* An adapter gets the lock of WskInit. *)
LEMMA WskLockKeeps ==
  ASSUME BringupIInv, NEW d \in Devices, WskLock(d) PROVE BringupIInv'
<1> USE DEF BringupIInv
<1>1. ioctl[d].at = "lock" /\ wsk.lock = Driver /\ SameButIoctl /\ holding' = holding /\ stray' = FALSE
  BY DEF WskLock
<1>2. phase[d] = "ready" /\ phase[Driver] = "ready" /\ ~Has(d, "Sockets") /\ phase' = phase
  BY <1>1 DEF DeviceInv, DriverInv, SameButIoctl
<1>3. \A e \in Devices : ioctl[e].at \notin {"init", "undo"}
  BY <1>1, OwnersDiffer DEF WskInv, RequestInv
<1>4. CASE wsk.ready
  <2>1. StandsAt(d, "bind", <<>>) /\ wsk' = wsk /\ <<>> \in Seq(Labels)
    BY <1>4 DEF WskLock
  <2>2. ioctl'[d].at = "bind" /\ \A e \in Devices : e # d => ioctl'[e] = ioctl[e]
    BY <2>1 DEF StandsAt, BringupTypeOK
  <2>3. \A e \in Devices : RequestInv(e)'
    BY <1>3, <1>4, <2>1, <2>2 DEF RequestInv
  <2>4. WskInv'
    BY <1>1, <1>2, <1>4, <2>1, <2>3 DEF WskInv, WskHeld, Has
  <2>5. QED
    BY <1>1, <1>2, <2>1, <2>4, RequestKeeps DEF BringupTypeOK, Has
<1>5. CASE ~wsk.ready
  <2>1. StandsAt(d, "init", WskOrder) /\ wsk' = [wsk EXCEPT !.lock = d] /\ WskOrder \in Seq(Labels)
    BY <1>5, WskReversible DEF WskLock, Reversible
  <2>2. wsk' \in [ready : BOOLEAN, lock : Devices \cup {Driver}] /\ wsk'.ready = FALSE /\ wsk'.lock = d
    BY <1>5, <2>1 DEF BringupTypeOK
  <2>3. /\ ioctl'[d].at = "init" /\ ioctl'[d].agenda = WskOrder
        /\ \A e \in Devices : e # d => ioctl'[e] = ioctl[e]
    BY <2>1 DEF StandsAt, BringupTypeOK
  <2>4. RequestInv(d)'
    <3>1. Done(Driver, WskOrder, 1, 5)'
      BY <1>1, <1>5 DEF WskInv, WskFree, Done, Has
    <3>2. ioctl'[d].agenda = Rest(WskOrder, 1) /\ 1 \in 1 .. 6
      BY <2>3, WskOrderRest
    <3>3. QED
      BY <2>2, <2>3, <3>1, <3>2 DEF RequestInv
  <2>5. \A e \in Devices : e # d => RequestInv(e)'
    BY <1>3, <1>5, <2>3 DEF RequestInv, WskInv
  <2>6. WskInv'
    BY <2>2, <2>3, <2>4, <2>5, OwnersDiffer DEF WskInv
  <2>7. QED
    BY <1>1, <1>2, <1>5, <2>1, <2>2, <2>6, RequestKeeps DEF BringupTypeOK, Has
<1>6. QED
  BY <1>4, <1>5

(* A line of WskInit succeeds. *)
LEMMA WskStepKeeps ==
  ASSUME BringupIInv, NEW d \in Devices, WskStep(d) PROVE BringupIInv'
<1> USE DEF BringupIInv
<1>1. ioctl[d].at = "init" /\ ioctl[d].agenda # <<>> /\ SameButIoctl /\ wsk' = wsk /\ stray' = FALSE
  BY DEF WskStep
<1>2. PICK k \in 1 .. 6 : ioctl[d].agenda = Rest(WskOrder, k) /\ Done(Driver, WskOrder, k, 5)
  BY <1>1 DEF WskInv, RequestInv
<1>3. k <= 5
  BY <1>1, <1>2, WskAgendaEnds
<1>4. holding' = holding \cup {<<Driver, WskOrder[k]>>} /\ StandsAt(d, "init", Rest(WskOrder, k + 1))
      /\ Rest(WskOrder, k + 1) \in Seq(Labels)
  BY <1>2, <1>3, WskOrderRest DEF WskStep, Take
<1>5. /\ ioctl'[d].at = "init" /\ ioctl'[d].agenda = Rest(WskOrder, k + 1)
      /\ \A e \in Devices : e # d => ioctl'[e] = ioctl[e]
  BY <1>4 DEF StandsAt, BringupTypeOK
<1>6. /\ wsk.lock = d /\ ~wsk.ready /\ phase[d] = "ready" /\ phase[Driver] = "ready"
      /\ ~Has(d, "Sockets") /\ \A e \in Devices : e # d => RequestInv(e)'
  BY <1>1, <1>5, OthersWait
<1>7. RequestInv(d)'
  <2>1. ASSUME NEW j \in 1 .. 5 PROVE Has(Driver, WskOrder[j])' <=> j < k + 1
    <3>1. WskOrder[j] = WskOrder[k] <=> j = k
      BY <1>3, WskReversible DEF Reversible
    <3>2. <<Driver, WskOrder[j]>> \in holding <=> j < k
      BY <1>2 DEF Done, Has
    <3>3. QED
      BY <1>4, <3>1, <3>2 DEF Has
  <2>2. Done(Driver, WskOrder, k + 1, 5)'
    BY <2>1 DEF Done
  <2>3. k + 1 \in 1 .. 6
    BY <1>3
  <2>4. QED
    BY <1>1, <1>5, <1>6, <2>2, <2>3 DEF RequestInv
<1>8. WskInv'
  BY <1>1, <1>5, <1>6, <1>7, OwnersDiffer DEF WskInv
<1>9. WskOrder[k] \in WskNames /\ WskOrder[k] \in DriverNames
  BY <1>3, NamesOfOrders DEF DriverNames
<1>10. /\ \A n : n \notin WskNames => (<<Driver, n>> \in holding' <=> <<Driver, n>> \in holding)
       /\ \A e \in Devices : \A n : <<e, n>> \in holding' <=> <<e, n>> \in holding
       /\ holding' \subseteq ({Driver} \X DriverNames) \cup (Devices \X DeviceNames)
       /\ <<d, "Sockets">> \notin holding'
  BY <1>4, <1>6, <1>9, OwnersDiffer DEF BringupTypeOK, Has
<1>11. wsk' \in [ready : BOOLEAN, lock : Devices \cup {Driver}]
  BY <1>1 DEF BringupTypeOK
<1>12. QED
  BY <1>1, <1>4, <1>6, <1>8, <1>10, <1>11, RequestKeeps

(* A line of WskInit fails. *)
LEMMA WskStepFailsKeeps ==
  ASSUME BringupIInv, NEW d \in Devices, WskStepFails(d) PROVE BringupIInv'
<1> USE DEF BringupIInv
<1>1. /\ ioctl[d].at = "init" /\ ioctl[d].agenda # <<>> /\ SameButIoctl /\ wsk' = wsk /\ stray' = FALSE
      /\ holding' = holding
  BY DEF WskStepFails
<1>2. PICK k \in 1 .. 6 : ioctl[d].agenda = Rest(WskOrder, k) /\ Done(Driver, WskOrder, k, 5)
  BY <1>1 DEF WskInv, RequestInv
<1>3. k <= 5
  BY <1>1, <1>2, WskAgendaEnds
<1>4. PICK i \in 1 .. 5 : i = 6 - k
  BY <1>3
<1>5. UndoAfter(WskOrder, WskUndo, Rest(WskOrder, k)) = Rest(WskUndo, i)
  <2>1. Len(WskOrder) = 5 /\ Reversible(WskOrder, WskUndo) /\ k \in 1 .. Len(WskOrder)
    BY <1>3, WskReversible
  <2>2. Len(WskOrder) - k + 1 = i
    BY <1>4, <2>1
  <2>3. UndoAfter(WskOrder, WskUndo, Rest(WskOrder, k)) = Rest(WskUndo, Len(WskOrder) - k + 1)
    BY <2>1, UndoFacts
  <2>4. QED
    BY <2>2, <2>3
<1>6. StandsAt(d, "undo", Rest(WskUndo, i)) /\ Rest(WskUndo, i) \in Seq(Labels)
  BY <1>2, <1>5, WskUndoRest DEF WskStepFails
<1>7. /\ ioctl'[d].at = "undo" /\ ioctl'[d].agenda = Rest(WskUndo, i)
      /\ \A e \in Devices : e # d => ioctl'[e] = ioctl[e]
  BY <1>6 DEF StandsAt, BringupTypeOK
<1>8. /\ wsk.lock = d /\ ~wsk.ready /\ phase[d] = "ready" /\ phase[Driver] = "ready"
      /\ ~Has(d, "Sockets") /\ \A e \in Devices : e # d => RequestInv(e)'
  BY <1>1, <1>7, OthersWait
<1>9. RequestInv(d)'
  <2>1. \A j \in 1 .. 4 : WskUndo[j] = WskOrder[5 - j] /\ 5 - j \in 1 .. 5
    BY WskReversible DEF Reversible
  <2>2. \A j \in 1 .. 4 : Has(Driver, WskUndo[j])' <=> j >= i
    BY <1>1, <1>2, <1>4, <2>1 DEF Done, Has
  <2>3. Left(Driver, WskUndo, i)'
    BY <2>2, WskUndoRest DEF Left
  <2>4. ~Has(Driver, "RouteNotifierV6")'
    <3>1. Has(Driver, WskOrder[5]) <=> 5 < k
      BY <1>2 DEF Done
    <3>2. QED
      BY <1>1, <1>3, <3>1, WskOrderIs DEF Has
  <2>5. QED
    BY <1>1, <1>7, <1>8, <2>3, <2>4 DEF RequestInv
<1>10. WskInv'
  BY <1>1, <1>7, <1>8, <1>9, OwnersDiffer DEF WskInv
<1>11. wsk' \in [ready : BOOLEAN, lock : Devices \cup {Driver}]
       /\ holding' \subseteq ({Driver} \X DriverNames) \cup (Devices \X DeviceNames)
       /\ <<d, "Sockets">> \notin holding'
  BY <1>1, <1>8 DEF BringupTypeOK, Has
<1>12. QED
  BY <1>1, <1>6, <1>8, <1>10, <1>11, RequestKeeps

(* A label of WskInit. *)
LEMMA WskGiveBackKeeps ==
  ASSUME BringupIInv, NEW d \in Devices, WskGiveBack(d) PROVE BringupIInv'
<1> USE DEF BringupIInv
<1>1. ioctl[d].at = "undo" /\ ioctl[d].agenda # <<>> /\ SameButIoctl /\ wsk' = wsk
  BY DEF WskGiveBack
<1>2. PICK k \in 1 .. 5 : ioctl[d].agenda = Rest(WskUndo, k) /\ Left(Driver, WskUndo, k)
  BY <1>1 DEF WskInv, RequestInv
<1>3. k <= 4
  BY <1>1, <1>2, WskAgendaEnds
<1>4. Head(ioctl[d].agenda) = WskUndo[k] /\ Tail(ioctl[d].agenda) = Rest(WskUndo, k + 1)
      /\ Rest(WskUndo, k + 1) \in Seq(Labels)
  BY <1>2, <1>3, WskUndoRest
<1>5. <<Driver, WskUndo[k]>> \in holding
  <2>1. k \in 1 .. Len(WskUndo)
    <3>1. Len(WskUndo) = 4
      BY WskUndoRest
    <3>2. QED
      BY <1>3, <3>1
  <2>2. Has(Driver, WskUndo[k]) <=> k >= k
    BY <1>2, <2>1 DEF Left
  <2>3. QED
    BY <2>2 DEF Has
<1>6. holding' = holding \ {<<Driver, WskUndo[k]>>} /\ stray' = FALSE
      /\ StandsAt(d, "undo", Rest(WskUndo, k + 1))
  BY <1>4, <1>5 DEF WskGiveBack, Returns
<1>7. /\ ioctl'[d].at = "undo" /\ ioctl'[d].agenda = Rest(WskUndo, k + 1)
      /\ \A e \in Devices : e # d => ioctl'[e] = ioctl[e]
  BY <1>4, <1>6 DEF StandsAt, BringupTypeOK
<1>8. /\ wsk.lock = d /\ ~wsk.ready /\ phase[d] = "ready" /\ phase[Driver] = "ready"
      /\ ~Has(d, "Sockets") /\ \A e \in Devices : e # d => RequestInv(e)'
  BY <1>1, <1>7, OthersWait
<1>9. RequestInv(d)'
  <2>1. ASSUME NEW j \in 1 .. 4 PROVE Has(Driver, WskUndo[j])' <=> j >= k + 1
    <3>1. WskUndo[j] = WskUndo[k] <=> j = k
      BY <1>3, WskUndoIs
    <3>2. <<Driver, WskUndo[j]>> \in holding <=> j >= k
      BY <1>2, WskUndoRest DEF Left, Has
    <3>3. QED
      BY <1>6, <3>1, <3>2 DEF Has
  <2>2. Left(Driver, WskUndo, k + 1)'
    BY <2>1, WskUndoRest DEF Left
  <2>3. k + 1 \in 1 .. 5 /\ ~Has(Driver, "RouteNotifierV6")'
    BY <1>1, <1>3, <1>6 DEF WskInv, RequestInv, Has
  <2>4. QED
    BY <1>1, <1>7, <1>8, <2>2, <2>3 DEF RequestInv
<1>10. WskInv'
  BY <1>1, <1>7, <1>8, <1>9, OwnersDiffer DEF WskInv
<1>11. WskUndo[k] \in WskNames
  BY <1>3, WskUndoIs DEF WskNames
<1>12. /\ \A n : n \notin WskNames => (<<Driver, n>> \in holding' <=> <<Driver, n>> \in holding)
       /\ \A e \in Devices : \A n : <<e, n>> \in holding' <=> <<e, n>> \in holding
       /\ holding' \subseteq ({Driver} \X DriverNames) \cup (Devices \X DeviceNames)
       /\ <<d, "Sockets">> \notin holding'
  BY <1>6, <1>8, <1>11, OwnersDiffer DEF BringupTypeOK, Has
<1>13. wsk' \in [ready : BOOLEAN, lock : Devices \cup {Driver}]
  BY <1>1 DEF BringupTypeOK
<1>14. QED
  BY <1>1, <1>4, <1>6, <1>8, <1>10, <1>12, <1>13, RequestKeeps

(* WskInit ends and releases its lock. *)
LEMMA WskEndKeeps ==
  ASSUME BringupIInv, NEW d \in Devices, WskEnd(d) PROVE BringupIInv'
<1> USE DEF BringupIInv
<1> DEFINE ready == ioctl[d].at = "init"
           where == IF ready THEN "bind" ELSE "none"
<1>1. /\ ioctl[d].at \in {"init", "undo"} /\ ioctl[d].agenda = <<>> /\ SameButIoctl /\ stray' = FALSE
      /\ holding' = holding /\ wsk' = [ready |-> ready, lock |-> Driver] /\ StandsAt(d, where, <<>>)
  BY DEF WskEnd
<1>2. where \in {"none", "lock", "init", "undo", "bind"} /\ <<>> \in Seq(Labels)
  OBVIOUS
<1>3. ioctl'[d].at = where /\ \A e \in Devices : e # d => ioctl'[e] = ioctl[e]
  BY <1>1, <1>2 DEF StandsAt, BringupTypeOK
<1>4. /\ wsk.lock = d /\ ~wsk.ready /\ phase[d] = "ready" /\ phase[Driver] = "ready"
      /\ ~Has(d, "Sockets")
      /\ \A e \in Devices : e # d => ioctl[e].at \notin {"init", "undo", "bind"} /\ RequestInv(e)'
  BY <1>1, <1>3, OthersWait
<1>5. IF ready THEN WskHeld ELSE WskFree
  <2>1. CASE ready
    <3>1. PICK k \in 1 .. 6 : ioctl[d].agenda = Rest(WskOrder, k) /\ Done(Driver, WskOrder, k, 5)
      BY <2>1 DEF WskInv, RequestInv
    <3>2. k = 6
      BY <1>1, <3>1, WskAgendaEnds
    <3>3. QED
      BY <2>1, <3>1, <3>2 DEF Done, WskHeld
  <2>2. CASE ~ready
    <3>1. PICK k \in 1 .. 5 : ioctl[d].agenda = Rest(WskUndo, k) /\ Left(Driver, WskUndo, k)
      BY <1>1, <2>2 DEF WskInv, RequestInv
    <3>2. k = 5 /\ Len(WskUndo) = 4
      <4>1. k = 5
        BY <1>1, <3>1, WskAgendaEnds
      <4>2. QED
        BY <4>1, WskUndoRest
    <3>3. \A j \in 1 .. 4 : ~Has(Driver, WskUndo[j])
      BY <3>1, <3>2 DEF Left
    <3>4. ~Has(Driver, "RouteNotifierV6")
      BY <1>1, <2>2 DEF WskInv, RequestInv
    <3>5. \A j \in 1 .. 5 : ~Has(Driver, WskOrder[j])
      BY <3>3, <3>4, WskOrderIs, WskUndoIs
    <3>6. QED
      BY <2>2, <3>5 DEF WskFree
  <2>3. QED
    BY <2>1, <2>2
<1> HIDE DEF ready
<1>6. /\ wsk' \in [ready : BOOLEAN, lock : Devices \cup {Driver}] /\ wsk'.lock = Driver
      /\ (wsk'.ready <=> ready)
  BY <1>1 DEF ready
<1>7. RequestInv(d)'
  BY <1>3, <1>6 DEF RequestInv
<1>8. WskInv'
  <2>1. (WskHeld' <=> WskHeld) /\ (WskFree' <=> WskFree)
    BY <1>1 DEF WskHeld, WskFree, Has
  <2>2. QED
    BY <1>4, <1>5, <1>6, <1>7, <2>1 DEF WskInv
<1>9. <<d, "Sockets">> \notin holding' /\ holding' = holding
      /\ holding' \subseteq ({Driver} \X DriverNames) \cup (Devices \X DeviceNames)
  BY <1>1, <1>4 DEF Has, BringupTypeOK
<1> HIDE DEF where
<1>10. QED
  BY <1>1, <1>2, <1>4, <1>6, <1>8, <1>9, RequestKeeps

(* The sockets of the adapter are bound, or are not. *)
LEMMA BindKeeps ==
  ASSUME BringupIInv, NEW d \in Devices, Bind(d) PROVE BringupIInv'
<1> USE DEF BringupIInv
<1>1. /\ ioctl[d].at = "bind" /\ StandsAt(d, "none", <<>>) /\ SameButIoctl /\ wsk' = wsk /\ stray' = FALSE
      /\ holding' \in {holding, holding \cup {<<d, "Sockets">>}} /\ <<>> \in Seq(Labels)
  BY DEF Bind, Take
<1>2. phase[d] = "ready" /\ wsk.ready /\ phase' = phase
  BY <1>1 DEF DeviceInv, WskInv, RequestInv, SameButIoctl
<1>3. ioctl'[d].at = "none" /\ \A e \in Devices : e # d => ioctl'[e] = ioctl[e]
  BY <1>1 DEF StandsAt, BringupTypeOK
<1>4. \A n : Has(Driver, n)' <=> Has(Driver, n)
  BY <1>1, OwnersDiffer DEF Has
<1>5. WskInv'
  <2>1. RequestInv(d)'
    BY <1>3 DEF RequestInv
  <2>2. ASSUME NEW e \in Devices, e # d PROVE RequestInv(e)'
    BY <1>1, <1>3, <1>4, <2>2 DEF WskInv, RequestInv, Done, Left
  <2>3. wsk.lock = Driver /\ (WskHeld' <=> WskHeld)
    BY <1>2, <1>4 DEF WskInv, WskHeld
  <2>4. QED
    BY <1>1, <1>2, <2>1, <2>2, <2>3 DEF WskInv
<1>6. /\ \A n : <<Driver, n>> \in holding' <=> <<Driver, n>> \in holding
      /\ \A e \in Devices : \A n :
           e # d \/ n # "Sockets" => (<<e, n>> \in holding' <=> <<e, n>> \in holding)
      /\ holding' \subseteq ({Driver} \X DriverNames) \cup (Devices \X DeviceNames)
      /\ wsk' \in [ready : BOOLEAN, lock : Devices \cup {Driver}]
  BY <1>1, OwnersDiffer DEF BringupTypeOK, DeviceNames
<1>7. QED
  BY <1>1, <1>2, <1>5, <1>6, RequestKeeps

-----------------------------------------------------------------------------
(* Nothing is held before DriverEntry. *)
LEMMA BringupInitIInv == BringupInit => BringupIInv
<1> SUFFICES ASSUME BringupInit PROVE BringupIInv
  OBVIOUS
<1>1. BringupTypeOK
  <2>1. <<>> \in Seq(Labels)
    OBVIOUS
  <2>2. ioctl \in [Devices -> [at : {"none", "lock", "init", "undo", "bind"}, agenda : Seq(Labels)]]
    BY <2>1 DEF BringupInit
  <2>3. agenda \in [Devices \cup {Driver} -> Seq(Labels)]
    BY <2>1 DEF BringupInit
  <2>4. QED
    BY <2>2, <2>3 DEF BringupInit, BringupTypeOK
<1>2. \A o, n : ~Has(o, n)
  BY DEF BringupInit, Has
<1>3. \A o \in Devices \cup {Driver} : phase[o] = "absent"
  BY DEF BringupInit
<1>4. DriverInv
  BY <1>2, <1>3 DEF BringupInit, DriverInv
<1>5. \A d \in Devices : DeviceInv(d)
  BY <1>2, <1>3 DEF BringupInit, DeviceInv, Bare
<1>6. \A d \in Devices : ioctl[d].at = "none"
  BY DEF BringupInit
<1>7. WskInv
  BY <1>2, <1>6 DEF BringupInit, WskInv, WskFree, RequestInv
<1>8. QED
  BY <1>1, <1>4, <1>5, <1>7 DEF BringupInit, BringupIInv

(* Every step keeps the invariant: one lemma above for each action. *)
LEMMA BringupNextIInv == BringupIInv /\ [BringupNext]_buVars => BringupIInv'
<1> SUFFICES ASSUME BringupIInv, [BringupNext]_buVars PROVE BringupIInv'
  OBVIOUS
<1>1. ASSUME NEW o \in Devices \cup {Driver},
             StepTaken(o) \/ StepFailed(o) \/ Started(o) \/ GiveBack(o) \/ Gone(o)
      PROVE  BringupIInv'
  <2>1. CASE o = Driver
    BY <1>1, <2>1, DriverTakesKeeps, StepFailedKeeps, StartedKeeps,
        DriverGivesBackKeeps, DriverGoneKeeps
  <2>2. CASE o \in Devices
    BY <1>1, <2>2, DeviceTakesKeeps, StepFailedKeeps, StartedKeeps,
        DeviceGivesBackKeeps, DeviceGoneKeeps
  <2>3. QED
    BY <2>1, <2>2
<1>2. ASSUME NEW d \in Devices,
             \/ InitializeEx(d) \/ HaltEx(d) \/ CreatePeer(d) \/ PeerFree(d)
             \/ \E t \in BringupThreads : TakePeer(d, t) \/ DropPeerRef(d, t)
      PROVE  BringupIInv'
  BY <1>2, InitializeExKeeps, HaltExKeeps, CreatePeerKeeps, PeerFreeKeeps, TakePeerKeeps
<1>3. ASSUME NEW d \in Devices,
             \/ AdapterUp(d) \/ WskLock(d) \/ WskStep(d) \/ WskStepFails(d)
             \/ WskGiveBack(d) \/ WskEnd(d) \/ Bind(d)
      PROVE  BringupIInv'
  BY <1>3, AdapterUpKeeps, WskLockKeeps, WskStepKeeps, WskStepFailsKeeps,
      WskGiveBackKeeps, WskEndKeeps, BindKeeps
<1>4. CASE UNCHANGED buVars
  <2> USE DEF BringupIInv
  <2>1. UNCHANGED <<holding, phase, agenda, wsk, ioctl, peerRefs, removed, stray>>
    BY <1>4 DEF buVars
  <2>2. BringupTypeOK'
    BY <2>1 DEF BringupTypeOK
  <2>3. DriverInv'
    BY <2>1, DriverKeeps DEF SameFor
  <2>4. \A d \in Devices : DeviceInv(d)'
    BY <2>1, DeviceKeeps DEF SameFor
  <2>5. WskInv'
    BY <2>1, WskKeeps
  <2>6. QED
    BY <2>1, <2>2, <2>3, <2>4, <2>5
<1>5. QED
  BY <1>1, <1>2, <1>3, <1>4, DriverEntryKeeps, UnloadStartKeeps DEF BringupNext

(* BringupIInv holds in every state. *)
LEMMA BringupInductive == BringupSpec => []BringupIInv
  BY BringupInitIInv, BringupNextIInv, PTL DEF BringupSpec

(* What the resources of one adapter need of each other. *)
OwnNeeds(d) ==
    /\ \A n \in DeviceNames : Has(d, n) => Has(d, "Wg")
    /\ Has(d, "EncryptThreads") => Has(d, "EncryptQueue")
    /\ Has(d, "DecryptThreads") => Has(d, "DecryptQueue") /\ Has(d, "IndexHashtable")
    /\ Has(d, "HandshakeRxThreads") =>
         Has(d, "HandshakeRxQueue") /\ Has(d, "IndexHashtable") /\ Has(d, "PeerHashtable")
    /\ Has(d, "HandshakeTxThreads") => Has(d, "IndexHashtable")
    /\ Has(d, "Sockets") =>
         (\A t \in BringupThreads : Has(d, t)) /\ Has(d, "HandshakeRxQueue") /\ Has(d, "DecryptQueue")
    /\ Has(d, "Peers") => Has(d, "IndexHashtable") /\ Has(d, "PeerHashtable")

(* Wherever an adapter is in its orders, what it holds has what it uses. *)
LEMMA OwnNeedsMet ==
  ASSUME BringupIInv, NEW d \in Devices PROVE OwnNeeds(d)
<1> USE DEF BringupIInv
<1>1. CASE phase[d] = "absent"
  BY <1>1 DEF DeviceInv, OwnNeeds, DeviceNames, BringupThreads
<1>2. CASE phase[d] = "starting"
  <2>1. PICK k \in 1 .. 13 : \A j \in 1 .. 11 : Has(d, InitializeOrder[j]) <=> j < k
    <3>1. OrderOf(d) = InitializeOrder /\ UndoOf(d) = InitializeUndo
      BY OwnersDiffer DEF OrderOf, UndoOf
    <3>2. Len(InitializeOrder) = 12 /\ Len(InitializeUndo) = 11
      BY InitializeReversible DEF Reversible
    <3>3. PICK k \in 1 .. Len(OrderOf(d)) + 1 : Done(d, OrderOf(d), k, Len(UndoOf(d)))
      BY <1>2 DEF DeviceInv, Starting
    <3>4. k \in 1 .. 13 /\ Done(d, InitializeOrder, k, 11)
      BY <3>1, <3>2, <3>3
    <3>5. QED
      BY <3>4 DEF Done
  <2>2. ~Has(d, "Sockets") /\ ~Has(d, "Peers")
    BY <1>2 DEF DeviceInv, Bare
  <2>3. /\ Has(d, "Wg") <=> 1 < k
        /\ Has(d, "PeerHashtable") <=> 2 < k
        /\ Has(d, "IndexHashtable") <=> 3 < k
        /\ Has(d, "EncryptQueue") <=> 4 < k
        /\ Has(d, "DecryptQueue") <=> 5 < k
        /\ Has(d, "HandshakeRxQueue") <=> 6 < k
        /\ Has(d, "EncryptThreads") <=> 7 < k
        /\ Has(d, "DecryptThreads") <=> 8 < k
        /\ Has(d, "HandshakeTxThreads") <=> 9 < k
        /\ Has(d, "HandshakeRxThreads") <=> 10 < k
        /\ Has(d, "Nsi") <=> 11 < k
    BY <2>1, InitializeOrderIs
  <2>4. QED
    BY <2>2, <2>3 DEF OwnNeeds, DeviceNames, BringupThreads
<1>3. CASE phase[d] = "ready"
  <2>1. \A n \in DeviceNames \ {"Sockets", "Peers"} : Has(d, n)
    BY <1>3, NamesCovered DEF DeviceInv
  <2>2. QED
    BY <2>1 DEF OwnNeeds, DeviceNames, BringupThreads
<1>4. CASE Unwinding(d) /\ Bare(d)
  <2>1. PICK k \in 1 .. 12 : \A j \in 1 .. 11 : Has(d, InitializeUndo[j]) <=> j >= k
    <3>1. UndoOf(d) = InitializeUndo
      BY OwnersDiffer DEF UndoOf
    <3>2. Len(InitializeUndo) = 11
      BY InitializeReversible DEF Reversible
    <3>3. QED
      BY <1>4, <3>1, <3>2 DEF Unwinding, Left
  <2>2. \A j \in 1 .. 11 : InitializeUndo[j] = InitializeOrder[12 - j]
    BY InitializeReversible DEF Reversible
  <2>3. \A j \in 1 .. 11 : Has(d, InitializeOrder[j]) <=> 12 - j >= k
    <3> SUFFICES ASSUME NEW j \in 1 .. 11 PROVE Has(d, InitializeOrder[j]) <=> 12 - j >= k
      OBVIOUS
    <3>1. 12 - j \in 1 .. 11 /\ 12 - (12 - j) = j
      OBVIOUS
    <3>2. QED
      BY <2>1, <2>2, <3>1
  <2>4. ~Has(d, "Sockets") /\ ~Has(d, "Peers")
    BY <1>4 DEF Bare
  <2>5. /\ Has(d, "Wg") <=> 11 >= k
        /\ Has(d, "PeerHashtable") <=> 10 >= k
        /\ Has(d, "IndexHashtable") <=> 9 >= k
        /\ Has(d, "EncryptQueue") <=> 8 >= k
        /\ Has(d, "DecryptQueue") <=> 7 >= k
        /\ Has(d, "HandshakeRxQueue") <=> 6 >= k
        /\ Has(d, "EncryptThreads") <=> 5 >= k
        /\ Has(d, "DecryptThreads") <=> 4 >= k
        /\ Has(d, "HandshakeTxThreads") <=> 3 >= k
        /\ Has(d, "HandshakeRxThreads") <=> 2 >= k
        /\ Has(d, "Nsi") <=> 1 >= k
    BY <2>3, InitializeOrderIs
  <2>6. QED
    BY <2>4, <2>5 DEF OwnNeeds, DeviceNames, BringupThreads
<1>5. ASSUME NEW k \in 1 .. 15, HaltingAt(d, k) PROVE OwnNeeds(d)
  <2>1. \A j \in (1 .. 14) \ TakesNothing : Has(d, HaltOrder[j]) <=> j >= k
    BY <1>5 DEF HaltingAt
  <2>2. /\ Has(d, "Nsi") <=> 1 >= k
        /\ Has(d, "DecryptThreads") <=> 4 >= k
        /\ Has(d, "EncryptThreads") <=> 5 >= k
        /\ Has(d, "HandshakeRxThreads") <=> 6 >= k
        /\ Has(d, "HandshakeTxThreads") <=> 7 >= k
        /\ Has(d, "DecryptQueue") <=> 8 >= k
        /\ Has(d, "EncryptQueue") <=> 9 >= k
        /\ Has(d, "HandshakeRxQueue") <=> 11 >= k
        /\ Has(d, "IndexHashtable") <=> 12 >= k
        /\ Has(d, "PeerHashtable") <=> 13 >= k
        /\ Has(d, "Wg") <=> 14 >= k
    BY <2>1, HaltOrderIs DEF TakesNothing
  <2>3. (Has(d, "Sockets") => k <= 2) /\ (Has(d, "Peers") => k <= 10)
    BY <1>5 DEF HaltingAt
  <2>4. QED
    BY <2>2, <2>3 DEF OwnNeeds, DeviceNames, BringupThreads
<1>6. phase[d] \in {"absent", "starting", "ready", "undoing"}
  BY DEF BringupTypeOK
<1>7. CASE phase[d] = "undoing"
  BY <1>4, <1>5, <1>7 DEF DeviceInv
<1>8. QED
  BY <1>1, <1>2, <1>3, <1>6, <1>7

(* The invariant says more than Unwound. *)
LEMMA UnwoundLemma == BringupIInv => Unwound
<1> SUFFICES ASSUME BringupIInv PROVE Unwound
  OBVIOUS
<1> USE DEF BringupIInv
<1>1. ASSUME NEW r \in holding, r[1] # Driver PROVE Needs(r[1], r[2]) \subseteq holding
  <2>1. PICK d \in Devices, n \in DeviceNames : r = <<d, n>>
    BY <1>1 DEF BringupTypeOK
  <2>2. Has(d, n) /\ OwnNeeds(d)
    BY <2>1, OwnNeedsMet DEF Has
  <2>3. phase[Driver] = "ready"
    BY <2>2 DEF DriverInv, DeviceInv
  <2>4. \A name \in DriverNames \ WskNames : <<Driver, name>> \in holding
    BY <2>3, NamesCovered DEF DriverInv, Has
  <2>5. n = "Sockets" => \A name \in WskNames : <<Driver, name>> \in holding
    <3>1. SUFFICES ASSUME n = "Sockets" PROVE \A name \in WskNames : Has(Driver, name)
      BY DEF Has
    <3>2. wsk.ready
      BY <2>2, <3>1 DEF DeviceInv
    <3>3. \A j \in 1 .. 5 : Has(Driver, WskOrder[j])
      BY <2>3, <3>2 DEF WskInv, WskHeld
    <3>4. \A name \in WskNames : \E j \in 1 .. 5 : name = WskOrder[j]
      BY NamesCovered
    <3>5. QED
      BY <3>3, <3>4
  <2>6. Needs(d, n) \subseteq holding
    <3>1. OfDriver({"Miniport"}) \subseteq holding
          /\ OfDriver({"NblDataPools", "LooseNblPool"}) \subseteq holding
          /\ OfDriver({"Ratelimiter"}) \subseteq holding
          /\ OfDriver({"PeerCache", "NodeCache", "Rcu"}) \subseteq holding
      BY <2>4 DEF OfDriver, DriverNames, WskNames
    <3>2. n = "Sockets" =>
            OfDriver({"Lookaside", "Provider", "RouteNotifierV4", "RouteNotifierV6"}) \subseteq holding
      BY <2>5 DEF OfDriver, WskNames
    <3>3. <<d, "Wg">> \in holding
      BY <2>2 DEF OwnNeeds, Has
    <3>4. CASE n \in {"Wg", "EncryptThreads", "DecryptThreads"}
      BY <2>2, <3>1, <3>3, <3>4 DEF Needs, OfDevice, OwnNeeds, Has
    <3>5. CASE n \in {"HandshakeRxThreads", "HandshakeTxThreads"}
      BY <2>2, <3>1, <3>3, <3>5 DEF Needs, OfDevice, OwnNeeds, Has
    <3>6. CASE n = "Sockets"
      BY <2>2, <3>2, <3>6 DEF Needs, OfDevice, OwnNeeds, Has
    <3>7. CASE n = "Peers"
      BY <2>2, <3>1, <3>3, <3>7 DEF Needs, OfDevice, OwnNeeds, Has
    <3>8. CASE n \notin BringupThreads \cup {"Wg", "Sockets", "Peers"}
      BY <3>3, <3>8 DEF Needs, OfDevice, BringupThreads
    <3>9. QED
      BY <3>4, <3>5, <3>6, <3>7, <3>8 DEF BringupThreads
  <2>7. QED
    BY <2>1, <2>6
<1>2. ASSUME NEW o \in Devices \cup {Driver}, phase[o] = "absent", NEW r \in holding PROVE r[1] # o
  <2>1. CASE o = Driver
    BY <1>2, <2>1, OwnersDiffer DEF DriverInv, BringupTypeOK, Has
  <2>2. CASE o \in Devices
    <3>1. \A n \in DeviceNames : <<o, n>> \notin holding
      BY <1>2, <2>2 DEF DeviceInv, Has
    <3>2. r \in {Driver} \X DriverNames \/ r \in Devices \X DeviceNames
      BY DEF BringupTypeOK
    <3>3. CASE r \in {Driver} \X DriverNames
      BY <2>2, <3>3, OwnersDiffer
    <3>4. CASE r \in Devices \X DeviceNames
      <4>1. PICK e \in Devices, n \in DeviceNames : r = <<e, n>>
        BY <3>4
      <4>2. QED
        BY <3>1, <4>1
    <3>5. QED
      BY <3>2, <3>3, <3>4
  <2>3. QED
    BY <2>1, <2>2
<1>3. QED
  BY <1>1, <1>2 DEF Unwound

(* Types: every procedure of the driver and of an adapter stands in one of *)
(* its own orders.                                                         *)
THEOREM BringupTypeCorrect == BringupSpec => []BringupTypeOK
<1>1. BringupIInv => BringupTypeOK
  BY DEF BringupIInv
<1>2. QED
  BY <1>1, BringupInductive, PTL

(* Whichever line of DriverEntry, InitializeEx or WskInit fails, and in    *)
(* whatever order any number of adapters start, bind, halt and are gone:   *)
(* nothing is given back before its users, twice, or never.                *)
THEOREM AllUnwound == BringupSpec => []Unwound
  BY UnwoundLemma, BringupInductive, PTL
=============================================================================
