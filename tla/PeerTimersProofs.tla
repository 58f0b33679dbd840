-------------------------- MODULE PeerTimersProofs --------------------------
(***************************************************************************)
(* The counts of a peer, proved for any number of network threads, packets *)
(* in flight and calls, with and without faults: InUse and Refcount are    *)
(* exactly what batches, the entry of the handshake queue and the handlers *)
(* under way still have to let go of (CountsExact).                        *)
(*                                                                         *)
(* The argument counts operations.  A step of a thread takes one off the   *)
(* front of its list and puts the callee's in its place, so the number of  *)
(* operations of a kind changes by what the new ones have of it, less the  *)
(* one done (Continued, Begun).  The entry is taken by the worker exactly  *)
(* while one operation that will retire it is left; without that, a        *)
(* retired entry could be one nobody holds references for.                 *)
(***************************************************************************)
EXTENDS PeerTimers, TLAPS, SequenceTheorems, FiniteSetTheorems

\* The operations that hold InUse, a reference, or the entry of the queue.
InUseOps == {"Enqueue", "Release"}
RefOps == {"CreateData", "Enqueue", "Release", "Put"}
EntryOps == {"Take", "Retire"}
Counted == InUseOps \cup RefOps \cup EntryOps

InUseHeld == HeldBy(InUseOps)
RefsHeld == HeldBy(RefOps)
EntryHeld == HeldBy(EntryOps)
Home == IF linked THEN 1 ELSE 0
WithWorker == IF entry = "taken" THEN 1 ELSE 0

(* CountsExact, and that the worker has the entry exactly as long as an *)
(* operation is left that will retire it.                               *)
Numbers ==
    /\ inUse = inFlight + OnList + InUseHeld
    /\ refs = Home + inFlight + OnList + RefsHeld
    /\ EntryHeld = WithWorker

CountsIInv == TypeOK /\ Numbers

-----------------------------------------------------------------------------
(* Counting the operations of a kind in lists. *)

Places(s, names) == {k \in DOMAIN s : s[k][1] \in names}
NumberIn(s, names) == Cardinality(Places(s, names))
Pairs(f, T, names) == UNION {{th} \X Places(f[th], names) : th \in T}

(* A list is finite, and so is what it has of a kind. *)
LEMMA PlacesFinite ==
  ASSUME NEW s \in Seq(Ops), NEW names
  PROVE  IsFiniteSet(Places(s, names)) /\ NumberIn(s, names) \in Nat
<1>1. Len(s) \in Nat /\ DOMAIN s = 1 .. Len(s)
  OBVIOUS
<1>2. IsFiniteSet(1 .. Len(s))
  BY <1>1, FS_Interval
<1>3. Places(s, names) \in SUBSET (1 .. Len(s))
  BY <1>1 DEF Places
<1>4. IsFiniteSet(Places(s, names))
  BY <1>2, <1>3, FS_Subset
<1>5. QED
  BY <1>4, FS_CardinalityType DEF NumberIn

(* What several threads have of a kind is finite. *)
LEMMA PairsFinite ==
  ASSUME NEW f \in [Threads -> Seq(Ops)], NEW T \in SUBSET Threads, NEW names
  PROVE  IsFiniteSet(Pairs(f, T, names)) /\ Cardinality(Pairs(f, T, names)) \in Nat
<1> DEFINE one == [th \in T |-> {th} \X Places(f[th], names)]
           all == {{th} \X Places(f[th], names) : th \in T}
<1>1. IsFiniteSet(Threads)
  <2>1. IsFiniteSet({Dpc, HandshakeTx, Config})
    <3>1. IsFiniteSet({} \cup {Dpc})
      BY FS_EmptySet, FS_AddElement
    <3>2. IsFiniteSet(({} \cup {Dpc}) \cup {HandshakeTx})
      BY <3>1, FS_AddElement
    <3>3. IsFiniteSet((({} \cup {Dpc}) \cup {HandshakeTx}) \cup {Config})
      BY <3>2, FS_AddElement
    <3>4. (({} \cup {Dpc}) \cup {HandshakeTx}) \cup {Config} = {Dpc, HandshakeTx, Config}
      OBVIOUS
    <3>5. QED
      BY <3>3, <3>4
  <2>2. QED
    BY <2>1, PeerTimersAssumption, FS_Union DEF Threads
<1>2. IsFiniteSet(T)
  BY <1>1, FS_Subset
<1>3. one \in Surjection(T, all)
  BY DEF Surjection
<1>4. IsFiniteSet(all)
  <2> HIDE DEF one, all
  <2>1. QED
    BY <1>2, <1>3, FS_Surjection
<1>5. \A S \in all : IsFiniteSet(S)
  <2> SUFFICES ASSUME NEW th \in T PROVE IsFiniteSet({th} \X Places(f[th], names))
    OBVIOUS
  <2>1. f[th] \in Seq(Ops)
    OBVIOUS
  <2>2. IsFiniteSet(Places(f[th], names)) /\ IsFiniteSet({th})
    BY <2>1, PlacesFinite, FS_Singleton
  <2>3. QED
    BY <2>2, FS_Product
<1>6. IsFiniteSet(UNION all)
  <2> HIDE DEF all
  <2>1. QED
    BY <1>4, <1>5, FS_UNION
<1>7. Pairs(f, T, names) = UNION all
  BY DEF Pairs
<1> HIDE DEF all
<1>8. IsFiniteSet(Pairs(f, T, names))
  BY <1>6, <1>7
<1>9. QED
  BY <1>8, FS_CardinalityType

(* One thread's share and that of the others. *)
LEMMA PairsSplit ==
  ASSUME NEW f \in [Threads -> Seq(Ops)], NEW th \in Threads, NEW names
  PROVE  Cardinality(Pairs(f, Threads, names))
           = Cardinality(Pairs(f, Threads \ {th}, names)) + NumberIn(f[th], names)
<1> DEFINE others == Pairs(f, Threads \ {th}, names)
           own == {th} \X Places(f[th], names)
<1>1. Pairs(f, Threads, names) = others \cup own
  BY DEF Pairs
<1>2. others \cap own = {}
  BY DEF Pairs
<1>3. f[th] \in Seq(Ops)
  OBVIOUS
<1>4. IsFiniteSet(Places(f[th], names)) /\ NumberIn(f[th], names) \in Nat
  BY <1>3, PlacesFinite
<1>5. IsFiniteSet(own) /\ Cardinality(own) = NumberIn(f[th], names)
  <2>1. IsFiniteSet({th}) /\ Cardinality({th}) = 1
    BY FS_Singleton
  <2>2. IsFiniteSet(own) /\ Cardinality(own) = 1 * Cardinality(Places(f[th], names))
    BY <1>4, <2>1, FS_Product
  <2>3. QED
    BY <1>4, <2>2 DEF NumberIn
<1>6. IsFiniteSet(others) /\ Cardinality(others) \in Nat
  BY PairsFinite
<1>7. Cardinality(others \cap own) = 0
  BY <1>2, FS_EmptySet
<1> HIDE DEF others, own
<1>8. Cardinality(others \cup own) = Cardinality(others) + Cardinality(own)
  <2>1. IsFiniteSet(others) /\ IsFiniteSet(own)
    BY <1>5, <1>6
  <2>2. Cardinality(others \cup own)
          = Cardinality(others) + Cardinality(own) - Cardinality(others \cap own)
    BY <2>1, FS_Union
  <2>3. Cardinality(others) \in Nat /\ Cardinality(own) \in Nat
    BY <1>4, <1>5, <1>6
  <2>4. QED
    BY <2>2, <2>3, <1>7
<1>9. QED
  BY <1>1, <1>5, <1>8 DEF others

(* Where one thread's list changes, the number changes by the difference. *)
LEMMA HeldChanges ==
  ASSUME todo \in [Threads -> Seq(Ops)], NEW th \in Threads, NEW s \in Seq(Ops),
         todo' = [todo EXCEPT ![th] = s], NEW names
  PROVE  /\ todo' \in [Threads -> Seq(Ops)]
         /\ HeldBy(names) \in Nat /\ HeldBy(names)' \in Nat
         /\ HeldBy(names)' = HeldBy(names) + NumberIn(s, names) - NumberIn(todo[th], names)
<1>1. PICK f : f = todo /\ f \in [Threads -> Seq(Ops)]
  OBVIOUS
<1>2. PICK g : g = todo' /\ g = [f EXCEPT ![th] = s]
  BY <1>1
<1>3. g \in [Threads -> Seq(Ops)] /\ g[th] = s /\ \A d \in Threads : d # th => g[d] = f[d]
  BY <1>1, <1>2
<1>4. HeldBy(names) = Cardinality(Pairs(f, Threads, names))
  BY <1>1 DEF HeldBy, Holds, Pairs, Places
<1>5. HeldBy(names)' = Cardinality(Pairs(g, Threads, names))
  BY <1>2 DEF HeldBy, Holds, Pairs, Places
<1>6. Pairs(g, Threads \ {th}, names) = Pairs(f, Threads \ {th}, names)
  BY <1>3 DEF Pairs
<1>7. Cardinality(Pairs(f, Threads, names))
        = Cardinality(Pairs(f, Threads \ {th}, names)) + NumberIn(f[th], names)
  BY <1>1, PairsSplit
<1>8. Cardinality(Pairs(g, Threads, names))
        = Cardinality(Pairs(g, Threads \ {th}, names)) + NumberIn(g[th], names)
  BY <1>3, PairsSplit
<1>9. /\ Cardinality(Pairs(f, Threads \ {th}, names)) \in Nat
      /\ Cardinality(Pairs(f, Threads, names)) \in Nat
      /\ Cardinality(Pairs(g, Threads, names)) \in Nat
  BY <1>1, <1>3, PairsFinite
<1>10. f[th] \in Seq(Ops)
  BY <1>1
<1>11. NumberIn(f[th], names) \in Nat /\ NumberIn(g[th], names) \in Nat
  BY <1>3, <1>10, PlacesFinite
<1>12. QED
  BY <1>1, <1>2, <1>3, <1>4, <1>5, <1>6, <1>7, <1>8, <1>9, <1>11

(* Lists one behind the other have what both have. *)
LEMMA NumberOfConcat ==
  ASSUME NEW s \in Seq(Ops), NEW t \in Seq(Ops), NEW names
  PROVE  NumberIn(s \o t, names) = NumberIn(s, names) + NumberIn(t, names)
<1> DEFINE front == Places(s, names)
           back == {k \in Len(s) + 1 .. Len(s) + Len(t) : t[k - Len(s)][1] \in names}
           shift == [k \in Places(t, names) |-> k + Len(s)]
<1>1. /\ Len(s) \in Nat /\ Len(t) \in Nat
      /\ DOMAIN s = 1 .. Len(s) /\ DOMAIN t = 1 .. Len(t)
      /\ DOMAIN (s \o t) = 1 .. Len(s) + Len(t)
      /\ \A k \in 1 .. Len(s) : (s \o t)[k] = s[k]
      /\ \A k \in Len(s) + 1 .. Len(s) + Len(t) : (s \o t)[k] = t[k - Len(s)]
  OBVIOUS
<1>2. Places(s \o t, names) = front \cup back
  BY <1>1 DEF Places
<1>3. front \cap back = {}
  BY <1>1 DEF Places
<1>4. IsFiniteSet(front) /\ NumberIn(s, names) \in Nat
      /\ IsFiniteSet(Places(t, names)) /\ NumberIn(t, names) \in Nat
  BY PlacesFinite
<1>5. IsFiniteSet(back) /\ Cardinality(back) = NumberIn(t, names)
  <2>1. shift \in Bijection(Places(t, names), back)
    <3>1. \A k \in Places(t, names) : k \in 1 .. Len(t) /\ k + Len(s) \in back
      BY <1>1 DEF Places
    <3>2. \A j \in back : j - Len(s) \in Places(t, names) /\ shift[j - Len(s)] = j
      BY <1>1 DEF Places
    <3>3. \A k, l \in Places(t, names) : shift[k] = shift[l] => k = l
      BY <1>1, <3>1
    <3>4. shift \in [Places(t, names) -> back]
      BY <3>1
    <3> HIDE DEF shift, back
    <3>5. QED
      BY <3>2, <3>3, <3>4 DEF Bijection, Injection, Surjection, IsInjective
  <2>2. ExistsBijection(Places(t, names), back)
    <3> HIDE DEF shift, back
    <3>1. QED
      BY <2>1 DEF ExistsBijection
  <2> HIDE DEF back
  <2>3. QED
    BY <1>4, <2>2, FS_Bijection DEF NumberIn
<1> HIDE DEF back
<1>6. Cardinality(front \cup back) = Cardinality(front) + Cardinality(back) - Cardinality(front \cap back)
  BY <1>4, <1>5, FS_Union
<1>7. Cardinality(front \cap back) = 0
  BY <1>3, FS_EmptySet
<1>8. QED
  BY <1>2, <1>4, <1>5, <1>6, <1>7 DEF NumberIn

(* A list without any has none, and a single operation is one or none. *)
LEMMA NumberOfFew ==
  ASSUME NEW names
  PROVE  /\ \A s \in Seq(Ops) : (\A k \in 1 .. Len(s) : s[k][1] \notin names) => NumberIn(s, names) = 0
         /\ \A op \in Ops : NumberIn(<<op>>, names) = IF op[1] \in names THEN 1 ELSE 0
<1>1. ASSUME NEW s \in Seq(Ops), \A k \in 1 .. Len(s) : s[k][1] \notin names
      PROVE  NumberIn(s, names) = 0
  <2>1. Places(s, names) = {}
    BY <1>1 DEF Places
  <2>2. QED
    BY <2>1, FS_EmptySet DEF NumberIn
<1>2. ASSUME NEW op \in Ops PROVE NumberIn(<<op>>, names) = IF op[1] \in names THEN 1 ELSE 0
  <2>1. Places(<<op>>, names) = IF op[1] \in names THEN {1} ELSE {}
    <3>1. DOMAIN <<op>> = {1} /\ <<op>>[1] = op
      OBVIOUS
    <3>2. QED
      BY <3>1 DEF Places
  <2>2. QED
    BY <2>1, FS_EmptySet, FS_Singleton DEF NumberIn
<1>3. QED
  BY <1>1, <1>2

(* What a list has is what its head and its tail have. *)
LEMMA NumberOfTail ==
  ASSUME NEW s \in Seq(Ops), s # <<>>, NEW names
  PROVE  /\ Tail(s) \in Seq(Ops) /\ Head(s) \in Ops
         /\ NumberIn(s, names)
              = (IF Head(s)[1] \in names THEN 1 ELSE 0) + NumberIn(Tail(s), names)
<1>1. PICK h \in Ops, t \in Seq(Ops) : h = Head(s) /\ t = Tail(s)
  BY HeadTailProperties
<1>2. s = <<h>> \o t
  BY <1>1
<1>3. <<h>> \in Seq(Ops)
  OBVIOUS
<1>4. NumberIn(<<h>> \o t, names) = NumberIn(<<h>>, names) + NumberIn(t, names)
  BY <1>3, NumberOfConcat
<1>5. NumberIn(<<h>>, names) = IF h[1] \in names THEN 1 ELSE 0
  BY NumberOfFew
<1>6. QED
  BY <1>1, <1>2, <1>4, <1>5

-----------------------------------------------------------------------------
(* What the steps do to lists. *)

Weight(name, names) == IF name \in names THEN 1 ELSE 0

\* ops has one operation that counts, called name, or none if name is not such a name.
Brings(ops, name) ==
    /\ ops \in Seq(Ops)
    /\ \A names \in SUBSET Counted : NumberIn(ops, names) = Weight(name, names)

Quiet(ops) == ops \in Seq(Ops) /\ \A k \in 1 .. Len(ops) : ops[k][1] \notin Counted

\* Over all threads, an operation called old is gone and one called new is there.
Moved(old, new) ==
    /\ todo' \in [Threads -> Seq(Ops)]
    /\ \A names \in SUBSET Counted :
         /\ HeldBy(names) \in Nat /\ HeldBy(names)' \in Nat
         /\ HeldBy(names)' = HeldBy(names) + Weight(new, names) - Weight(old, names)

(* Lists that bring nothing, and those whose last operation is the one that counts. *)
LEMMA QuietBrings ==
  ASSUME NEW ops, Quiet(ops)
  PROVE  /\ \A name : name \notin Counted => Brings(ops, name)
         /\ \A name \in Counted : Brings(ops \o <<Do(name)>>, name)
<1>1. \A names \in SUBSET Counted : NumberIn(ops, names) = 0
  BY NumberOfFew DEF Quiet
<1>2. \A name : name \notin Counted => Brings(ops, name)
  BY <1>1 DEF Brings, Quiet, Weight
<1>3. ASSUME NEW name \in Counted PROVE Brings(ops \o <<Do(name)>>, name)
  <2>1. Do(name) \in Ops /\ Do(name)[1] = name
    BY DEF Do, Ops, PlainOps, Counted, InUseOps, RefOps, EntryOps
  <2>2. ops \in Seq(Ops) /\ <<Do(name)>> \in Seq(Ops)
    BY <2>1 DEF Quiet
  <2>3. ops \o <<Do(name)>> \in Seq(Ops)
    BY <2>2
  <2>4. ASSUME NEW names \in SUBSET Counted
        PROVE  NumberIn(ops \o <<Do(name)>>, names) = IF name \in names THEN 1 ELSE 0
    <3>1. NumberIn(ops \o <<Do(name)>>, names) = NumberIn(ops, names) + NumberIn(<<Do(name)>>, names)
      BY <2>2, NumberOfConcat
    <3>2. NumberIn(<<Do(name)>>, names) = IF name \in names THEN 1 ELSE 0
      BY <2>1, NumberOfFew
    <3>3. QED
      BY <1>1, <3>1, <3>2
  <2>5. QED
    BY <2>3, <2>4 DEF Brings, Weight
<1>4. QED
  BY <1>2, <1>3

(* A thread does its operation, called old, and goes on with ops. *)
LEMMA Continued ==
  ASSUME todo \in [Threads -> Seq(Ops)], NEW th \in Threads, NEW old, At(th, old),
         NEW ops, NEW new, Brings(ops, new), Continue(th, ops)
  PROVE  Moved(old, new)
<1>1. PICK list \in Seq(Ops) : list = todo[th] /\ list # <<>> /\ Head(list)[1] = old
  BY DEF At
<1>2. Tail(list) \in Seq(Ops) /\ ops \in Seq(Ops)
  BY <1>1, NumberOfTail DEF Brings
<1>3. PICK s \in Seq(Ops) : s = ops \o Tail(list)
  <2>1. \A a, b \in Seq(Ops) : a \o b \in Seq(Ops)
    OBVIOUS
  <2>2. QED
    BY <1>2, <2>1
<1>4. todo' = [todo EXCEPT ![th] = s]
  BY <1>1, <1>3 DEF Continue
<1>5. todo' \in [Threads -> Seq(Ops)]
  BY <1>4
<1>6. ASSUME NEW names \in SUBSET Counted
      PROVE  /\ HeldBy(names) \in Nat /\ HeldBy(names)' \in Nat
             /\ HeldBy(names)' = HeldBy(names) + Weight(new, names) - Weight(old, names)
  <2>1. /\ HeldBy(names) \in Nat /\ HeldBy(names)' \in Nat
        /\ HeldBy(names)' = HeldBy(names) + NumberIn(s, names) - NumberIn(todo[th], names)
    BY <1>4, HeldChanges
  <2>2. NumberIn(s, names) = NumberIn(ops, names) + NumberIn(Tail(list), names)
    BY <1>2, <1>3, NumberOfConcat
  <2>3. NumberIn(list, names) = Weight(old, names) + NumberIn(Tail(list), names)
    BY <1>1, NumberOfTail DEF Weight
  <2>4. NumberIn(Tail(list), names) \in Nat
    BY <1>2, PlacesFinite
  <2>5. NumberIn(ops, names) = Weight(new, names)
    BY DEF Brings
  <2>6. QED
    BY <1>1, <2>1, <2>2, <2>3, <2>4, <2>5 DEF Weight
<1>7. QED
  BY <1>5, <1>6 DEF Moved

(* A thread that had nothing to do begins a handler. *)
LEMMA Begun ==
  ASSUME todo \in [Threads -> Seq(Ops)], NEW th \in Threads, NEW old, old \notin Counted,
         NEW ops, NEW new, Brings(ops, new), Begin(th, ops)
  PROVE  Moved(old, new)
<1>1. ops \in Seq(Ops) /\ todo[th] = <<>> /\ todo' = [todo EXCEPT ![th] = ops]
  BY DEF Brings, Begin
<1>2. todo' \in [Threads -> Seq(Ops)]
  BY <1>1
<1>3. ASSUME NEW names \in SUBSET Counted
      PROVE  /\ HeldBy(names) \in Nat /\ HeldBy(names)' \in Nat
             /\ HeldBy(names)' = HeldBy(names) + Weight(new, names) - Weight(old, names)
  <2>1. /\ HeldBy(names) \in Nat /\ HeldBy(names)' \in Nat
        /\ HeldBy(names)' = HeldBy(names) + NumberIn(ops, names) - NumberIn(todo[th], names)
    BY <1>1, HeldChanges
  <2>2. NumberIn(<<>>, names) = 0
    <3>1. Places(<<>>, names) = {}
      BY DEF Places
    <3>2. QED
      BY <3>1, FS_EmptySet DEF NumberIn
  <2>3. NumberIn(ops, names) = Weight(new, names)
    BY DEF Brings
  <2>4. QED
    BY <1>1, <2>1, <2>2, <2>3 DEF Weight
<1>4. QED
  BY <1>2, <1>3 DEF Moved

(* Where no list changes, nothing moves. *)
LEMMA StillMoved ==
  ASSUME todo \in [Threads -> Seq(Ops)], todo' = todo, NEW old, NEW new,
         old \notin Counted, new \notin Counted
  PROVE  Moved(old, new)
<1>1. ASSUME NEW names PROVE HeldBy(names)' = HeldBy(names) /\ HeldBy(names) \in Nat
  <2>1. HeldBy(names)' = HeldBy(names)
    BY DEF HeldBy, Holds
  <2>2. HeldBy(names) = Cardinality(Pairs(todo, Threads, names))
    BY DEF HeldBy, Holds, Pairs, Places
  <2>3. QED
    BY <2>1, <2>2, PairsFinite
<1>2. QED
  BY <1>1 DEF Moved, Weight

-----------------------------------------------------------------------------
(* The numbers after a step. *)
LEMMA CountsMove ==
  ASSUME NEW old, NEW new, Moved(old, new)
  PROVE  /\ InUseHeld \in Nat /\ RefsHeld \in Nat /\ EntryHeld \in Nat
         /\ InUseHeld' \in Nat /\ RefsHeld' \in Nat /\ EntryHeld' \in Nat
         /\ InUseHeld' = InUseHeld + Weight(new, InUseOps) - Weight(old, InUseOps)
         /\ RefsHeld' = RefsHeld + Weight(new, RefOps) - Weight(old, RefOps)
         /\ EntryHeld' = EntryHeld + Weight(new, EntryOps) - Weight(old, EntryOps)
<1>1. {InUseOps, RefOps, EntryOps} \subseteq SUBSET Counted
  BY DEF Counted
<1>2. QED
  BY <1>1 DEF Moved, InUseHeld, RefsHeld, EntryHeld

CountsKept == Numbers' /\ todo' \in [Threads -> Seq(Ops)]

heldVars == <<inUse, refs, inFlight, entry, linked>>

QuietOps == {op \in Ops : op[1] \notin Counted}

(* A step that moves nothing that counts. *)
LEMMA NothingMoved ==
  ASSUME CountsIInv, NEW old, NEW new, Moved(old, new), old \notin Counted, new \notin Counted,
         UNCHANGED heldVars
  PROVE  CountsKept
<1>1. InUseHeld' = InUseHeld /\ RefsHeld' = RefsHeld /\ EntryHeld' = EntryHeld
  BY CountsMove DEF Counted, Weight
<1>2. OnList' = OnList /\ Home' = Home /\ WithWorker' = WithWorker
  BY DEF OnList, Home, WithWorker, heldVars
<1>3. Numbers'
  BY <1>1, <1>2 DEF CountsIInv, Numbers, heldVars
<1>4. QED
  BY <1>3 DEF CountsKept, Moved

(* The operations that hold nothing, and lists of them. *)
LEMMA QuietOpsAre ==
    /\ \A name \in PlainOps \ Counted : Do(name) \in QuietOps
    /\ \A ts \in SUBSET Timers : Delete(ts) \in QuietOps /\ Mod(ts) \in QuietOps /\ ModIfIdle(ts) \in QuietOps
    /\ \A mod, idle \in SUBSET Timers : PacketSent(mod, idle) \in QuietOps
    /\ PacketReceived \in QuietOps
    /\ \A side \in {"initiator", "responder"} : <<"BeginSession", side>> \in QuietOps
<1>1. \A name \in PlainOps \ Counted : Do(name) \in QuietOps
  BY DEF Do, QuietOps, Ops
<1>2. \A c \in Calls : <<"Timers", c>> \in QuietOps
  BY DEF QuietOps, Ops, Counted, InUseOps, RefOps, EntryOps
<1>3. \A ts \in SUBSET Timers : Delete(ts) \in QuietOps /\ Mod(ts) \in QuietOps /\ ModIfIdle(ts) \in QuietOps
  BY <1>2 DEF Delete, Mod, ModIfIdle, Calls
<1>4. \A mod, idle \in SUBSET Timers : PacketSent(mod, idle) \in QuietOps
  BY <1>2 DEF PacketSent, Calls, Timers
<1>5. PacketReceived \in QuietOps
  BY <1>2 DEF PacketReceived, Calls, Timers
<1>6. \A side \in {"initiator", "responder"} : <<"BeginSession", side>> \in QuietOps
  BY DEF QuietOps, Ops, Counted, InUseOps, RefOps, EntryOps
<1>7. QED
  BY <1>1, <1>3, <1>4, <1>5, <1>6

(* A list of operations that hold nothing is quiet. *)
LEMMA QuietLists == \A ops \in Seq(QuietOps) : Quiet(ops)
<1> SUFFICES ASSUME NEW ops \in Seq(QuietOps) PROVE Quiet(ops)
  OBVIOUS
<1>1. ops \in Seq(Ops)
  BY DEF QuietOps
<1>2. \A k \in 1 .. Len(ops) : ops[k] \in QuietOps
  OBVIOUS
<1>3. QED
  BY <1>1, <1>2 DEF Quiet, QuietOps

(* A step from one quiet operation to quiet ones. *)
LEMMA QuietStep ==
  ASSUME CountsIInv, NEW th \in Threads, NEW old, old \notin Counted, At(th, old),
         \E ops \in Seq(QuietOps) : Continue(th, ops), UNCHANGED heldVars
  PROVE  CountsKept
<1>1. PICK ops \in Seq(QuietOps) : Continue(th, ops)
  OBVIOUS
<1>2. Brings(ops, old)
  BY QuietLists, QuietBrings
<1>3. Moved(old, old)
  BY <1>1, <1>2, Continued DEF CountsIInv, TypeOK
<1>4. QED
  BY <1>3, NothingMoved

(* A handler of quiet operations. *)
LEMMA QuietBegin ==
  ASSUME CountsIInv, NEW th \in Threads, \E ops \in Seq(QuietOps) : Begin(th, ops),
         UNCHANGED heldVars
  PROVE  CountsKept
<1>1. PICK ops \in Seq(QuietOps) : Begin(th, ops)
  OBVIOUS
<1>2. "none" \notin Counted
  BY DEF Counted, InUseOps, RefOps, EntryOps
<1>3. Brings(ops, "none")
  BY <1>2, QuietLists, QuietBrings
<1>4. Moved("none", "none")
  BY <1>1, <1>2, <1>3, Begun DEF CountsIInv, TypeOK
<1>5. QED
  BY <1>2, <1>4, NothingMoved

QuietAction(th) ==
    \/ DeleteAndMod(th) \/ GiveUp(th) \/ Retry(th) \/ AnotherKeepalive(th)
    \/ KeepaliveIfEnabled(th) \/ PacketSendKeepalive(th) \/ PacketPurgeStagedPackets(th)
    \/ TimersDataReceived(th) \/ KeepKeyFreshSend(th) \/ KeepKeyFreshReceive(th)
    \/ PacketSendHandshakeInitiation(th) \/ NoiseHandshakeCreateInitiation(th)
    \/ TimersHandshakeInitiated(th) \/ Stamp(th) \/ PacketSendHandshakeResponse(th)
    \/ BeginSession(th) \/ TimersHandshakeComplete(th) \/ NoiseHandshakeClear(th)
    \/ NoiseKeypairsClear(th) \/ NoiseResetLastSentHandshake(th) \/ CloseInUse(th)
    \/ WaitInUse(th) \/ KeFlushQueuedDpcs(th)

(* The operations that count nothing lead to such operations. *)
LEMMA QuietActions ==
  ASSUME CountsIInv, NEW th \in Threads, QuietAction(th) PROVE CountsKept
<1> USE DEF heldVars, peerVars, timerVars, handshakeVars, queueVars, countVars, packetVars,
            sessionVars, deviceVars
<1>0. <<>> \in Seq(QuietOps)
  OBVIOUS
<1>1. CASE DeleteAndMod(th)
  <2>1. At(th, "Timers") /\ UNCHANGED heldVars
    BY <1>1 DEF DeleteAndMod
  <2>2. \E ops \in Seq(QuietOps) : Continue(th, ops)
    BY <1>0, <1>1 DEF DeleteAndMod
  <2>3. "Timers" \notin Counted
    BY DEF Counted, InUseOps, RefOps, EntryOps
  <2>4. QED
    BY <2>1, <2>2, <2>3, QuietStep
<1>2. CASE GiveUp(th)
  <2>1. At(th, "Retransmit") /\ UNCHANGED heldVars
    BY <1>2 DEF GiveUp
  <2>2. \E ops \in Seq(QuietOps) : Continue(th, ops)
    <3>1. <<Delete({Keepalive}), Do("Purge"), ModIfIdle({ZeroKeys})>> \in Seq(QuietOps)
      BY QuietOpsAre DEF PlainOps, Counted, InUseOps, RefOps, EntryOps, Timers
    <3>2. QED
      BY <1>0, <1>2, <3>1 DEF GiveUp
  <2>3. "Retransmit" \notin Counted
    BY DEF Counted, InUseOps, RefOps, EntryOps
  <2>4. QED
    BY <2>1, <2>2, <2>3, QuietStep
<1>3. CASE Retry(th)
  <2>1. At(th, "Retransmit") /\ UNCHANGED heldVars
    BY <1>3 DEF Retry
  <2>2. \E ops \in Seq(QuietOps) : Continue(th, ops)
    BY <1>0, <1>3, QuietOpsAre DEF Retry, PlainOps, Counted, InUseOps, RefOps, EntryOps
  <2>3. "Retransmit" \notin Counted
    BY DEF Counted, InUseOps, RefOps, EntryOps
  <2>4. QED
    BY <2>1, <2>2, <2>3, QuietStep
<1>4. CASE AnotherKeepalive(th)
  <2>1. At(th, "AnotherKeepalive") /\ UNCHANGED heldVars
    BY <1>4 DEF AnotherKeepalive
  <2>2. \E ops \in Seq(QuietOps) : Continue(th, ops)
    <3>1. <<Mod({Keepalive})>> \in Seq(QuietOps)
      BY QuietOpsAre DEF PlainOps, Counted, InUseOps, RefOps, EntryOps, Timers
    <3>2. QED
      BY <1>0, <1>4, <3>1 DEF AnotherKeepalive
  <2>3. "AnotherKeepalive" \notin Counted
    BY DEF Counted, InUseOps, RefOps, EntryOps
  <2>4. QED
    BY <2>1, <2>2, <2>3, QuietStep
<1>5. CASE KeepaliveIfEnabled(th)
  <2>1. At(th, "KeepaliveIfEnabled") /\ UNCHANGED heldVars
    BY <1>5 DEF KeepaliveIfEnabled
  <2>2. \E ops \in Seq(QuietOps) : Continue(th, ops)
    <3>1. <<Do("SendKeepalive")>> \in Seq(QuietOps)
      BY QuietOpsAre DEF PlainOps, Counted, InUseOps, RefOps, EntryOps
    <3>2. QED
      BY <1>0, <1>5, <3>1 DEF KeepaliveIfEnabled
  <2>3. "KeepaliveIfEnabled" \notin Counted
    BY DEF Counted, InUseOps, RefOps, EntryOps
  <2>4. QED
    BY <2>1, <2>2, <2>3, QuietStep
<1>6. CASE PacketSendKeepalive(th)
  <2>1. At(th, "SendKeepalive") /\ UNCHANGED heldVars
    BY <1>6 DEF PacketSendKeepalive
  <2>2. \E ops \in Seq(QuietOps) : Continue(th, ops)
    <3>1. <<Do("SendStaged")>> \in Seq(QuietOps)
      BY QuietOpsAre DEF PlainOps, Counted, InUseOps, RefOps, EntryOps
    <3>2. QED
      BY <1>0, <1>6, <3>1 DEF PacketSendKeepalive
  <2>3. "SendKeepalive" \notin Counted
    BY DEF Counted, InUseOps, RefOps, EntryOps
  <2>4. QED
    BY <2>1, <2>2, <2>3, QuietStep
<1>7. CASE PacketPurgeStagedPackets(th)
  <2>1. At(th, "Purge") /\ UNCHANGED heldVars
    BY <1>7 DEF PacketPurgeStagedPackets
  <2>2. \E ops \in Seq(QuietOps) : Continue(th, ops)
    BY <1>0, <1>7 DEF PacketPurgeStagedPackets
  <2>3. "Purge" \notin Counted
    BY DEF Counted, InUseOps, RefOps, EntryOps
  <2>4. QED
    BY <2>1, <2>2, <2>3, QuietStep
<1>8. CASE TimersDataReceived(th)
  <2>1. At(th, "DataReceived") /\ UNCHANGED heldVars
    BY <1>8 DEF TimersDataReceived
  <2>2. \E ops \in Seq(QuietOps) : Continue(th, ops)
    BY <1>0, <1>8 DEF TimersDataReceived
  <2>3. "DataReceived" \notin Counted
    BY DEF Counted, InUseOps, RefOps, EntryOps
  <2>4. QED
    BY <2>1, <2>2, <2>3, QuietStep
<1>9. CASE KeepKeyFreshSend(th)
  <2>1. At(th, "KeepKeyFreshSend") /\ UNCHANGED heldVars
    BY <1>9 DEF KeepKeyFreshSend
  <2>2. \E ops \in Seq(QuietOps) : Continue(th, ops)
    <3>1. <<Do("SendNew")>> \in Seq(QuietOps)
      BY QuietOpsAre DEF PlainOps, Counted, InUseOps, RefOps, EntryOps
    <3>2. QED
      BY <1>0, <1>9, <3>1 DEF KeepKeyFreshSend
  <2>3. "KeepKeyFreshSend" \notin Counted
    BY DEF Counted, InUseOps, RefOps, EntryOps
  <2>4. QED
    BY <2>1, <2>2, <2>3, QuietStep
<1>10. CASE KeepKeyFreshReceive(th)
  <2>1. At(th, "KeepKeyFreshReceive") /\ UNCHANGED heldVars
    BY <1>10 DEF KeepKeyFreshReceive
  <2>2. \E ops \in Seq(QuietOps) : Continue(th, ops)
    <3>1. <<Do("SendNew")>> \in Seq(QuietOps)
      BY QuietOpsAre DEF PlainOps, Counted, InUseOps, RefOps, EntryOps
    <3>2. QED
      BY <1>0, <1>10, <3>1 DEF KeepKeyFreshReceive
  <2>3. "KeepKeyFreshReceive" \notin Counted
    BY DEF Counted, InUseOps, RefOps, EntryOps
  <2>4. QED
    BY <2>1, <2>2, <2>3, QuietStep
<1>11. CASE PacketSendHandshakeInitiation(th)
  <2>1. At(th, "Initiate") /\ UNCHANGED heldVars
    BY <1>11 DEF PacketSendHandshakeInitiation
  <2>2. \E ops \in Seq(QuietOps) : Continue(th, ops)
    <3>1. <<Do("CreateInitiation")>> \in Seq(QuietOps)
      BY QuietOpsAre DEF PlainOps, Counted, InUseOps, RefOps, EntryOps
    <3>2. QED
      BY <1>0, <1>11, <3>1 DEF PacketSendHandshakeInitiation
  <2>3. "Initiate" \notin Counted
    BY DEF Counted, InUseOps, RefOps, EntryOps
  <2>4. QED
    BY <2>1, <2>2, <2>3, QuietStep
<1>12. CASE NoiseHandshakeCreateInitiation(th)
  <2>1. At(th, "CreateInitiation") /\ UNCHANGED heldVars
    BY <1>12 DEF NoiseHandshakeCreateInitiation
  <2>2. \E ops \in Seq(QuietOps) : Continue(th, ops)
    <3>1. <<PacketSent({}, {}), Do("Initiated")>> \in Seq(QuietOps)
      <4>1. {} \in SUBSET Timers
        OBVIOUS
      <4>2. PacketSent({}, {}) \in QuietOps
        BY <4>1, QuietOpsAre
      <4>3. Do("Initiated") \in QuietOps
        BY QuietOpsAre DEF PlainOps, Counted, InUseOps, RefOps, EntryOps
      <4>4. QED
        BY <4>2, <4>3
    <3>2. QED
      BY <1>0, <1>12, <3>1 DEF NoiseHandshakeCreateInitiation
  <2>3. "CreateInitiation" \notin Counted
    BY DEF Counted, InUseOps, RefOps, EntryOps
  <2>4. QED
    BY <2>1, <2>2, <2>3, QuietStep
<1>13. CASE TimersHandshakeInitiated(th)
  <2>1. At(th, "Initiated") /\ UNCHANGED heldVars
    BY <1>13 DEF TimersHandshakeInitiated
  <2>2. \E ops \in Seq(QuietOps) : Continue(th, ops)
    BY <1>0, <1>13 DEF TimersHandshakeInitiated
  <2>3. "Initiated" \notin Counted
    BY DEF Counted, InUseOps, RefOps, EntryOps
  <2>4. QED
    BY <2>1, <2>2, <2>3, QuietStep
<1>14. CASE Stamp(th)
  <2>1. At(th, "Stamp") /\ UNCHANGED heldVars
    BY <1>14 DEF Stamp
  <2>2. \E ops \in Seq(QuietOps) : Continue(th, ops)
    BY <1>0, <1>14 DEF Stamp
  <2>3. "Stamp" \notin Counted
    BY DEF Counted, InUseOps, RefOps, EntryOps
  <2>4. QED
    BY <2>1, <2>2, <2>3, QuietStep
<1>15. CASE PacketSendHandshakeResponse(th)
  <2>1. At(th, "Respond") /\ UNCHANGED heldVars
    BY <1>15 DEF PacketSendHandshakeResponse
  <2>2. \E ops \in Seq(QuietOps) : Continue(th, ops)
    <3>1. <<<<"BeginSession", "responder">>>> \in Seq(QuietOps)
      BY QuietOpsAre DEF PlainOps, Counted, InUseOps, RefOps, EntryOps
    <3>2. QED
      BY <1>0, <1>15, <3>1 DEF PacketSendHandshakeResponse
  <2>3. "Respond" \notin Counted
    BY DEF Counted, InUseOps, RefOps, EntryOps
  <2>4. QED
    BY <2>1, <2>2, <2>3, QuietStep
<1>16. CASE BeginSession(th)
  <2>1. At(th, "BeginSession") /\ UNCHANGED heldVars
    BY <1>16 DEF BeginSession
  <2>2. \E ops \in Seq(QuietOps) : Continue(th, ops)
    <3>1. /\ <<PacketSent(TimersSessionDerived, {}), Do("Stamp")>> \in Seq(QuietOps)
          /\ <<Mod(TimersSessionDerived), Do("Completed"), Do("SendKeepalive")>> \in Seq(QuietOps)
      <4>1. {} \in SUBSET Timers /\ TimersSessionDerived \in SUBSET Timers
        BY DEF Timers, TimersSessionDerived
      <4>2. PacketSent(TimersSessionDerived, {}) \in QuietOps /\ Mod(TimersSessionDerived) \in QuietOps
        BY <4>1, QuietOpsAre
      <4>3. Do("Stamp") \in QuietOps /\ Do("Completed") \in QuietOps /\ Do("SendKeepalive") \in QuietOps
        BY QuietOpsAre DEF PlainOps, Counted, InUseOps, RefOps, EntryOps
      <4>4. QED
        BY <4>2, <4>3
    <3>2. QED
      BY <1>0, <1>16, <3>1 DEF BeginSession
  <2>3. "BeginSession" \notin Counted
    BY DEF Counted, InUseOps, RefOps, EntryOps
  <2>4. QED
    BY <2>1, <2>2, <2>3, QuietStep
<1>17. CASE TimersHandshakeComplete(th)
  <2>1. At(th, "Completed") /\ UNCHANGED heldVars
    BY <1>17 DEF TimersHandshakeComplete
  <2>2. \E ops \in Seq(QuietOps) : Continue(th, ops)
    BY <1>0, <1>17 DEF TimersHandshakeComplete
  <2>3. "Completed" \notin Counted
    BY DEF Counted, InUseOps, RefOps, EntryOps
  <2>4. QED
    BY <2>1, <2>2, <2>3, QuietStep
<1>18. CASE NoiseHandshakeClear(th)
  <2>1. At(th, "ClearHandshake") /\ UNCHANGED heldVars
    BY <1>18 DEF NoiseHandshakeClear
  <2>2. \E ops \in Seq(QuietOps) : Continue(th, ops)
    BY <1>0, <1>18 DEF NoiseHandshakeClear
  <2>3. "ClearHandshake" \notin Counted
    BY DEF Counted, InUseOps, RefOps, EntryOps
  <2>4. QED
    BY <2>1, <2>2, <2>3, QuietStep
<1>19. CASE NoiseKeypairsClear(th)
  <2>1. At(th, "ClearKeys") /\ UNCHANGED heldVars
    BY <1>19 DEF NoiseKeypairsClear
  <2>2. \E ops \in Seq(QuietOps) : Continue(th, ops)
    BY <1>0, <1>19 DEF NoiseKeypairsClear
  <2>3. "ClearKeys" \notin Counted
    BY DEF Counted, InUseOps, RefOps, EntryOps
  <2>4. QED
    BY <2>1, <2>2, <2>3, QuietStep
<1>20. CASE NoiseResetLastSentHandshake(th)
  <2>1. At(th, "ResetLastSent") /\ UNCHANGED heldVars
    BY <1>20 DEF NoiseResetLastSentHandshake
  <2>2. \E ops \in Seq(QuietOps) : Continue(th, ops)
    BY <1>0, <1>20 DEF NoiseResetLastSentHandshake
  <2>3. "ResetLastSent" \notin Counted
    BY DEF Counted, InUseOps, RefOps, EntryOps
  <2>4. QED
    BY <2>1, <2>2, <2>3, QuietStep
<1>21. CASE CloseInUse(th)
  <2>1. At(th, "CloseInUse") /\ UNCHANGED heldVars
    BY <1>21 DEF CloseInUse
  <2>2. \E ops \in Seq(QuietOps) : Continue(th, ops)
    BY <1>0, <1>21 DEF CloseInUse
  <2>3. "CloseInUse" \notin Counted
    BY DEF Counted, InUseOps, RefOps, EntryOps
  <2>4. QED
    BY <2>1, <2>2, <2>3, QuietStep
<1>22. CASE WaitInUse(th)
  <2>1. At(th, "WaitInUse") /\ UNCHANGED heldVars
    BY <1>22 DEF WaitInUse
  <2>2. \E ops \in Seq(QuietOps) : Continue(th, ops)
    BY <1>0, <1>22 DEF WaitInUse
  <2>3. "WaitInUse" \notin Counted
    BY DEF Counted, InUseOps, RefOps, EntryOps
  <2>4. QED
    BY <2>1, <2>2, <2>3, QuietStep
<1>23. CASE KeFlushQueuedDpcs(th)
  <2>1. At(th, "Flush") /\ UNCHANGED heldVars
    BY <1>23 DEF KeFlushQueuedDpcs
  <2>2. \E ops \in Seq(QuietOps) : Continue(th, ops)
    BY <1>0, <1>23 DEF KeFlushQueuedDpcs
  <2>3. "Flush" \notin Counted
    BY DEF Counted, InUseOps, RefOps, EntryOps
  <2>4. QED
    BY <2>1, <2>2, <2>3, QuietStep
<1>24. QED
  BY <1>1, <1>2, <1>3, <1>4, <1>5, <1>6, <1>7, <1>8, <1>9, <1>10, <1>11, <1>12, <1>13, <1>14,
      <1>15, <1>16, <1>17, <1>18, <1>19, <1>20, <1>21, <1>22, <1>23 DEF QuietAction

-----------------------------------------------------------------------------
(* The operations that count. *)

(* A step, and a handler, that end in one operation that counts. *)
LEMMA OneMore ==
  ASSUME CountsIInv, NEW th \in Threads, NEW front \in Seq(QuietOps), NEW name \in Counted
  PROVE  /\ \A old : At(th, old) /\ Continue(th, front \o <<Do(name)>>) => Moved(old, name)
         /\ Begin(th, front \o <<Do(name)>>) => Moved("none", name)
<1>1. Brings(front \o <<Do(name)>>, name)
  BY QuietLists, QuietBrings
<1>2. "none" \notin Counted
  BY DEF Counted, InUseOps, RefOps, EntryOps
<1>3. todo \in [Threads -> Seq(Ops)]
  BY DEF CountsIInv, TypeOK
<1>4. QED
  BY <1>1, <1>2, <1>3, Continued, Begun

(* A step that leads to none. *)
LEMMA OneLess ==
  ASSUME CountsIInv, NEW th \in Threads, NEW old, At(th, old), NEW ops \in Seq(QuietOps), Continue(th, ops)
  PROVE  Moved(old, "none")
<1>1. "none" \notin Counted
  BY DEF Counted, InUseOps, RefOps, EntryOps
<1>2. Brings(ops, "none")
  BY <1>1, QuietLists, QuietBrings
<1>3. todo \in [Threads -> Seq(Ops)]
  BY DEF CountsIInv, TypeOK
<1>4. QED
  BY <1>2, <1>3, Continued

\* The numbers are natural before the step.
Natural ==
    /\ inFlight \in Nat /\ inUse \in Nat /\ refs \in Nat
    /\ OnList \in {0, 1} /\ Home \in {0, 1} /\ WithWorker \in {0, 1}

(* They are. *)
LEMMA AllNatural == CountsIInv => Natural
  BY DEF CountsIInv, TypeOK, Natural, OnList, Home, WithWorker

(* Staged packets become a batch, or a handshake is due first. *)
LEMMA SendStagedKeeps ==
  ASSUME CountsIInv, NEW th \in Threads, PacketSendStagedPackets(th) PROVE CountsKept
<1> USE DEF deviceVars, timerVars, handshakeVars, queueVars, sessionVars
<1>1. At(th, "SendStaged") /\ "SendStaged" \notin Counted /\ <<>> \in Seq(QuietOps)
  BY DEF PacketSendStagedPackets, Counted, InUseOps, RefOps, EntryOps
<1>2. UNCHANGED <<inUse, inFlight, entry, linked>>
  BY DEF PacketSendStagedPackets
<1>3. CASE \E ops \in Seq(QuietOps) : Continue(th, ops) /\ refs' = refs
  BY <1>1, <1>2, <1>3, QuietStep DEF heldVars
<1>4. CASE Continue(th, <<Do("CreateData")>>) /\ refs' = refs + 1
  <2>1. <<Do("CreateData")>> = <<>> \o <<Do("CreateData")>> /\ "CreateData" \in Counted
    BY DEF Counted, RefOps
  <2>2. Moved("SendStaged", "CreateData")
    BY <1>1, <1>4, <2>1, OneMore
  <2>3. InUseHeld' = InUseHeld /\ RefsHeld' = RefsHeld + 1 /\ EntryHeld' = EntryHeld
    BY <2>2, CountsMove DEF Weight, InUseOps, RefOps, EntryOps
  <2>4. OnList' = OnList /\ Home' = Home /\ WithWorker' = WithWorker
    BY <1>2 DEF OnList, Home, WithWorker
  <2>5. Numbers'
    BY <1>2, <1>4, <2>2, <2>3, <2>4, AllNatural, CountsMove DEF CountsIInv, Numbers, Natural
  <2>6. QED
    BY <2>2, <2>5 DEF CountsKept, Moved
<1>5. <<Do("SendNew")>> \in Seq(QuietOps)
  BY QuietOpsAre DEF PlainOps, Counted, InUseOps, RefOps, EntryOps
<1>6. QED
  BY <1>1, <1>3, <1>4, <1>5 DEF PacketSendStagedPackets

(* A batch enters the encrypt queue, or its reference is dropped. *)
LEMMA CreateDataKeeps ==
  ASSUME CountsIInv, NEW th \in Threads, PacketCreateData(th) PROVE CountsKept
<1> USE DEF deviceVars, timerVars, handshakeVars, queueVars, sessionVars
<1>1. At(th, "CreateData") /\ Continue(th, <<>>) /\ <<>> \in Seq(QuietOps)
  BY DEF PacketCreateData
<1>2. Moved("CreateData", "none")
  BY <1>1, OneLess
<1>3. OnList' = OnList /\ Home' = Home /\ WithWorker' = WithWorker
  BY DEF PacketCreateData, OnList, Home, WithWorker
<1>4. \/ refs' = refs - 1 /\ inUse' = inUse /\ inFlight' = inFlight
      \/ refs' = refs /\ inUse' = inUse + 1 /\ inFlight' = inFlight + 1
  BY DEF PacketCreateData
<1>5. InUseHeld' = InUseHeld /\ RefsHeld' = RefsHeld - 1 /\ EntryHeld' = EntryHeld
  BY <1>2, CountsMove DEF Weight, InUseOps, RefOps, EntryOps
<1>6. Numbers'
  BY <1>2, <1>3, <1>4, <1>5, AllNatural, CountsMove DEF CountsIInv, Numbers, Natural
<1>7. QED
  BY <1>2, <1>6 DEF CountsKept, Moved

(* InUse and a reference are taken for the entry, or the peer is going. *)
LEMMA SetActionKeeps ==
  ASSUME CountsIInv, NEW th \in Threads, NEW old, old \notin Counted, At(th, old),
         NEW a, SetAction(th, a) \/ (Continue(th, <<>>) /\ UNCHANGED countVars),
         UNCHANGED <<inFlight, entry, linked>>
  PROVE  CountsKept
<1>1. <<>> \in Seq(QuietOps)
  OBVIOUS
<1>2. CASE Continue(th, <<>>) /\ UNCHANGED countVars
  BY <1>1, <1>2, QuietStep DEF heldVars, countVars
<1>3. CASE Continue(th, <<Do("Enqueue")>>) /\ inUse' = inUse + 1 /\ refs' = refs + 1
  <2>1. <<Do("Enqueue")>> = <<>> \o <<Do("Enqueue")>> /\ "Enqueue" \in Counted
    BY DEF Counted, RefOps
  <2>2. Moved(old, "Enqueue")
    BY <1>1, <1>3, <2>1, OneMore
  <2>3. InUseHeld' = InUseHeld + 1 /\ RefsHeld' = RefsHeld + 1 /\ EntryHeld' = EntryHeld
    BY <2>2, CountsMove DEF Weight, InUseOps, RefOps, EntryOps, Counted
  <2>4. inFlight' = inFlight /\ OnList' = OnList /\ Home' = Home /\ WithWorker' = WithWorker
    BY DEF OnList, Home, WithWorker
  <2>5. Numbers'
    <3>1. inUse' = inUse + 1 /\ refs' = refs + 1 /\ Natural
      BY <1>3, AllNatural
    <3>2. /\ InUseHeld \in Nat /\ RefsHeld \in Nat
          /\ inUse = inFlight + OnList + InUseHeld /\ refs = Home + inFlight + OnList + RefsHeld
          /\ EntryHeld = WithWorker
      BY <2>2, CountsMove DEF CountsIInv, Numbers
    <3>3. QED
      BY <2>3, <2>4, <3>1, <3>2 DEF Numbers, Natural
  <2>6. QED
    BY <2>2, <2>5 DEF CountsKept, Moved
<1>4. QED
  BY <1>2, <1>3 DEF SetAction

(* The references go with the entry, or the entry has some already. *)
LEMMA EnqueueKeeps ==
  ASSUME CountsIInv, NEW th \in Threads, EnqueueEntry(th) PROVE CountsKept
<1> USE DEF deviceVars, timerVars, handshakeVars, queueVars, sessionVars, packetVars, countVars
<1>1. At(th, "Enqueue") /\ Continue(th, <<>>) /\ <<>> \in Seq(QuietOps)
  BY DEF EnqueueEntry
<1>2. Moved("Enqueue", "none")
  BY <1>1, OneLess
<1>3. inFlight' = inFlight /\ Home' = Home
  BY DEF EnqueueEntry, Home
<1>4. \/ OnList' = OnList /\ WithWorker' = WithWorker /\ inUse' = inUse - 1 /\ refs' = refs - 1
      \/ OnList' = OnList + 1 /\ WithWorker' = WithWorker /\ inUse' = inUse /\ refs' = refs
  BY DEF EnqueueEntry, OnList, WithWorker
<1>5. InUseHeld' = InUseHeld - 1 /\ RefsHeld' = RefsHeld - 1 /\ EntryHeld' = EntryHeld
  BY <1>2, CountsMove DEF Weight, InUseOps, RefOps, EntryOps
<1>6. Numbers'
  BY <1>2, <1>3, <1>4, <1>5, AllNatural, CountsMove DEF CountsIInv, Numbers, Natural
<1>7. QED
  BY <1>2, <1>6 DEF CountsKept, Moved

(* The worker takes the entry. *)
LEMMA DequeueKeeps == ASSUME CountsIInv, DequeueEntry PROVE CountsKept
<1> USE DEF deviceVars, timerVars, handshakeVars, queueVars, sessionVars, packetVars, countVars
<1>1. HandshakeTx \in Threads /\ Begin(HandshakeTx, <<Do("Take")>>)
  BY DEF DequeueEntry, Begin, Threads
<1>2. <<>> \in Seq(QuietOps) /\ <<Do("Take")>> = <<>> \o <<Do("Take")>> /\ "Take" \in Counted
  BY DEF Counted, EntryOps
<1>3. Moved("none", "Take")
  BY <1>1, <1>2, OneMore
<1>4. UNCHANGED <<inFlight, refs, inUse>> /\ Home' = Home /\ OnList' = OnList
      /\ WithWorker' = WithWorker + 1
  BY DEF DequeueEntry, Home, OnList, WithWorker
<1>5. InUseHeld' = InUseHeld /\ RefsHeld' = RefsHeld /\ EntryHeld' = EntryHeld + 1
  BY <1>3, CountsMove DEF Weight, InUseOps, RefOps, EntryOps
<1>6. Numbers'
  BY <1>3, <1>4, <1>5, AllNatural, CountsMove DEF CountsIInv, Numbers, Natural
<1>7. QED
  BY <1>3, <1>6 DEF CountsKept, Moved

(* It reads what to do with it; whatever that is, it ends in retiring it. *)
LEMMA TakeKeeps ==
  ASSUME CountsIInv, NEW th \in Threads, PacketHandshakeTxWorker(th) PROVE CountsKept
<1> USE DEF deviceVars, timerVars, handshakeVars, queueVars, sessionVars, packetVars, countVars
<1>1. At(th, "Take") /\ "Retire" \in Counted
  BY DEF PacketHandshakeTxWorker, Counted, EntryOps
<1>2. UNCHANGED <<inFlight, refs, inUse>> /\ Home' = Home /\ OnList' = OnList
      /\ WithWorker' = WithWorker
  BY DEF PacketHandshakeTxWorker, OnList, Home, WithWorker
<1>3. \E front \in Seq(QuietOps) : Continue(th, front \o <<Do("Retire")>>)
  <2>1. /\ <<>> \in Seq(QuietOps) /\ <<Do("Initiate")>> \in Seq(QuietOps)
        /\ <<Do("ClearHandshake"), Do("ClearKeys")>> \in Seq(QuietOps)
    BY QuietOpsAre DEF PlainOps, Counted, InUseOps, RefOps, EntryOps
  <2>2. /\ <<Do("Retire")>> = <<>> \o <<Do("Retire")>>
        /\ <<Do("Initiate"), Do("Retire")>> = <<Do("Initiate")>> \o <<Do("Retire")>>
        /\ <<Do("ClearHandshake"), Do("ClearKeys"), Do("Retire")>>
              = <<Do("ClearHandshake"), Do("ClearKeys")>> \o <<Do("Retire")>>
    OBVIOUS
  <2>3. action \in {"NONE", "SEND", "CLEAR"}
    BY DEF CountsIInv, TypeOK
  <2>4. \/ Continue(th, <<Do("Retire")>>)
        \/ Continue(th, <<Do("Initiate"), Do("Retire")>>)
        \/ Continue(th, <<Do("ClearHandshake"), Do("ClearKeys"), Do("Retire")>>)
    BY <2>3 DEF PacketHandshakeTxWorker
  <2>5. QED
    BY <2>1, <2>2, <2>4
<1>4. Moved("Take", "Retire")
  BY <1>1, <1>3, OneMore
<1>5. InUseHeld' = InUseHeld /\ RefsHeld' = RefsHeld /\ EntryHeld' = EntryHeld
  BY <1>4, CountsMove DEF Weight, InUseOps, RefOps, EntryOps
<1>6. Numbers'
  BY <1>2, <1>5 DEF CountsIInv, Numbers
<1>7. QED
  BY <1>4, <1>6 DEF CountsKept, Moved

(* The worker can only retire an entry it has: it goes back to the list, or *)
(* its references to the operation that drops them.                         *)
LEMMA RetireKeeps ==
  ASSUME CountsIInv, NEW th \in Threads, RetireEntry(th) PROVE CountsKept
<1> USE DEF deviceVars, timerVars, handshakeVars, queueVars, sessionVars, packetVars, countVars
<1>1. At(th, "Retire") /\ <<>> \in Seq(QuietOps)
  BY DEF RetireEntry
<1>2. UNCHANGED <<inFlight, refs, inUse>> /\ Home' = Home
  BY DEF RetireEntry, Home
<1>3. CASE requeue
  <2>1. Continue(th, <<>>) /\ entry' = "on"
    BY <1>3 DEF RetireEntry
  <2>2. Moved("Retire", "none")
    BY <1>1, <2>1, OneLess
  <2>3. InUseHeld' = InUseHeld /\ RefsHeld' = RefsHeld /\ EntryHeld' = EntryHeld - 1
    BY <2>2, CountsMove DEF Weight, InUseOps, RefOps, EntryOps
  <2>4. WithWorker = 1
    BY <2>2, <2>3, AllNatural, CountsMove DEF CountsIInv, Numbers, Natural
  <2>5. OnList = 1 /\ OnList' = 1 /\ WithWorker' = 0
    BY <2>1, <2>4 DEF OnList, WithWorker
  <2>6. Numbers'
    BY <1>2, <2>2, <2>3, <2>4, <2>5, AllNatural, CountsMove DEF CountsIInv, Numbers, Natural
  <2>7. QED
    BY <2>2, <2>6 DEF CountsKept, Moved
<1>4. CASE ~requeue
  <2>1. Continue(th, <<Do("Release")>>) /\ entry' = "off"
    BY <1>4 DEF RetireEntry
  <2>2. <<Do("Release")>> = <<>> \o <<Do("Release")>> /\ "Release" \in Counted
    BY DEF Counted, RefOps
  <2>3. Moved("Retire", "Release")
    BY <1>1, <2>1, <2>2, OneMore
  <2>4. InUseHeld' = InUseHeld + 1 /\ RefsHeld' = RefsHeld + 1 /\ EntryHeld' = EntryHeld - 1
    BY <2>3, CountsMove DEF Weight, InUseOps, RefOps, EntryOps
  <2>5. WithWorker = 1
    BY <2>3, <2>4, AllNatural, CountsMove DEF CountsIInv, Numbers, Natural
  <2>6. OnList = 1 /\ OnList' = 0 /\ WithWorker' = 0
    BY <2>1, <2>5 DEF OnList, WithWorker
  <2>7. Numbers'
    BY <1>2, <2>3, <2>4, <2>5, <2>6, AllNatural, CountsMove DEF CountsIInv, Numbers, Natural
  <2>8. QED
    BY <2>3, <2>7 DEF CountsKept, Moved
<1>5. QED
  BY <1>3, <1>4

(* A handler lets go of InUse and its reference at its end. *)
LEMMA ReleaseKeeps ==
  ASSUME CountsIInv, NEW th \in Threads, Release(th) PROVE CountsKept
<1> USE DEF deviceVars, timerVars, handshakeVars, queueVars, sessionVars, packetVars, countVars
<1>1. At(th, "Release") /\ Continue(th, <<>>) /\ <<>> \in Seq(QuietOps)
  BY DEF Release
<1>2. Moved("Release", "none")
  BY <1>1, OneLess
<1>3. /\ inFlight' = inFlight /\ Home' = Home /\ OnList' = OnList /\ WithWorker' = WithWorker
      /\ inUse' = inUse - 1 /\ refs' = refs - 1
  BY DEF Release, Home, OnList, WithWorker
<1>4. InUseHeld' = InUseHeld - 1 /\ RefsHeld' = RefsHeld - 1 /\ EntryHeld' = EntryHeld
  BY <1>2, CountsMove DEF Weight, InUseOps, RefOps, EntryOps
<1>5. Numbers'
  BY <1>2, <1>3, <1>4, AllNatural, CountsMove DEF CountsIInv, Numbers, Natural
<1>6. QED
  BY <1>2, <1>5 DEF CountsKept, Moved

(* A handler lets go of its reference. *)
LEMMA PutKeeps ==
  ASSUME CountsIInv, NEW th \in Threads, PeerPut(th) PROVE CountsKept
<1> USE DEF deviceVars, timerVars, handshakeVars, queueVars, sessionVars, packetVars, countVars
<1>1. At(th, "Put") /\ Continue(th, <<>>) /\ <<>> \in Seq(QuietOps)
  BY DEF PeerPut
<1>2. Moved("Put", "none")
  BY <1>1, OneLess
<1>3. /\ inFlight' = inFlight /\ Home' = Home /\ OnList' = OnList /\ WithWorker' = WithWorker
      /\ inUse' = inUse /\ refs' = refs - 1
  BY DEF PeerPut, Home, OnList, WithWorker
<1>4. InUseHeld' = InUseHeld /\ RefsHeld' = RefsHeld - 1 /\ EntryHeld' = EntryHeld
  BY <1>2, CountsMove DEF Weight, InUseOps, RefOps, EntryOps
<1>5. Numbers'
  BY <1>2, <1>3, <1>4, AllNatural, CountsMove DEF CountsIInv, Numbers, Natural
<1>6. QED
  BY <1>2, <1>5 DEF CountsKept, Moved

(* A packet finds its peer and is staged. *)
LEMMA StageKeeps ==
  ASSUME CountsIInv, NEW th \in Threads, StagePacket(th) PROVE CountsKept
<1> USE DEF deviceVars, timerVars, handshakeVars, queueVars, sessionVars, packetVars, countVars
<1>1. At(th, "Stage") /\ "Stage" \notin Counted /\ <<>> \in Seq(QuietOps)
  BY DEF StagePacket, Counted, InUseOps, RefOps, EntryOps
<1>2. UNCHANGED <<inUse, inFlight, entry, linked>>
  BY DEF StagePacket
<1>3. CASE Continue(th, <<>>) /\ refs' = refs
  BY <1>1, <1>2, <1>3, QuietStep DEF heldVars
<1>4. CASE Continue(th, <<Do("SendStaged"), Do("Put")>>) /\ refs' = refs + 1
  <2>1. /\ <<Do("SendStaged"), Do("Put")>> = <<Do("SendStaged")>> \o <<Do("Put")>>
        /\ "Put" \in Counted /\ <<Do("SendStaged")>> \in Seq(QuietOps)
    BY QuietOpsAre DEF PlainOps, Counted, InUseOps, RefOps, EntryOps
  <2>2. Moved("Stage", "Put")
    BY <1>1, <1>4, <2>1, OneMore
  <2>3. InUseHeld' = InUseHeld /\ RefsHeld' = RefsHeld + 1 /\ EntryHeld' = EntryHeld
    BY <2>2, CountsMove DEF Weight, InUseOps, RefOps, EntryOps
  <2>4. OnList' = OnList /\ Home' = Home /\ WithWorker' = WithWorker
    BY <1>2 DEF OnList, Home, WithWorker
  <2>5. Numbers'
    BY <1>2, <1>4, <2>2, <2>3, <2>4, AllNatural, CountsMove DEF CountsIInv, Numbers, Natural
  <2>6. QED
    BY <2>2, <2>5 DEF CountsKept, Moved
<1>5. QED
  BY <1>3, <1>4 DEF StagePacket

(* A handshake is asked for, or the keys' clearing. *)
LEMMA QueueingKeeps ==
  ASSUME CountsIInv, NEW th \in Threads,
         PacketSendQueuedHandshakeInitiation(th) \/ ZeroKeyMaterial(th)
  PROVE  CountsKept
<1> USE DEF deviceVars, timerVars, handshakeVars, queueVars, sessionVars, packetVars
<1>1. CASE PacketSendQueuedHandshakeInitiation(th)
  <2>1. PICK old \in {"SendRetry", "SendNew"} : At(th, old)
    BY <1>1 DEF PacketSendQueuedHandshakeInitiation
  <2>2. old \notin Counted
    BY DEF Counted, InUseOps, RefOps, EntryOps
  <2>3. /\ SetAction(th, "SEND") \/ (Continue(th, <<>>) /\ UNCHANGED countVars)
        /\ UNCHANGED <<inFlight, entry, linked>>
    BY <1>1 DEF PacketSendQueuedHandshakeInitiation
  <2>4. QED
    BY <2>1, <2>2, <2>3, SetActionKeeps
<1>2. CASE ZeroKeyMaterial(th)
  <2>1. At(th, "Zero") /\ "Zero" \notin Counted
    BY <1>2 DEF ZeroKeyMaterial, Counted, InUseOps, RefOps, EntryOps
  <2>2. SetAction(th, "CLEAR") /\ UNCHANGED <<inFlight, entry, linked>>
    BY <1>2 DEF ZeroKeyMaterial
  <2>3. QED
    BY <2>1, <2>2, SetActionKeeps
<1>3. QED
  BY <1>1, <1>2

-----------------------------------------------------------------------------
(* What begins a handler. *)

(* PacketPeerTxWork's batch holds what the end of the handler lets go of. *)
LEMMA TxWorkKeeps ==
  ASSUME CountsIInv, NEW n \in NetThreads, PacketPeerTxWork(n) PROVE CountsKept
<1> USE DEF deviceVars, timerVars, handshakeVars, queueVars, sessionVars, packetVars, countVars
<1>1. n \in Threads /\ "Release" \in Counted
  BY DEF Threads, Counted, RefOps
<1>2. \E front \in Seq(QuietOps) : Begin(n, front \o <<Do("Release")>>)
  <2>1. CASE Begin(n, <<Do("Release")>>)
    <3>1. <<>> \in Seq(QuietOps) /\ <<Do("Release")>> = <<>> \o <<Do("Release")>>
      OBVIOUS
    <3>2. QED
      BY <2>1, <3>1
  <2>2. ASSUME NEW idle \in SUBSET Timers,
               Begin(n, <<PacketSent({}, idle), Do("KeepKeyFreshSend"), Do("Release")>>)
        PROVE  \E front \in Seq(QuietOps) : Begin(n, front \o <<Do("Release")>>)
    <3>1. PacketSent({}, idle) \in QuietOps
      <4>1. {} \in SUBSET Timers
        OBVIOUS
      <4>2. QED
        BY <4>1, QuietOpsAre
    <3>2. Do("KeepKeyFreshSend") \in QuietOps
      BY QuietOpsAre DEF PlainOps, Counted, InUseOps, RefOps, EntryOps
    <3>3. <<PacketSent({}, idle), Do("KeepKeyFreshSend")>> \in Seq(QuietOps)
      BY <3>1, <3>2
    <3>4. <<PacketSent({}, idle), Do("KeepKeyFreshSend"), Do("Release")>>
            = <<PacketSent({}, idle), Do("KeepKeyFreshSend")>> \o <<Do("Release")>>
      OBVIOUS
    <3>5. QED
      BY <2>2, <3>3, <3>4
  <2>3. {} \in SUBSET Timers /\ TimersDataSent \in SUBSET Timers
    BY DEF Timers, TimersDataSent
  <2>4. \/ Begin(n, <<Do("Release")>>)
        \/ Begin(n, <<PacketSent({}, {}), Do("KeepKeyFreshSend"), Do("Release")>>)
        \/ Begin(n, <<PacketSent({}, TimersDataSent), Do("KeepKeyFreshSend"), Do("Release")>>)
    BY DEF PacketPeerTxWork
  <2>5. QED
    BY <2>1, <2>2, <2>3, <2>4
<1>3. Moved("none", "Release")
  BY <1>1, <1>2, OneMore
<1>4. /\ inFlight' = inFlight - 1 /\ Home' = Home /\ OnList' = OnList /\ WithWorker' = WithWorker
      /\ inUse' = inUse /\ refs' = refs
  BY DEF PacketPeerTxWork, Home, OnList, WithWorker
<1>5. InUseHeld' = InUseHeld + 1 /\ RefsHeld' = RefsHeld + 1 /\ EntryHeld' = EntryHeld
  BY <1>3, CountsMove DEF Weight, InUseOps, RefOps, EntryOps
<1>6. Numbers'
  BY <1>3, <1>4, <1>5, AllNatural, CountsMove DEF CountsIInv, Numbers, Natural
<1>7. QED
  BY <1>3, <1>6 DEF CountsKept, Moved

(* A packet received holds InUse and a reference, to the end of its handler. *)
LEMMA ConsumeDataKeeps ==
  ASSUME CountsIInv, NEW n \in NetThreads, NEW confirms \in BOOLEAN, NEW data \in BOOLEAN,
         PacketConsumeDataDone(n, confirms, data)
  PROVE  CountsKept
<1> USE DEF deviceVars, timerVars, handshakeVars, queueVars, sessionVars, packetVars, countVars
<1> DEFINE confirmed == IF confirms THEN <<Do("Completed"), Do("SendStaged")>> ELSE <<>>
           received == <<Do("KeepKeyFreshReceive"), PacketReceived>>
           delivered == IF data THEN <<Do("DataReceived")>> ELSE <<>>
<1>1. n \in Threads /\ "Release" \in Counted
  BY DEF Threads, Counted, RefOps
<1>2. Begin(n, confirmed \o received \o delivered \o <<Do("Release")>>)
  BY DEF PacketConsumeDataDone
<1>3. /\ Do("Completed") \in QuietOps /\ Do("SendStaged") \in QuietOps
      /\ Do("KeepKeyFreshReceive") \in QuietOps /\ Do("DataReceived") \in QuietOps
      /\ PacketReceived \in QuietOps
  BY QuietOpsAre DEF PlainOps, Counted, InUseOps, RefOps, EntryOps
<1>4. /\ confirmed \in Seq(QuietOps) /\ received \in Seq(QuietOps)
      /\ delivered \in Seq(QuietOps)
  BY <1>3
<1> HIDE DEF confirmed, received, delivered
<1>5. confirmed \o received \o delivered \in Seq(QuietOps)
  BY <1>4
<1>6. Moved("none", "Release")
  BY <1>1, <1>2, <1>5, OneMore
<1>7. /\ inFlight' = inFlight /\ Home' = Home /\ OnList' = OnList /\ WithWorker' = WithWorker
      /\ inUse' = inUse + 1 /\ refs' = refs + 1
  BY DEF PacketConsumeDataDone, Home, OnList, WithWorker
<1>8. InUseHeld' = InUseHeld + 1 /\ RefsHeld' = RefsHeld + 1 /\ EntryHeld' = EntryHeld
  BY <1>6, CountsMove DEF Weight, InUseOps, RefOps, EntryOps
<1>9. Numbers'
  BY <1>6, <1>7, <1>8, AllNatural, CountsMove DEF CountsIInv, Numbers, Natural
<1>10. QED
  BY <1>6, <1>9 DEF CountsKept, Moved

(* A handler that took a reference, and puts it at its end. *)
LEMMA PutAtTheEnd ==
  ASSUME CountsIInv, Moved("none", "Put"), UNCHANGED <<inUse, inFlight, entry>>,
         (refs' = refs + 1 /\ Home' = Home) \/ (refs' = refs /\ Home' = Home - 1)
  PROVE  CountsKept
<1>1. OnList' = OnList /\ WithWorker' = WithWorker /\ inFlight' = inFlight /\ inUse' = inUse
  BY DEF OnList, WithWorker
<1>2. InUseHeld' = InUseHeld /\ RefsHeld' = RefsHeld + 1 /\ EntryHeld' = EntryHeld
  BY CountsMove DEF Weight, InUseOps, RefOps, EntryOps
<1>3. Numbers'
  BY <1>1, <1>2, AllNatural, CountsMove DEF CountsIInv, Numbers, Natural
<1>4. QED
  BY <1>3 DEF CountsKept, Moved

(* A handshake message holds a reference to the peer it found. *)
LEMMA ReceiveKeeps ==
  ASSUME CountsIInv, NEW n \in NetThreads, ReceiveInitiation(n) \/ ReceiveResponse(n)
  PROVE  CountsKept
<1> USE DEF deviceVars, timerVars, handshakeVars, queueVars, sessionVars, packetVars, countVars
<1>1. n \in Threads
  BY DEF Threads
<1>2. UNCHANGED <<inUse, inFlight, entry>> /\ refs' = refs + 1 /\ Home' = Home
  BY DEF ReceiveInitiation, ReceiveResponse, Home
<1>4. /\ <<Do("Respond"), PacketReceived>> \in Seq(QuietOps)
      /\ <<<<"BeginSession", "initiator">>, PacketReceived>> \in Seq(QuietOps)
  BY QuietOpsAre DEF PlainOps, Counted, InUseOps, RefOps, EntryOps
<1>5. /\ <<Do("Respond"), PacketReceived, Do("Put")>> = <<Do("Respond"), PacketReceived>> \o <<Do("Put")>>
      /\ <<<<"BeginSession", "initiator">>, PacketReceived, Do("Put")>>
            = <<<<"BeginSession", "initiator">>, PacketReceived>> \o <<Do("Put")>>
  OBVIOUS
<1>6. \/ Begin(n, <<Do("Respond"), PacketReceived, Do("Put")>>)
      \/ Begin(n, <<<<"BeginSession", "initiator">>, PacketReceived, Do("Put")>>)
  BY DEF ReceiveInitiation, ReceiveResponse
<1>7. PICK front \in Seq(QuietOps) : Begin(n, front \o <<Do("Put")>>)
  BY <1>4, <1>5, <1>6
<1>8. Moved("none", "Put")
  <2>1. "Put" \in Counted
    BY DEF Counted, RefOps
  <2>2. QED
    BY <1>1, <1>7, <2>1, OneMore
<1>9. QED
  BY <1>2, <1>8, PutAtTheEnd

(* The lists that starting and stopping a peer begin with hold nothing. *)
LEMMA ConfigLists ==
    /\ <<>> \in Seq(QuietOps) /\ StartPeer \in Seq(QuietOps) /\ StopPeer \in Seq(QuietOps)
    /\ TimersStop \in Seq(QuietOps)
<1>1. TimersStop \in Seq(QuietOps)
  <2>1. Delete(Timers) \in QuietOps /\ Do("Flush") \in QuietOps
    BY QuietOpsAre DEF PlainOps, Counted, InUseOps, RefOps, EntryOps
  <2>2. QED
    BY <2>1 DEF TimersStop
<1>2. StartPeer \in Seq(QuietOps)
  <2>1. Do("SendStaged") \in QuietOps /\ Do("KeepaliveIfEnabled") \in QuietOps
    BY QuietOpsAre DEF PlainOps, Counted, InUseOps, RefOps, EntryOps
  <2>2. QED
    BY <2>1 DEF StartPeer
<1>3. StopPeer \in Seq(QuietOps)
  <2>1. /\ Do("Purge") \in QuietOps /\ Do("ClearHandshake") \in QuietOps
        /\ Do("ClearKeys") \in QuietOps /\ Do("ResetLastSent") \in QuietOps
    BY QuietOpsAre DEF PlainOps, Counted, InUseOps, RefOps, EntryOps
  <2>2. /\ <<Do("Purge")>> \in Seq(QuietOps)
        /\ <<Do("ClearHandshake"), Do("ClearKeys"), Do("ResetLastSent")>> \in Seq(QuietOps)
    BY <2>1
  <2>3. <<Do("Purge")>> \o TimersStop
          \o <<Do("ClearHandshake"), Do("ClearKeys"), Do("ResetLastSent")>> \in Seq(QuietOps)
    BY <1>1, <2>2
  <2>4. QED
    BY <2>3 DEF StopPeer
<1>4. QED
  BY <1>1, <1>2, <1>3

(* Handlers that begin with nothing in hand. *)
QuietCall ==
    \/ Up \/ Down \/ Pause \/ Restart
    \/ (\E t \in Timers : TimerDpcCallback(t))
    \/ (\E n \in NetThreads : SendNetBufferLists(n))

(* None of them changes a number. *)
LEMMA QuietCalls == ASSUME CountsIInv, QuietCall PROVE CountsKept
<1> USE DEF timerVars, handshakeVars, queueVars, sessionVars, packetVars, countVars
<1> USE DEF heldVars
<1>1. Config \in Threads /\ Dpc \in Threads /\ NetThreads \subseteq Threads
  BY DEF Threads
<1>2. CASE Up \/ Down \/ Pause \/ Restart
  <2>1. UNCHANGED heldVars
    BY <1>2 DEF Up, Down, Pause, Restart
  <2>2. Begin(Config, StartPeer) \/ Begin(Config, StopPeer) \/ Begin(Config, <<>>)
    BY <1>2 DEF Up, Down, Pause, Restart
  <2>3. QED
    BY <1>1, <2>1, <2>2, ConfigLists, QuietBegin
<1>3. ASSUME NEW t \in Timers, TimerDpcCallback(t) PROVE CountsKept
  <2> DEFINE ops == CASE t = Retransmit   -> ExpiredRetransmitHandshake
                      [] t = Keepalive    -> ExpiredSendKeepalive
                      [] t = NewHandshake -> ExpiredNewHandshake
                      [] t = ZeroKeys     -> ExpiredZeroKeyMaterial
                      [] t = Persistent   -> ExpiredSendPersistentKeepalive
  <2>1. UNCHANGED heldVars
    BY <1>3 DEF TimerDpcCallback, deviceVars
  <2>2. Begin(Dpc, ops)
    BY <1>3 DEF TimerDpcCallback, Begin
  <2>3. /\ Do("Retransmit") \in QuietOps /\ Do("SendKeepalive") \in QuietOps
        /\ Do("AnotherKeepalive") \in QuietOps /\ Do("SendNew") \in QuietOps
        /\ Do("Zero") \in QuietOps /\ Do("KeepaliveIfEnabled") \in QuietOps
    BY QuietOpsAre DEF PlainOps, Counted, InUseOps, RefOps, EntryOps
  <2>4. /\ ExpiredRetransmitHandshake \in Seq(QuietOps) /\ ExpiredSendKeepalive \in Seq(QuietOps)
        /\ ExpiredNewHandshake \in Seq(QuietOps) /\ ExpiredZeroKeyMaterial \in Seq(QuietOps)
        /\ ExpiredSendPersistentKeepalive \in Seq(QuietOps)
    BY <2>3 DEF ExpiredRetransmitHandshake, ExpiredSendKeepalive, ExpiredNewHandshake,
        ExpiredZeroKeyMaterial, ExpiredSendPersistentKeepalive
  <2>5. ops \in Seq(QuietOps)
    BY <2>4 DEF Timers
  <2> HIDE DEF ops
  <2>6. QED
    BY <1>1, <2>1, <2>2, <2>5, QuietBegin
<1>4. ASSUME NEW n \in NetThreads, SendNetBufferLists(n) PROVE CountsKept
  <2>1. UNCHANGED heldVars /\ Begin(n, <<Do("Stage")>>) /\ n \in Threads
    BY <1>1, <1>4 DEF SendNetBufferLists
  <2>2. <<Do("Stage")>> \in Seq(QuietOps)
    BY QuietOpsAre DEF PlainOps, Counted, InUseOps, RefOps, EntryOps
  <2>3. QED
    BY <2>1, <2>2, QuietBegin
<1>5. QED
  BY <1>2, <1>3, <1>4 DEF QuietCall

(* Set with the peer looked up, which the end of the request puts. *)
LEMMA SetIntervalKeeps ==
  ASSUME CountsIInv, NEW i \in Intervals, SetPersistentKeepalive(i) PROVE CountsKept
<1> USE DEF timerVars, handshakeVars, queueVars, sessionVars, packetVars, countVars
<1> DEFINE first == IF interval = 0 /\ i # 0 /\ isUp THEN <<Do("SendKeepalive")>> ELSE <<>>
           then == IF isUp THEN <<Do("SendStaged")>> ELSE <<>>
<1>1. Begin(Config, first \o then \o <<Do("Put")>>)
  BY DEF SetPersistentKeepalive
<1>2. UNCHANGED <<inUse, inFlight, entry>> /\ refs' = refs + 1 /\ Home' = Home
  BY DEF SetPersistentKeepalive, Home
<1>3. Do("SendKeepalive") \in QuietOps /\ Do("SendStaged") \in QuietOps
  BY QuietOpsAre DEF PlainOps, Counted, InUseOps, RefOps, EntryOps
<1>4. first \in Seq(QuietOps) /\ then \in Seq(QuietOps)
  BY <1>3
<1> HIDE DEF first, then
<1>5. first \o then \in Seq(QuietOps)
  BY <1>4
<1>6. Config \in Threads /\ "Put" \in Counted
  BY DEF Threads, Counted, RefOps
<1>7. Moved("none", "Put")
  BY <1>1, <1>5, <1>6, OneMore
<1>8. QED
  BY <1>2, <1>7, PutAtTheEnd

(* The list's reference becomes the one that PeerRemove puts at its end. *)
LEMMA RemoveKeeps == ASSUME CountsIInv, PeerRemove PROVE CountsKept
<1> USE DEF timerVars, handshakeVars, queueVars, sessionVars, packetVars, countVars
<1> DEFINE first == <<Do("ClearKeys"), Do("CloseInUse"), Do("WaitInUse")>>
<1>1. Begin(Config, first \o TimersStop \o <<Do("Put")>>)
  BY DEF PeerRemove
<1>2. UNCHANGED <<inUse, inFlight, entry>> /\ refs' = refs /\ Home' = Home - 1
  BY DEF PeerRemove, Home
<1>3. Do("ClearKeys") \in QuietOps /\ Do("CloseInUse") \in QuietOps /\ Do("WaitInUse") \in QuietOps
  BY QuietOpsAre DEF PlainOps, Counted, InUseOps, RefOps, EntryOps
<1>4. first \in Seq(QuietOps)
  BY <1>3
<1> HIDE DEF first
<1>5. first \o TimersStop \in Seq(QuietOps)
  BY <1>4, ConfigLists
<1>6. Config \in Threads /\ "Put" \in Counted
  BY DEF Threads, Counted, RefOps
<1>7. Moved("none", "Put")
  BY <1>1, <1>5, <1>6, OneMore
<1>8. QED
  BY <1>2, <1>7, PutAtTheEnd

(* The kernel's steps on timers and time move no operation. *)
LEMMA KernelKeeps ==
  ASSUME CountsIInv, (\E t \in Timers : Expire(t)) \/ RekeyTimeoutPasses PROVE CountsKept
<1> USE DEF timerVars, handshakeVars, queueVars, sessionVars, packetVars, countVars
<1>1. todo' = todo /\ UNCHANGED heldVars
  BY DEF Expire, RekeyTimeoutPasses, heldVars, deviceVars
<1>2. "none" \notin Counted /\ todo \in [Threads -> Seq(Ops)]
  BY DEF Counted, InUseOps, RefOps, EntryOps, CountsIInv, TypeOK
<1>3. Moved("none", "none")
  BY <1>1, <1>2, StillMoved
<1>4. QED
  BY <1>1, <1>2, <1>3, NothingMoved

(* Every step keeps the numbers. *)
LEMMA NextKeepsCounts == ASSUME CountsIInv, Next PROVE CountsKept
<1>1. ASSUME NEW th \in Threads, Step(th) PROVE CountsKept
  <2>1. CASE QuietAction(th)
    BY <2>1, QuietActions
  <2>2. CASE PacketSendStagedPackets(th) \/ PacketCreateData(th) \/ StagePacket(th)
    BY <2>2, SendStagedKeeps, CreateDataKeeps, StageKeeps
  <2>3. CASE PacketSendQueuedHandshakeInitiation(th) \/ ZeroKeyMaterial(th)
    BY <2>3, QueueingKeeps
  <2>4. CASE EnqueueEntry(th) \/ PacketHandshakeTxWorker(th) \/ RetireEntry(th)
    BY <2>4, EnqueueKeeps, TakeKeeps, RetireKeeps
  <2>5. CASE Release(th) \/ PeerPut(th)
    BY <2>5, ReleaseKeeps, PutKeeps
  <2>6. QED
    BY <1>1, <2>1, <2>2, <2>3, <2>4, <2>5
    DEF Step, CallbackStep, PacketStep, HandshakeStep, StopStep, QuietAction
<1>2. CASE QuietCall
  BY <1>2, QuietCalls
<1>3. ASSUME NEW t \in Timers, Expire(t) PROVE CountsKept
  BY <1>3, KernelKeeps
<1>4. CASE RekeyTimeoutPasses
  BY <1>4, KernelKeeps
<1>5. CASE DequeueEntry
  BY <1>5, DequeueKeeps
<1>6. ASSUME NEW n \in NetThreads, PacketPeerTxWork(n) PROVE CountsKept
  BY <1>6, TxWorkKeeps
<1>7. ASSUME NEW n \in NetThreads, NEW confirms \in BOOLEAN, NEW data \in BOOLEAN,
             PacketConsumeDataDone(n, confirms, data)
      PROVE  CountsKept
  BY <1>7, ConsumeDataKeeps
<1>8. ASSUME NEW n \in NetThreads, ReceiveInitiation(n) \/ ReceiveResponse(n) PROVE CountsKept
  BY <1>8, ReceiveKeeps
<1>9. ASSUME NEW i \in Intervals, SetPersistentKeepalive(i) PROVE CountsKept
  BY <1>9, SetIntervalKeeps
<1>10. CASE PeerRemove
  BY <1>10, RemoveKeeps
<1>11. QED
  BY <1>1, <1>2, <1>3, <1>4, <1>5, <1>6, <1>7, <1>8, <1>9, <1>10
  DEF Next, NetCall, ConfigCall, QuietCall

-----------------------------------------------------------------------------
(* PeerTimers: types.                                                      *)

\* TypeOK, but for the lists and the two counts: truth values, and the rest.
Flags ==
    /\ isUp \in BOOLEAN /\ paused \in BOOLEAN /\ linked \in BOOLEAN /\ closing \in BOOLEAN
    /\ needAnother \in BOOLEAN /\ lastMinute \in BOOLEAN
    /\ recent \in BOOLEAN /\ covered \in BOOLEAN
    /\ requeue \in BOOLEAN /\ staged \in BOOLEAN /\ initiated \in BOOLEAN

Ranges ==
    /\ armed \subseteq Timers /\ queued \subseteq Timers
    /\ attempts \in 0 .. MAX_TIMER_HANDSHAKES + 1
    /\ interval \in Intervals
    /\ action \in {"NONE", "SEND", "CLEAR"}
    /\ entry \in {"off", "on", "taken"}
    /\ inFlight \in 0 .. MaxInFlight
    /\ keys \in {"none", "live", "outdated"}
    /\ calls \in 0 .. MaxCalls /\ requests \in 0 .. MaxRequests

Typed == Flags /\ Ranges

(* Truth values stay truth values. *)
LEMMA StepFlags == ASSUME TypeOK, NEW th \in Threads, Step(th) PROVE Flags'
<1>0. Flags
  BY DEF TypeOK, Flags
<1> USE DEF Flags, peerVars, timerVars, handshakeVars, queueVars, countVars, packetVars,
            sessionVars, deviceVars
<1>1. CASE DeleteAndMod(th)
  BY <1>0, <1>1 DEF DeleteAndMod
<1>2. CASE GiveUp(th)
  BY <1>0, <1>2 DEF GiveUp
<1>3. CASE Retry(th)
  BY <1>0, <1>3 DEF Retry
<1>4. CASE AnotherKeepalive(th)
  BY <1>0, <1>4 DEF AnotherKeepalive
<1>5. CASE KeepaliveIfEnabled(th)
  BY <1>0, <1>5 DEF KeepaliveIfEnabled
<1>6. CASE PacketSendKeepalive(th)
  BY <1>0, <1>6 DEF PacketSendKeepalive
<1>7. CASE PacketSendStagedPackets(th)
  BY <1>0, <1>7 DEF PacketSendStagedPackets
<1>8. CASE PacketCreateData(th)
  BY <1>0, <1>8 DEF PacketCreateData
<1>9. CASE PacketPurgeStagedPackets(th)
  BY <1>0, <1>9 DEF PacketPurgeStagedPackets
<1>10. CASE StagePacket(th)
  BY <1>0, <1>10 DEF StagePacket
<1>11. CASE TimersDataReceived(th)
  BY <1>0, <1>11 DEF TimersDataReceived
<1>12. CASE KeepKeyFreshSend(th)
  BY <1>0, <1>12 DEF KeepKeyFreshSend
<1>13. CASE KeepKeyFreshReceive(th)
  BY <1>0, <1>13 DEF KeepKeyFreshReceive
<1>14. CASE PacketSendQueuedHandshakeInitiation(th)
  BY <1>0, <1>14 DEF PacketSendQueuedHandshakeInitiation, SetAction
<1>15. CASE ZeroKeyMaterial(th)
  BY <1>0, <1>15 DEF ZeroKeyMaterial, SetAction
<1>16. CASE EnqueueEntry(th)
  BY <1>0, <1>16 DEF EnqueueEntry
<1>17. CASE PacketHandshakeTxWorker(th)
  BY <1>0, <1>17 DEF PacketHandshakeTxWorker
<1>18. CASE RetireEntry(th)
  BY <1>0, <1>18 DEF RetireEntry
<1>19. CASE PacketSendHandshakeInitiation(th)
  BY <1>0, <1>19 DEF PacketSendHandshakeInitiation
<1>20. CASE NoiseHandshakeCreateInitiation(th)
  BY <1>0, <1>20 DEF NoiseHandshakeCreateInitiation
<1>21. CASE TimersHandshakeInitiated(th)
  BY <1>0, <1>21 DEF TimersHandshakeInitiated
<1>22. CASE Stamp(th)
  BY <1>0, <1>22 DEF Stamp
<1>23. CASE PacketSendHandshakeResponse(th)
  BY <1>0, <1>23 DEF PacketSendHandshakeResponse
<1>24. CASE BeginSession(th)
  BY <1>0, <1>24 DEF BeginSession
<1>25. CASE TimersHandshakeComplete(th)
  BY <1>0, <1>25 DEF TimersHandshakeComplete
<1>26. CASE NoiseHandshakeClear(th)
  BY <1>0, <1>26 DEF NoiseHandshakeClear
<1>27. CASE NoiseKeypairsClear(th)
  BY <1>0, <1>27 DEF NoiseKeypairsClear
<1>28. CASE NoiseResetLastSentHandshake(th)
  BY <1>0, <1>28 DEF NoiseResetLastSentHandshake
<1>29. CASE CloseInUse(th)
  BY <1>0, <1>29 DEF CloseInUse
<1>30. CASE WaitInUse(th)
  BY <1>0, <1>30 DEF WaitInUse
<1>31. CASE KeFlushQueuedDpcs(th)
  BY <1>0, <1>31 DEF KeFlushQueuedDpcs
<1>32. CASE Release(th)
  BY <1>0, <1>32 DEF Release
<1>33. CASE PeerPut(th)
  BY <1>0, <1>33 DEF PeerPut
<1>34. QED
  BY <1>0, <1>1, <1>2, <1>3, <1>4, <1>5, <1>6, <1>7, <1>8, <1>9, <1>10, <1>11, <1>12, <1>13,
      <1>14,
     <1>15, <1>16, <1>17, <1>18, <1>19, <1>20, <1>21, <1>22, <1>23, <1>24, <1>25, <1>26, <1>27,
     <1>28, <1>29, <1>30, <1>31, <1>32, <1>33
  DEF Step, CallbackStep, PacketStep, HandshakeStep, StopStep

(* What a step sets is in its range. *)
LEMMA StepRanges == ASSUME TypeOK, NEW th \in Threads, Step(th) PROVE Ranges'
<1>0. Ranges
  BY DEF TypeOK, Ranges
<1> USE DEF Ranges, peerVars, timerVars, handshakeVars, queueVars, countVars, packetVars,
            sessionVars, deviceVars
<1>1. CASE DeleteAndMod(th)
  <2>1. PICK op \in Ops : op = Head(todo[th]) /\ op[1] = "Timers"
    <3>0. todo \in [Threads -> Seq(Ops)]
      BY DEF TypeOK
    <3>1. PICK list \in Seq(Ops) : list = todo[th] /\ list # <<>> /\ Head(list)[1] = "Timers"
      BY <1>1, <3>0 DEF DeleteAndMod, At
    <3>2. QED
      BY <3>1, NumberOfTail
  <2>2. Arg(th) \in Calls
    <3>1. op[2] \in Calls
      BY <2>1 DEF Ops, PlainOps
    <3>2. QED
      BY <2>1, <3>1 DEF Arg
  <2>3. PICK c \in Calls : c = Arg(th)
    BY <2>2
  <2>4. c.mod \subseteq Timers /\ c.idle \subseteq Timers
    BY DEF Calls
  <2>5. armed' \subseteq Timers /\ queued' \subseteq Timers
    BY <1>0, <1>1, <2>3, <2>4
    DEF DeleteAndMod, Settable, TimersAnyAuthenticatedPacketTraversal, Timers
  <2>6. QED
    BY <1>0, <1>1, <2>5 DEF DeleteAndMod
<1>2. CASE GiveUp(th)
  BY <1>0, <1>2 DEF GiveUp
<1>3. CASE Retry(th)
  BY <1>0, <1>3, PeerTimersAssumption DEF Retry
<1>4. CASE AnotherKeepalive(th)
  BY <1>0, <1>4 DEF AnotherKeepalive
<1>5. CASE KeepaliveIfEnabled(th)
  BY <1>0, <1>5 DEF KeepaliveIfEnabled
<1>6. CASE PacketSendKeepalive(th)
  BY <1>0, <1>6 DEF PacketSendKeepalive
<1>7. CASE PacketSendStagedPackets(th)
  BY <1>0, <1>7 DEF PacketSendStagedPackets
<1>8. CASE PacketCreateData(th)
  BY <1>0, <1>8, PeerTimersAssumption DEF PacketCreateData
<1>9. CASE PacketPurgeStagedPackets(th)
  BY <1>0, <1>9 DEF PacketPurgeStagedPackets
<1>10. CASE StagePacket(th)
  BY <1>0, <1>10 DEF StagePacket
<1>11. CASE TimersDataReceived(th)
  BY <1>0, <1>11 DEF TimersDataReceived, Settable, Timers
<1>12. CASE KeepKeyFreshSend(th)
  BY <1>0, <1>12 DEF KeepKeyFreshSend
<1>13. CASE KeepKeyFreshReceive(th)
  BY <1>0, <1>13 DEF KeepKeyFreshReceive
<1>14. CASE PacketSendQueuedHandshakeInitiation(th)
  BY <1>0, <1>14, PeerTimersAssumption DEF PacketSendQueuedHandshakeInitiation, SetAction
<1>15. CASE ZeroKeyMaterial(th)
  BY <1>0, <1>15 DEF ZeroKeyMaterial, SetAction
<1>16. CASE EnqueueEntry(th)
  BY <1>0, <1>16 DEF EnqueueEntry
<1>17. CASE PacketHandshakeTxWorker(th)
  BY <1>0, <1>17 DEF PacketHandshakeTxWorker
<1>18. CASE RetireEntry(th)
  BY <1>0, <1>18 DEF RetireEntry
<1>19. CASE PacketSendHandshakeInitiation(th)
  BY <1>0, <1>19 DEF PacketSendHandshakeInitiation
<1>20. CASE NoiseHandshakeCreateInitiation(th)
  BY <1>0, <1>20 DEF NoiseHandshakeCreateInitiation
<1>21. CASE TimersHandshakeInitiated(th)
  BY <1>0, <1>21 DEF TimersHandshakeInitiated, Settable, Timers
<1>22. CASE Stamp(th)
  BY <1>0, <1>22 DEF Stamp
<1>23. CASE PacketSendHandshakeResponse(th)
  BY <1>0, <1>23 DEF PacketSendHandshakeResponse
<1>24. CASE BeginSession(th)
  BY <1>0, <1>24 DEF BeginSession
<1>25. CASE TimersHandshakeComplete(th)
  BY <1>0, <1>25, PeerTimersAssumption DEF TimersHandshakeComplete
<1>26. CASE NoiseHandshakeClear(th)
  BY <1>0, <1>26 DEF NoiseHandshakeClear
<1>27. CASE NoiseKeypairsClear(th)
  BY <1>0, <1>27 DEF NoiseKeypairsClear
<1>28. CASE NoiseResetLastSentHandshake(th)
  BY <1>0, <1>28 DEF NoiseResetLastSentHandshake
<1>29. CASE CloseInUse(th)
  BY <1>0, <1>29 DEF CloseInUse
<1>30. CASE WaitInUse(th)
  BY <1>0, <1>30 DEF WaitInUse
<1>31. CASE KeFlushQueuedDpcs(th)
  BY <1>0, <1>31 DEF KeFlushQueuedDpcs
<1>32. CASE Release(th)
  BY <1>0, <1>32 DEF Release
<1>33. CASE PeerPut(th)
  BY <1>0, <1>33 DEF PeerPut
<1>34. QED
  BY <1>0, <1>1, <1>2, <1>3, <1>4, <1>5, <1>6, <1>7, <1>8, <1>9, <1>10, <1>11, <1>12, <1>13,
      <1>14,
     <1>15, <1>16, <1>17, <1>18, <1>19, <1>20, <1>21, <1>22, <1>23, <1>24, <1>25, <1>26, <1>27,
     <1>28, <1>29, <1>30, <1>31, <1>32, <1>33
  DEF Step, CallbackStep, PacketStep, HandshakeStep, StopStep

(* So do the actions that are not a step of a handler. *)
LEMMA OtherFlags ==
  ASSUME TypeOK, Next, \A th \in Threads : ~Step(th) PROVE Flags'
<1>0. Flags
  BY DEF TypeOK, Flags
<1> USE DEF Flags, peerVars, timerVars, handshakeVars, queueVars, countVars, packetVars,
            sessionVars, deviceVars
<1>1. ASSUME NEW t \in Timers, Expire(t) \/ TimerDpcCallback(t) PROVE Flags'
  BY <1>0, <1>1 DEF Expire, TimerDpcCallback
<1>2. CASE RekeyTimeoutPasses \/ DequeueEntry
  BY <1>0, <1>2 DEF RekeyTimeoutPasses, DequeueEntry
<1>3. ASSUME NEW n \in NetThreads, SendNetBufferLists(n) PROVE Flags'
  BY <1>0, <1>3 DEF SendNetBufferLists, Called
<1>4. ASSUME NEW n \in NetThreads, NEW confirms \in BOOLEAN, NEW data \in BOOLEAN,
             PacketConsumeDataDone(n, confirms, data)
      PROVE  Flags'
  BY <1>0, <1>4 DEF PacketConsumeDataDone, Called
<1>5. ASSUME NEW n \in NetThreads, ReceiveInitiation(n) \/ ReceiveResponse(n) PROVE Flags'
  BY <1>0, <1>5 DEF ReceiveInitiation, ReceiveResponse, Called
<1>6. ASSUME NEW n \in NetThreads, PacketPeerTxWork(n) PROVE Flags'
  BY <1>0, <1>6 DEF PacketPeerTxWork
<1>7. CASE Up \/ Down
  BY <1>0, <1>7 DEF Up, Down, Requested
<1>8. CASE Pause \/ Restart
  BY <1>0, <1>8 DEF Pause, Restart, Requested
<1>9. ASSUME NEW i \in Intervals, SetPersistentKeepalive(i) PROVE Flags'
  BY <1>0, <1>9 DEF SetPersistentKeepalive, Requested
<1>10. CASE PeerRemove
  BY <1>0, <1>10 DEF PeerRemove, Requested
<1>11. QED
  BY <1>0, <1>1, <1>2, <1>3, <1>4, <1>5, <1>6, <1>7, <1>8, <1>9, <1>10
  DEF Next, NetCall, ConfigCall

(* And they keep to the ranges. *)
LEMMA OtherRanges ==
  ASSUME TypeOK, Next, \A th \in Threads : ~Step(th) PROVE Ranges'
<1>0. Ranges
  BY DEF TypeOK, Ranges
<1> USE DEF Ranges, peerVars, timerVars, handshakeVars, queueVars, countVars, packetVars,
            sessionVars, deviceVars
<1>1. ASSUME NEW t \in Timers, Expire(t) \/ TimerDpcCallback(t) PROVE Ranges'
  BY <1>0, <1>1 DEF Expire, TimerDpcCallback
<1>2. CASE RekeyTimeoutPasses \/ DequeueEntry
  BY <1>0, <1>2 DEF RekeyTimeoutPasses, DequeueEntry
<1>3. ASSUME NEW n \in NetThreads, SendNetBufferLists(n) PROVE Ranges'
  BY <1>0, <1>3, PeerTimersAssumption DEF SendNetBufferLists, Called
<1>4. ASSUME NEW n \in NetThreads, NEW confirms \in BOOLEAN, NEW data \in BOOLEAN,
             PacketConsumeDataDone(n, confirms, data)
      PROVE  Ranges'
  BY <1>0, <1>4, PeerTimersAssumption DEF PacketConsumeDataDone, Called
<1>5. ASSUME NEW n \in NetThreads, ReceiveInitiation(n) \/ ReceiveResponse(n) PROVE Ranges'
  BY <1>0, <1>5, PeerTimersAssumption DEF ReceiveInitiation, ReceiveResponse, Called
<1>6. ASSUME NEW n \in NetThreads, PacketPeerTxWork(n) PROVE Ranges'
  BY <1>0, <1>6, PeerTimersAssumption DEF PacketPeerTxWork
<1>7. CASE Up \/ Down
  BY <1>0, <1>7, PeerTimersAssumption DEF Up, Down, Requested
<1>8. CASE Pause \/ Restart
  BY <1>0, <1>8, PeerTimersAssumption DEF Pause, Restart, Requested
<1>9. ASSUME NEW i \in Intervals, SetPersistentKeepalive(i) PROVE Ranges'
  BY <1>0, <1>9, PeerTimersAssumption DEF SetPersistentKeepalive, Requested
<1>10. CASE PeerRemove
  BY <1>0, <1>10, PeerTimersAssumption DEF PeerRemove, Requested
<1>11. QED
  BY <1>0, <1>1, <1>2, <1>3, <1>4, <1>5, <1>6, <1>7, <1>8, <1>9, <1>10
  DEF Next, NetCall, ConfigCall

(* The peer when the model begins. *)
LEMMA InitExact == Init => CountsIInv
<1> SUFFICES ASSUME Init PROVE CountsIInv
  OBVIOUS
<1>1. todo = [th \in Threads |-> <<>>]
  BY DEF Init
<1>2. \A names : HeldBy(names) = 0
  <2> SUFFICES ASSUME NEW names PROVE HeldBy(names) = 0
    OBVIOUS
  <2>1. UNION {Holds(th, names) : th \in Threads} = {}
    BY <1>1 DEF Holds
  <2>2. QED
    BY <2>1, FS_EmptySet DEF HeldBy
<1>3. Numbers
  BY <1>2 DEF Init, Numbers, InUseHeld, RefsHeld, EntryHeld, OnList, Home, WithWorker
<1>4. TypeOK
  <2>1. todo \in [Threads -> Seq(Ops)]
    BY <1>1
  <2>2. armed \subseteq Timers
    BY DEF Init, Timers
  <2>3. Flags
    BY DEF Init, Flags, Waiting, Established, Created
  <2>4. Ranges
    BY <2>2, PeerTimersAssumption DEF Init, Ranges
  <2>5. inUse \in Nat /\ refs \in Nat
    BY DEF Init
  <2>6. QED
    BY <2>1, <2>3, <2>4, <2>5 DEF TypeOK, Flags, Ranges
<1>5. QED
  BY <1>3, <1>4 DEF CountsIInv

(* The inductive invariant is kept. *)
LEMMA StaysExact == CountsIInv /\ [Next]_vars => CountsIInv'
<1> SUFFICES ASSUME CountsIInv, [Next]_vars PROVE CountsIInv'
  OBVIOUS
<1>1. CASE Next
  <2>1. Numbers' /\ todo' \in [Threads -> Seq(Ops)]
    BY <1>1, NextKeepsCounts DEF CountsKept
  <2>2. Typed'
    BY <1>1, StepFlags, StepRanges, OtherFlags, OtherRanges DEF CountsIInv, Typed
  <2>3. InUseHeld' \in Nat /\ RefsHeld' \in Nat
    <3>1. PICK f : f = todo' /\ f \in [Threads -> Seq(Ops)]
      BY <2>1
    <3>2. /\ InUseHeld' = Cardinality(Pairs(f, Threads, InUseOps))
          /\ RefsHeld' = Cardinality(Pairs(f, Threads, RefOps))
      BY <3>1 DEF InUseHeld, RefsHeld, HeldBy, Holds, Pairs, Places
    <3>3. QED
      BY <3>1, <3>2, PairsFinite
  <2>4. OnList' \in Nat /\ Home' \in Nat
    BY DEF OnList, Home
  <2>5. inFlight' \in Nat
    BY <2>2, PeerTimersAssumption DEF Typed, Ranges
  <2>6. inUse' \in Nat /\ refs' \in Nat
    <3>1. inUse' = inFlight' + OnList' + InUseHeld' /\ refs' = Home' + inFlight' + OnList' + RefsHeld'
      BY <2>1 DEF Numbers
    <3>2. \A a, b, c, d \in Nat : a + b + c \in Nat /\ a + b + c + d \in Nat
      OBVIOUS
    <3>3. QED
      BY <2>3, <2>4, <2>5, <3>1, <3>2
  <2>7. TypeOK'
    BY <2>1, <2>2, <2>6 DEF Typed, Flags, Ranges, TypeOK
  <2>8. QED
    BY <2>1, <2>7 DEF CountsIInv
<1>2. CASE UNCHANGED vars
  BY <1>2 DEF CountsIInv, TypeOK, Numbers, vars, peerVars, timerVars, handshakeVars, queueVars,
      countVars, packetVars, sessionVars, deviceVars, InUseHeld, RefsHeld, EntryHeld, HeldBy, Holds,
      OnList, Home, WithWorker
<1>3. QED
  BY <1>1, <1>2

(* The variables have their types: TimerHandshakeAttempts never exceeds     *)
(* MAX_TIMER_HANDSHAKES + 1 (ExpiredRetransmitHandshake gives up there),    *)
(* InUse and Refcount never fall below zero, and the encrypt queue holds no *)
(* more than it has places for.                                             *)
THEOREM PeerTimersTypeCorrect == Spec => []TypeOK
<1>1. CountsIInv => TypeOK
  BY DEF CountsIInv
<1>2. QED
  BY <1>1, InitExact, StaysExact, PTL DEF Spec

(* InUse and Refcount are exactly what is in flight, on the handshake queue *)
(* or in the hands of a handler that will let go of it, in every order of   *)
(* timers, packets, handshakes, PeerRemove and DeviceStop.                  *)
THEOREM PeerCountsExact == Spec => []CountsExact
<1>1. CountsIInv => CountsExact
  BY DEF CountsIInv, Numbers, CountsExact, InUseHeld, RefsHeld, InUseOps, RefOps, Home
<1>2. QED
  BY <1>1, InitExact, StaysExact, PTL DEF Spec

=============================================================================
