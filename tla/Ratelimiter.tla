------------------------------ MODULE Ratelimiter ------------------------------
(***************************************************************************)
(* The rate limiter of handshake messages (driver/ratelimiter.c): one token *)
(* bucket per source in a hash table that RatelimiterAllow reads under RCU  *)
(* and a garbage collector thread sweeps bucket by bucket once a second.    *)
(*                                                                         *)
(* A source stands for what RatelimiterAllow hashes: an IPv4 address or the *)
(* first 64 bits of an IPv6 address.  Table lists, in the order of the sweep, *)
(* the sources that hash to each bucket; bucket[s] is the part of a bucket's  *)
(* chain that belongs to s.  Time is KeQueryInterruptTime, and differences of *)
(* two times are taken in 64 bits (TimeSpace).                                *)
(*                                                                         *)
(* The entry's lock is taken and released within one step, the charge, and  *)
(* the table lock around an insertion in another.  The sweep holds the      *)
(* table lock from the first entry of a bucket to the last: meanwhile       *)
(* nothing is inserted, but sources are looked up and charged, and places   *)
(* are reserved in TotalEntries and given back.                             *)
(***************************************************************************)
EXTENDS Integers, Sequences, SequencesExt, FiniteSets

CONSTANTS Table,              \* the buckets, each the set of sources it is for
          Callers,            \* threads in RatelimiterAllow
          Entries,            \* memory for entries
          MAX_ENTRIES,        \* bound on TotalEntries
          PACKETS_BURSTABLE,  \* packets a source may send at once
          PACKET_COST,        \* tokens, that is time units, one packet costs
          SYS_TIME_UNITS_PER_SEC,  \* age at which the collector drops an entry
          MaxTime,            \* bound on the clock
          TimeSpace,          \* 2^64 in the code
          NoEntry             \* NULL

Sources == UNION ToSet(Table)

ASSUME RatelimiterAssumption ==
    /\ Table \in Seq(SUBSET Sources)
    /\ MAX_ENTRIES \in Nat \ {0}
    /\ PACKETS_BURSTABLE \in Nat \ {0}
    /\ PACKET_COST \in Nat \ {0}
    /\ SYS_TIME_UNITS_PER_SEC \in Nat
    /\ MaxTime \in Nat /\ MaxTime < TimeSpace
    /\ NoEntry \notin Entries
    /\ IsFiniteSet(Entries)
    /\ IsFiniteSet(Callers)

VARIABLES now,      \* KeQueryInterruptTime
          bucket,   \* the entries of every source in the table, newest first
          entry,    \* LastTime and Tokens of every piece of memory
          retired,  \* entries handed to RcuCall and not yet freed
          TotalEntries,
          caller,   \* what each thread in RatelimiterAllow is about to do
          gc        \* the collector: its time, the bucket it goes to next, what
                    \* it has not yet looked at of the one it is in, and its end

rlVars == <<now, bucket, entry, retired, TotalEntries, caller, gc>>

TOKEN_MAX == PACKET_COST * PACKETS_BURSTABLE

Idle == [at |-> "idle", src |-> CHOOSE s \in Sources : TRUE, e |-> NoEntry]

InTable == UNION {ToSet(bucket[s]) : s \in Sources}

(* Memory the lookaside list may hand out: not in the table, not waiting for *)
(* a grace period, and not in the hands of a caller about to insert it.      *)
Unused ==
    Entries \ (InTable \cup retired
                 \cup {caller[c].e : c \in {d \in Callers : caller[d].at = "insert"}})

Since(t, last) == (t - last) % TimeSpace

RatelimiterInit ==
    /\ now = 0
    /\ bucket = [s \in Sources |-> <<>>]
    /\ entry = [e \in Entries |-> [LastTime |-> 0, Tokens |-> 0]]
    /\ retired = {}
    /\ TotalEntries = 0
    /\ caller = [c \in Callers |-> Idle]
    /\ gc = [at |-> "start", Now |-> 0, i |-> 1, left |-> {}]

RatelimiterTick ==
    /\ now < MaxTime
    /\ now' = now + 1
    /\ UNCHANGED <<bucket, entry, retired, TotalEntries, caller, gc>>

-----------------------------------------------------------------------------
(* RatelimiterAllow *)

(* The lookup under RCU: the newest entry of the source, if there is one. *)
Find(c, s) ==
    /\ gc.at \notin {"last sweep", "unloaded"}
    /\ caller[c].at = "idle"
    /\ caller' = [caller EXCEPT ![c] =
                    IF bucket[s] = <<>>
                      THEN [at |-> "reserve", src |-> s, e |-> NoEntry]
                      ELSE [at |-> "charge", src |-> s, e |-> Head(bucket[s])]]
    /\ UNCHANGED <<now, bucket, entry, retired, TotalEntries, gc>>

Refilled(e) ==
    LET sum == (entry[e].Tokens + Since(now, entry[e].LastTime)) % TimeSpace
    IN  IF sum < TOKEN_MAX THEN sum ELSE TOKEN_MAX

(* The packet's price is taken from the entry found, which the collector may *)
(* have taken out of the table meanwhile; RCU keeps its memory.              *)
Charge(c) ==
    LET e == caller[c].e
        Ret == Refilled(e) >= PACKET_COST
    IN  /\ caller[c].at = "charge"
        /\ entry' = [entry EXCEPT ![e] =
                       [LastTime |-> now,
                        Tokens |-> Refilled(e) - (IF Ret THEN PACKET_COST ELSE 0)]]
        /\ caller' = [caller EXCEPT ![c].at = IF Ret THEN "allowed" ELSE "refused"]
        /\ UNCHANGED <<now, bucket, retired, TotalEntries, gc>>

(* A new source: its place is reserved in TotalEntries before anything else. *)
Reserve(c) ==
    /\ caller[c].at = "reserve"
    /\ TotalEntries' = TotalEntries + 1
    /\ caller' = [caller EXCEPT ![c].at =
                    IF TotalEntries' > MAX_ENTRIES THEN "oom" ELSE "allocate"]
    /\ UNCHANGED <<now, bucket, entry, retired, gc>>

(* The allocation may fail; the entry is filled in before it is published. *)
Allocate(c) ==
    /\ caller[c].at = "allocate"
    /\ \/ LET e == CHOOSE u \in Unused : TRUE IN
             /\ Unused # {}
             /\ caller' = [caller EXCEPT ![c] = [@ EXCEPT !.at = "insert", !.e = e]]
             /\ entry' = [entry EXCEPT ![e] = [LastTime |-> now,
                                               Tokens |-> TOKEN_MAX - PACKET_COST]]
       \/ /\ caller' = [caller EXCEPT ![c].at = "oom"]
          /\ UNCHANGED entry
    /\ UNCHANGED <<now, bucket, retired, TotalEntries, gc>>

(* HlistAddHeadRcu under TableLock, which the collector has while it is in a *)
(* bucket; nobody looks whether the source has an entry by now.              *)
Insert(c) ==
    /\ caller[c].at = "insert"
    /\ gc.left = {}
    /\ bucket' = [bucket EXCEPT ![caller[c].src] = <<caller[c].e>> \o @]
    /\ caller' = [caller EXCEPT ![c].at = "allowed"]
    /\ UNCHANGED <<now, entry, retired, TotalEntries, gc>>

(* Mutant: the place reserved in TotalEntries is kept when memory runs out. *)
OomKeepsPlace(c) ==
    /\ caller[c].at = "oom"
    /\ caller' = [caller EXCEPT ![c].at = "refused"]
    /\ UNCHANGED <<now, bucket, entry, retired, TotalEntries, gc>>

Oom(c) ==
    /\ caller[c].at = "oom"
    /\ TotalEntries' = TotalEntries - 1
    /\ caller' = [caller EXCEPT ![c].at = "refused"]
    /\ UNCHANGED <<now, bucket, entry, retired, gc>>

Return(c) ==
    /\ caller[c].at \in {"allowed", "refused"}
    /\ caller' = [caller EXCEPT ![c] = Idle]
    /\ UNCHANGED <<now, bucket, entry, retired, TotalEntries, gc>>

-----------------------------------------------------------------------------
(* RatelimiterGcEntries and RatelimiterUnload *)

(* The collector reads the clock once, before it sweeps the whole table: at   *)
(* its start, and whenever it has waited for a second.                        *)
StartSweep ==
    /\ \/ gc.at = "start"
       \/ gc.at = "wait" /\ now - gc.Now >= SYS_TIME_UNITS_PER_SEC
    /\ gc' = [at |-> "sweep", Now |-> now, i |-> 1, left |-> {}]
    /\ UNCHANGED <<now, bucket, entry, retired, TotalEntries, caller>>

Stale(e) ==
    \/ gc.at = "last sweep"
    \/ Since(gc.Now, entry[e].LastTime) > SYS_TIME_UNITS_PER_SEC

(* The next bucket; TableLock is held until nothing is left of it. *)
EnterBucket ==
    /\ gc.at \in {"sweep", "last sweep"}
    /\ gc.i <= Len(Table) /\ gc.left = {}
    /\ gc' = [gc EXCEPT !.i = gc.i + 1, !.left = UNION {ToSet(bucket[s]) : s \in Table[gc.i]}]
    /\ UNCHANGED <<now, bucket, entry, retired, TotalEntries, caller>>

(* One entry, a source's newest first: EntryUninit unlinks a stale one and   *)
(* leaves its memory, and its place in TotalEntries, to EntryFree.           *)
SweepEntry(s, k) ==
    LET e == bucket[s][k]
    IN  /\ e \in gc.left
        /\ \A j \in 1 .. k - 1 : bucket[s][j] \notin gc.left
        /\ gc' = [gc EXCEPT !.left = gc.left \ {e}]
        /\ \/ /\ Stale(e)
              /\ bucket' = [bucket EXCEPT ![s] = RemoveAt(bucket[s], k)]
              /\ retired' = retired \cup {e}
           \/ ~Stale(e) /\ UNCHANGED <<bucket, retired>>
        /\ UNCHANGED <<now, entry, TotalEntries, caller>>

SweepBucket ==
    EnterBucket \/ \E s \in Sources : \E k \in DOMAIN bucket[s] : SweepEntry(s, k)

(* KeWaitForSingleObject: the collector rests for a second from now. *)
EndSweep ==
    /\ gc.at = "sweep"
    /\ gc.i > Len(Table) /\ gc.left = {}
    /\ gc' = [gc EXCEPT !.at = "wait", !.Now = now]
    /\ UNCHANGED <<now, bucket, entry, retired, TotalEntries, caller>>

(* A grace period: no caller that may have found e is still at DISPATCH_LEVEL. *)
EntryFree(e) ==
    /\ e \in retired
    /\ \A c \in Callers : caller[c].at = "charge" => caller[c].e # e
    /\ retired' = retired \ {e}
    /\ TotalEntries' = TotalEntries - 1
    /\ entry' = [entry EXCEPT ![e] = [LastTime |-> 0, Tokens |-> 0]]
    /\ UNCHANGED <<now, bucket, caller, gc>>

(* Terminate is set and the thread has ended: between two sweeps.  No device *)
(* is left, so no handshake is being received.                               *)
RatelimiterUnload ==
    /\ gc.at = "wait"
    /\ \A c \in Callers : caller[c].at = "idle"
    /\ gc' = [gc EXCEPT !.at = "last sweep", !.i = 1]
    /\ UNCHANGED <<now, bucket, entry, retired, TotalEntries, caller>>

(* RcuBarrier returns when the callbacks of all unlinked entries have run. *)
UnloadDone ==
    /\ gc.at = "last sweep" /\ gc.i > Len(Table) /\ gc.left = {} /\ retired = {}
    /\ gc' = [gc EXCEPT !.at = "unloaded"]
    /\ UNCHANGED <<now, bucket, entry, retired, TotalEntries, caller>>

RatelimiterAllow(c) ==
    \/ \E s \in Sources : Find(c, s)
    \/ Charge(c) \/ Reserve(c) \/ Allocate(c) \/ Insert(c) \/ Oom(c) \/ Return(c)

Collector ==
    \/ StartSweep
    \/ SweepBucket
    \/ EndSweep
    \/ \E e \in Entries : EntryFree(e)
    \/ RatelimiterUnload
    \/ UnloadDone

RatelimiterNext ==
    \/ RatelimiterTick
    \/ \E c \in Callers : RatelimiterAllow(c)
    \/ Collector

RatelimiterSpec == RatelimiterInit /\ [][RatelimiterNext]_rlVars

-----------------------------------------------------------------------------
(* Properties *)

(* TotalEntries is the number of entries in the table, waiting for a grace    *)
(* period, and promised to callers, however first packets, failed            *)
(* allocations, sweeps and the unload interleave (ratelimiter.c:45-56,       *)
(* 146-166).  A place lost would end with every new source refused, one      *)
(* gained with memory that is still counted on when the cache is deleted;    *)
(* after RatelimiterUnload nothing is left.                                  *)
EntriesCounted ==
    /\ TotalEntries = Cardinality(InTable) + Cardinality(retired)
                        + Cardinality({c \in Callers :
                            caller[c].at \in {"allocate", "insert", "oom"}})
    /\ Cardinality(InTable \cup retired) <= MAX_ENTRIES
    /\ gc.at = "unloaded" => TotalEntries = 0
=============================================================================
