-------------------------- MODULE RatelimiterSelftest --------------------------
(***************************************************************************)
(* The rate limiter's own test (driver/selftest/ratelimiter.c), which        *)
(* DriverEntry of a debug build runs after RatelimiterDriverEntry has        *)
(* started the collector thread: the test's packets and the collector's      *)
(* sweeps interleave.                                                        *)
(*                                                                         *)
(* An address is <<family, offset>>: 8182 + offset for IPv4, nibble 0 of     *)
(* 1212:289188:: + offset for IPv6.  KeQueryUnbiasedInterruptTime and        *)
(* KeQueryInterruptTime differ by the time slept in standby, of which there  *)
(* is none here.                                                             *)
(***************************************************************************)
EXTENDS Ratelimiter

CONSTANT Tester,   \* the thread of DriverEntry, one of Callers
         TRIALS_BEFORE_GIVING_UP

VARIABLE test  \* the test's place: the phase, the packet, LoopStartTime, the
               \* end of its sleep, Trials

ExpectedResults ==
    [i \in 0..(PACKETS_BURSTABLE + 5) |->
        [Failure |-> i \in {PACKETS_BURSTABLE, PACKETS_BURSTABLE + 2, PACKETS_BURSTABLE + 5},
         SysTimeUnitsToSleepBefore |->
            CASE i = PACKETS_BURSTABLE + 1 -> PACKET_COST
              [] i = PACKETS_BURSTABLE + 3 -> 2 * PACKET_COST
              [] OTHER -> 0]]

MaximumSysTimeUnitsAtIndex(i) ==
    (2 * PACKET_COST) \div 3
      + FoldFunctionOnSet(+, 0, [j \in 0..i |-> ExpectedResults[j].SysTimeUnitsToSleepBefore], 0..i)

(* The four packets of round i, and whether each is to be allowed. *)
Probe(i, k) ==
    CASE k = 1 -> [src |-> <<4, 0>>,     allow |-> ~ExpectedResults[i].Failure]
      [] k = 2 -> [src |-> <<4, i + 1>>, allow |-> TRUE]
      [] k = 3 -> [src |-> <<6, 0>>,     allow |-> ~ExpectedResults[i].Failure]
      [] k = 4 -> [src |-> <<6, i + 1>>, allow |-> TRUE]

SelftestInit ==
    /\ RatelimiterInit
    /\ test = [phase |-> "timings", at |-> "clean", i |-> 0, k |-> 1,
               start |-> 0, until |-> 0, Trials |-> TRIALS_BEFORE_GIVING_UP]

TestAt(phase, at) == test.phase = phase /\ test.at = at

(* RatelimiterGcEntries(NULL) in the test's thread. *)
CleanTable ==
    /\ test.at = "clean" /\ gc.left = {}
    /\ bucket' = [s \in Sources |-> <<>>]
    /\ retired' = retired \cup InTable
    /\ test' = [test EXCEPT !.at = "barrier"]
    /\ UNCHANGED <<now, entry, TotalEntries, caller, gc>>

(* RcuBarrier returns; CapacityTest then looks at TotalEntries. *)
Barrier ==
    /\ test.at = "barrier"
    /\ retired = {}
    /\ test' = [test EXCEPT !.at = IF test.phase = "capacity" /\ TotalEntries # 0
                                     THEN "failed" ELSE "sleep",
                            !.i = 0, !.k = 1, !.start = now, !.until = now]
    /\ UNCHANGED rlVars

(* KeDelayExecutionThread before a round may take longer than it was asked. *)
Sleep ==
    /\ test.at = "sleep"
    /\ now >= test.until
    /\ test' = [test EXCEPT !.at = "call"]
    /\ UNCHANGED rlVars

(* Each packet is preceded by a look at the clock. *)
TooLate == now > test.start + MaximumSysTimeUnitsAtIndex(test.i)

CallAllow ==
    /\ test.at = "call"
    /\ IF test.phase = "timings" /\ TooLate
         THEN /\ test' = [test EXCEPT !.at = "timeout"]
              /\ UNCHANGED rlVars
         ELSE /\ Find(Tester, IF test.phase = "timings" THEN Probe(test.i, test.k).src
                                                        ELSE <<4, test.i>>)
              /\ test' = [test EXCEPT !.at = "called"]

(* The rest of RatelimiterAllow; the allocation succeeds while there is memory. *)
InAllow ==
    /\ test.at = "called"
    /\ Charge(Tester) \/ Reserve(Tester) \/ Allocate(Tester) \/ Insert(Tester) \/ Oom(Tester)
    /\ caller[Tester].at = "allocate" /\ Unused # {} => caller'[Tester].at = "insert"
    /\ UNCHANGED test

(* STATUS_DISK_FULL when the answer is not the one expected, else the next    *)
(* packet or, with another look at the clock, the next round.                 *)
JudgeTimings ==
    /\ TestAt("timings", "called")
    /\ Return(Tester)
    /\ test' =
         IF (caller[Tester].at = "allowed") # Probe(test.i, test.k).allow
           THEN [test EXCEPT !.at = "failed"]
         ELSE IF test.k < 4 THEN [test EXCEPT !.at = "call", !.k = @ + 1]
         ELSE IF TooLate THEN [test EXCEPT !.at = "timeout"]
         ELSE IF test.i = PACKETS_BURSTABLE + 5 THEN [test EXCEPT !.at = "passed"]
         ELSE [test EXCEPT !.at = "sleep", !.k = 1, !.i = @ + 1,
                 !.until = now + ExpectedResults[test.i + 1].SysTimeUnitsToSleepBefore]

JudgeCapacity ==
    /\ TestAt("capacity", "called")
    /\ Return(Tester)
    /\ test' =
         IF (caller[Tester].at = "allowed") # (test.i # MAX_ENTRIES)
           THEN [test EXCEPT !.at = "failed"]
         ELSE IF test.i = MAX_ENTRIES THEN [test EXCEPT !.at = "passed"]
         ELSE [test EXCEPT !.at = "sleep", !.i = @ + 1]

(* RatelimiterSelftest: TimingsTest is repeated when the clock ran ahead of   *)
(* it, CapacityTest after any failure.                                       *)
NextTrial ==
    /\ \/ TestAt("timings", "timeout") \/ TestAt("capacity", "failed")
    /\ test' = IF test.Trials = 0
                 THEN [test EXCEPT !.at = "gave up"]
                 ELSE [test EXCEPT !.at = "clean", !.Trials = @ - 1]
    /\ UNCHANGED rlVars

NextPhase ==
    /\ TestAt("timings", "passed")
    /\ test' = [test EXCEPT !.phase = "capacity", !.at = "clean",
                            !.Trials = TRIALS_BEFORE_GIVING_UP]
    /\ UNCHANGED rlVars

GcThread ==
    /\ \/ StartSweep \/ SweepBucket \/ EndSweep
       \/ \E e \in Entries : EntryFree(e)
    /\ UNCHANGED test

SelftestNext ==
    \/ RatelimiterTick /\ UNCHANGED test
    \/ GcThread
    \/ CleanTable \/ Barrier \/ Sleep \/ CallAllow \/ InAllow
    \/ JudgeTimings \/ JudgeCapacity
    \/ NextTrial \/ NextPhase

-----------------------------------------------------------------------------
(* Properties *)

(* What ExpectedResults and TimingsTest say (selftest/ratelimiter.c:30-35,    *)
(* 73-74): as long as the test keeps to its times, the packet after a burst   *)
(* is refused and the packet after a pause is allowed.  Memory does not run   *)
(* out (Entries is large enough), so only the limiter itself can fail it.     *)
TimingsHold == ~TestAt("timings", "failed")
=============================================================================
