-------------------------------- MODULE LogRing --------------------------------
(***************************************************************************)
(* The ring of log lines of a device (driver/logging.c) between the threads   *)
(* that log and the users' threads that read lines (ReadLogLine in            *)
(* driver/ioctl.c), which sleep on an event while there are none and leave    *)
(* when the device goes (DispatchPnp).  ReadLogLine takes no lock and the     *)
(* device may be opened by many (api/adapter.c), so there may be any number   *)
(* of readers, while every setting of the event lets one of them go on.       *)
(*                                                                         *)
(* FirstAndLength is one word, exchanged at once.  The text of the entries is  *)
(* left out: it is written and copied without a lock, so that a reader may    *)
(* find an entry half written or, when the ring is full, written again.       *)
(***************************************************************************)
EXTENDS Integers, FiniteSets

CONSTANTS Writers,
          LogReaders,   \* threads that may be in ReadLogLine
          BUFFERED_LOG_ENTRIES,
          RATELIMIT_BURST,
          MaxLines,     \* bound on the calls of LogRingWrite
          MaxIntervals  \* bound on the RATELIMIT_INTERVALs that pass

ASSUME LogRingAssumption ==
    {BUFFERED_LOG_ENTRIES, RATELIMIT_BURST, MaxLines, MaxIntervals} \subseteq Nat

VARIABLES First, Length,    \* FirstAndLength
          CurrentWriters,
          NewEntry,         \* the event, reset by the wait it ends
          IsDeviceRemoving,
          announcing,       \* DispatchPnp is between its write and its KeSetEvent
          logWriter,        \* per writer: what it does, and whether it is LogWarn's
                            \* line from inside the check
          logReader,        \* per reader: what it is about to do; "gone" before it ever
                            \* reads and when its wait was cancelled, "out" between reads
          lines,            \* LogRingWrite's calls so far
          rate              \* RatelimitChecking, Printed, whether lines were Missed,
                            \* and whether the interval since RatelimitStart is over

logVars == <<First, Length, CurrentWriters, NewEntry, IsDeviceRemoving, announcing, logWriter,
             logReader, lines, rate>>

removalVars == <<IsDeviceRemoving, announcing>>

NoLine == [at |-> "out", checking |-> FALSE]

(* LogRingInit *)
LogRingInit ==
    /\ First = 0 /\ Length = 0 /\ CurrentWriters = 0
    /\ NewEntry = FALSE /\ IsDeviceRemoving = FALSE /\ announcing = FALSE
    /\ logWriter = [w \in Writers |-> NoLine]
    /\ logReader = [r \in LogReaders |-> "gone"]
    /\ lines = 0
    /\ rate = [Checking |-> FALSE, Printed |-> 0, Missed |-> FALSE, over |-> FALSE, intervals |-> 0]

-----------------------------------------------------------------------------
(* LogRingIsRatelimited: who finds RatelimitChecking set is refused at once. *)
BeginCheck(w) ==
    /\ logWriter[w].at = "out" /\ lines < MaxLines
    /\ ~rate.Checking
    /\ rate' = [rate EXCEPT !.Checking = TRUE]
    /\ logWriter' = [logWriter EXCEPT ![w].at = "check"]
    /\ lines' = lines + 1
    /\ UNCHANGED <<First, Length, CurrentWriters, NewEntry, removalVars, logReader>>

(* A new interval begins; the lines swallowed in the old one are first logged. *)
NewInterval(w) ==
    /\ logWriter[w].at = "check" /\ rate.over
    /\ rate' = [rate EXCEPT !.over = FALSE, !.Printed = 0, !.Missed = FALSE]
    /\ logWriter' = [logWriter EXCEPT ![w] = [at |-> IF rate.Missed THEN "enter" ELSE "check",
                                        checking |-> TRUE]]
    /\ UNCHANGED <<First, Length, CurrentWriters, NewEntry, removalVars, logReader, lines>>

EndCheck(w) ==
    LET ok == rate.Printed <= RATELIMIT_BURST
    IN  /\ logWriter[w].at = "check" /\ ~rate.over
        /\ rate' = [rate EXCEPT !.Checking = FALSE,
                                !.Printed = IF ok THEN @ + 1 ELSE @,
                                !.Missed = @ \/ ~ok]
        /\ logWriter' = [logWriter EXCEPT ![w] = [NoLine EXCEPT !.at = IF ok THEN "enter" ELSE "out"]]
        /\ UNCHANGED <<First, Length, CurrentWriters, NewEntry, removalVars, logReader, lines>>

IntervalEnds ==
    /\ ~rate.over /\ ~rate.Checking /\ rate.intervals < MaxIntervals
    /\ rate' = [rate EXCEPT !.over = TRUE, !.intervals = @ + 1]
    /\ UNCHANGED <<First, Length, CurrentWriters, NewEntry, removalVars, logWriter, logReader, lines>>

(* LogErr, LogWarn, LogInfo: not subject to the limit. *)
LogInfo(w) ==
    /\ logWriter[w].at = "out" /\ lines < MaxLines
    /\ logWriter' = [logWriter EXCEPT ![w].at = "enter"]
    /\ lines' = lines + 1
    /\ UNCHANGED <<First, Length, CurrentWriters, NewEntry, removalVars, logReader, rate>>

-----------------------------------------------------------------------------
Contended(n) == n >= BUFFERED_LOG_ENTRIES - 1

(* LogRingWrite: the line is dropped if there is contention ... *)
EnterRing(w) ==
    /\ logWriter[w].at = "enter"
    /\ CurrentWriters' = CurrentWriters + 1
    /\ logWriter' = [logWriter EXCEPT ![w].at = IF Contended(CurrentWriters + 1) THEN "leave" ELSE "claim"]
    /\ UNCHANGED <<First, Length, NewEntry, removalVars, logReader, lines, rate>>

(* ... or gets the place after the last one, the oldest one's if need be. *)
ClaimEntry(w) ==
    LET full == Length = BUFFERED_LOG_ENTRIES
    IN  /\ logWriter[w].at = "claim"
        /\ First' = IF full THEN (First + 1) % BUFFERED_LOG_ENTRIES ELSE First
        /\ Length' = IF full THEN Length ELSE Length + 1
        /\ logWriter' = [logWriter EXCEPT ![w].at = "write"]
        /\ UNCHANGED <<CurrentWriters, NewEntry, removalVars, logReader, lines, rate>>

WriteEntry(w) ==
    /\ logWriter[w].at = "write"
    /\ NewEntry' = TRUE
    /\ logWriter' = [logWriter EXCEPT ![w].at = "leave"]
    /\ UNCHANGED <<First, Length, CurrentWriters, removalVars, logReader, lines, rate>>

LeaveRing(w) ==
    /\ logWriter[w].at = "leave"
    /\ CurrentWriters' = CurrentWriters - 1
    /\ logWriter' = [logWriter EXCEPT ![w].at = IF logWriter[w].checking THEN "check" ELSE "out"]
    /\ UNCHANGED <<First, Length, NewEntry, removalVars, logReader, lines, rate>>

-----------------------------------------------------------------------------
LogReaderAt(r, at, to) ==
    /\ logReader[r] = at
    /\ logReader' = [logReader EXCEPT ![r] = to]
    /\ UNCHANGED <<CurrentWriters, removalVars, logWriter, lines, rate>>

(* ReadLogLine, if the device is not being removed. *)
ReadLogLine(r) ==
    /\ ~IsDeviceRemoving
    /\ \E at \in {"gone", "out"} : LogReaderAt(r, at, "check")
    /\ UNCHANGED <<First, Length, NewEntry>>

(* LogRingRead: WhileFalse is read before every look at the ring ... *)
CheckWhileFalse(r) ==
    /\ LogReaderAt(r, "check", IF IsDeviceRemoving THEN "out" ELSE "look")
    /\ UNCHANGED <<First, Length, NewEntry>>

(* ... whose first entry is taken out, or the reader waits. *)
TakeEntry(r) ==
    /\ LogReaderAt(r, "look", IF Length > 0 THEN "copy" ELSE "wait")
    /\ First' = IF Length > 0 THEN (First + 1) % BUFFERED_LOG_ENTRIES ELSE First
    /\ Length' = IF Length > 0 THEN Length - 1 ELSE Length
    /\ UNCHANGED NewEntry

(* The entry was copied, or the wait cancelled. *)
ReturnLine(r) ==
    /\ LogReaderAt(r, "copy", "out") \/ LogReaderAt(r, "wait", "gone")
    /\ UNCHANGED <<First, Length, NewEntry>>

(* The event ends the wait of one reader, no matter which. *)
WakeReader(r) ==
    /\ NewEntry
    /\ NewEntry' = FALSE
    /\ LogReaderAt(r, "wait", "check")
    /\ UNCHANGED <<First, Length>>

(* Mutant: a removal wakes no reader. *)
RemoveSilently(removing) ==
    /\ ~announcing /\ IsDeviceRemoving # removing
    /\ IsDeviceRemoving' = removing
    /\ UNCHANGED <<First, Length, CurrentWriters, NewEntry, announcing, logWriter, logReader, lines, rate>>

(* DispatchPnp: a removal is asked for or happens, or the question is withdrawn ... *)
DispatchPnp(removing) ==
    /\ ~announcing /\ IsDeviceRemoving # removing
    /\ IsDeviceRemoving' = removing
    /\ announcing' = removing
    /\ UNCHANGED <<First, Length, CurrentWriters, NewEntry, logWriter, logReader, lines, rate>>

(* ... and the event of a removal. *)
AnnounceRemoval ==
    /\ announcing
    /\ announcing' = FALSE
    /\ NewEntry' = TRUE
    /\ UNCHANGED <<First, Length, CurrentWriters, IsDeviceRemoving, logWriter, logReader, lines, rate>>

LogRingNext ==
    \/ \E w \in Writers :
         \/ BeginCheck(w) \/ NewInterval(w) \/ EndCheck(w) \/ LogInfo(w) \/ EnterRing(w) \/ ClaimEntry(w)
         \/ WriteEntry(w) \/ LeaveRing(w)
    \/ \E r \in LogReaders :
         \/ ReadLogLine(r) \/ CheckWhileFalse(r) \/ TakeEntry(r) \/ ReturnLine(r) \/ WakeReader(r)
    \/ IntervalEnds \/ AnnounceRemoval
    \/ \E removing \in BOOLEAN : DispatchPnp(removing)

LogRingSpec == LogRingInit /\ [][LogRingNext]_logVars

-----------------------------------------------------------------------------
Asleep ==
    /\ \E r \in LogReaders : logReader[r] = "wait"
    /\ \A r \in LogReaders : logReader[r] \in {"wait", "gone"}

(* The readers do not all sleep through what they wait for (logging.c,
   LogRingRead): while all who read wait and there are lines, or the device goes,
   the event is set, or the writer or DispatchPnp is still to set it.  Where one
   thread reads, as the library's does (api/logger.c), that is every reader.  Of
   several, the one KeSetEvent of a removal lets one leave, which does not pass it
   on, so that the others may sleep on.                                      *)
ReaderAwake ==
    Asleep =>
      /\ Length > 0 => NewEntry \/ \E w \in Writers : logWriter[w].at = "write"
      /\ IsDeviceRemoving => NewEntry \/ announcing
=============================================================================
