-------------------------- MODULE AdapterLogging --------------------------
(***************************************************************************)
(* The user-mode log reader of an adapter (api/logger.c): the thread that  *)
(* reads log lines from the driver, AmneziaWGSetAdapterLogging, which      *)
(* starts it and cancels it, and AmneziaWGCloseAdapter, which stops it and *)
(* frees the adapter it uses.  The driver holds a read back until there is *)
(* a line, the read is cancelled or the device is removed.                 *)
(***************************************************************************)
EXTENDS Naturals

CONSTANTS MaxReopens,  \* attempts to open the device again (10 in the code)
          MaxChanges   \* bound on the calls that change the logging

VARIABLES LogState,   \* Adapter->LogState
          LogThread,  \* a thread handle is kept in the adapter
          reader,     \* where the reader thread is
          reopens,    \* its attempts so far to open the device again
          caller,     \* where the caller of the library is
          wanted,     \* the state it is setting
          current,    \* the state it read first
          devicePresent,     \* the device exists
          freed,      \* the adapter is freed
          changes

alVars == <<LogState, LogThread, reader, reopens, caller, wanted, current, devicePresent, freed, changes>>

LogStates == {"OFF", "ON", "ON_WITH_PREFIX"}

LoggingInit ==
    /\ LogState = "OFF"
    /\ LogThread = FALSE
    /\ reader = "none"
    /\ reopens = 0
    /\ caller = "idle"
    /\ wanted = "OFF"
    /\ current = "OFF"
    /\ devicePresent = TRUE
    /\ freed = FALSE
    /\ changes = 0

-----------------------------------------------------------------------------
(* LogReaderThread.                                                        *)

ReaderGoes(to) ==
    /\ reader' = to
    /\ UNCHANGED <<LogThread, caller, wanted, current, devicePresent, freed, changes>>

\* A reader that cannot open the device turns the logging off and ends.
OpenDevice ==
    /\ reader = "open"
    /\ IF devicePresent
       THEN ReaderGoes("check") /\ UNCHANGED <<LogState, reopens>>
       ELSE ReaderGoes("ended") /\ LogState' = "OFF" /\ UNCHANGED reopens

CheckState ==
    /\ reader = "check"
    /\ ReaderGoes(IF LogState = "OFF" THEN "ended" ELSE "issue")
    /\ UNCHANGED <<LogState, reopens>>

\* The request reaches the driver and waits there.
IssueRead ==
    /\ reader = "issue"
    /\ ReaderGoes(IF devicePresent THEN "blocked" ELSE "failed")
    /\ UNCHANGED <<LogState, reopens>>

\* A line arrives and is passed to the logger of the application.
LineArrives ==
    /\ reader = "blocked"
    /\ ReaderGoes("check")
    /\ UNCHANGED <<LogState, reopens>>

RemovalEndsRead ==
    /\ reader = "blocked"
    /\ ~devicePresent
    /\ ReaderGoes("failed")
    /\ UNCHANGED <<LogState, reopens>>

\* An aborted read is followed by a pause of five seconds.
ReadFailed ==
    /\ reader = "failed"
    /\ ReaderGoes(IF LogState = "OFF" THEN "ended" ELSE "reopen")
    /\ reopens' = 0
    /\ UNCHANGED LogState

Reopen ==
    /\ reader = "reopen"
    /\ \/ /\ devicePresent
          /\ ReaderGoes("check")
          /\ UNCHANGED <<LogState, reopens>>
       \/ /\ ~devicePresent
          /\ reopens < MaxReopens /\ LogState # "OFF"
          /\ ReaderGoes("reopen")
          /\ reopens' = reopens + 1
          /\ UNCHANGED LogState
       \/ /\ ~devicePresent
          /\ reopens >= MaxReopens \/ LogState = "OFF"
          /\ ReaderGoes("ended")
          /\ LogState' = "OFF"
          /\ UNCHANGED reopens

ReaderNext ==
    \/ OpenDevice \/ CheckState \/ IssueRead \/ LineArrives \/ RemovalEndsRead
    \/ ReadFailed \/ Reopen

-----------------------------------------------------------------------------
(* AmneziaWGSetAdapterLogging and AmneziaWGCloseAdapter.                   *)

CallerGoes(to) ==
    /\ caller' = to
    /\ UNCHANGED <<reopens, devicePresent>>

\* The application changes the logging.
SetAdapterLogging(s) ==
    /\ caller = "idle"
    /\ ~freed
    /\ changes < MaxChanges
    /\ changes' = changes + 1
    /\ wanted' = s
    /\ current' = LogState
    /\ CallerGoes(IF LogState = s THEN "idle" ELSE "write")
    /\ UNCHANGED <<LogState, LogThread, reader, freed>>

\* AmneziaWGCloseAdapter turns the logging off first.
CloseAdapter ==
    /\ caller = "idle"
    /\ ~freed
    /\ wanted' = "CLOSE"
    /\ current' = LogState
    /\ CallerGoes(IF LogState = "OFF" THEN "free" ELSE "write")
    /\ UNCHANGED <<LogState, LogThread, reader, freed, changes>>

Target == IF wanted = "CLOSE" THEN "OFF" ELSE wanted

Return == IF wanted = "CLOSE" THEN "free" ELSE "idle"

WriteState ==
    /\ caller = "write"
    /\ LogState' = Target
    /\ CallerGoes(IF current # "OFF" /\ Target = "OFF" /\ LogThread THEN "cancel"
                  ELSE IF current = "OFF" /\ Target # "OFF" /\ ~LogThread THEN "create"
                  ELSE Return)
    /\ UNCHANGED <<LogThread, reader, wanted, current, freed, changes>>

\* The new thread, or an error that leaves LogState as it is.
CreateReader ==
    /\ caller = "create"
    /\ \/ LogThread' = TRUE /\ reader' = "open"
       \/ UNCHANGED <<LogThread, reader>>
    /\ CallerGoes(Return)
    /\ UNCHANGED <<LogState, wanted, current, freed, changes>>

\* CancelSynchronousIo reaches only a read that is waiting in the driver.
Cancel ==
    /\ caller = "cancel"
    /\ reader' = IF reader = "blocked" THEN "failed" ELSE reader
    /\ CallerGoes("wait")
    /\ UNCHANGED <<LogState, LogThread, wanted, current, freed, changes>>

(* Mutant: the thread is cancelled once and then waited for.               *)
WaitsForever ==
    /\ caller = "wait"
    /\ reader = "ended"
    /\ LogThread' = FALSE
    /\ reader' = "none"
    /\ CallerGoes(Return)
    /\ UNCHANGED <<LogState, wanted, current, freed, changes>>

\* Every 100 ms the thread is cancelled again until it has ended.
WaitForReader ==
    /\ caller = "wait"
    /\ IF reader = "ended"
       THEN /\ LogThread' = FALSE
            /\ reader' = "none"
            /\ CallerGoes(Return)
       ELSE CallerGoes("cancel") /\ UNCHANGED <<LogThread, reader>>
    /\ UNCHANGED <<LogState, wanted, current, freed, changes>>

\* The handle of a thread that ended by itself is not closed here.
FreeAdapter ==
    /\ caller = "free"
    /\ freed' = TRUE
    /\ CallerGoes("idle")
    /\ UNCHANGED <<LogState, LogThread, reader, wanted, current, changes>>

CallerStep == WriteState \/ CreateReader \/ Cancel \/ WaitForReader \/ FreeAdapter

\* The device is removed, or comes back, under the reader.
DeviceComesOrGoes ==
    /\ ~freed
    /\ devicePresent' = ~devicePresent
    /\ UNCHANGED <<LogState, LogThread, reader, reopens, caller, wanted, current, freed, changes>>

LoggingNext ==
    \/ ReaderNext
    \/ \E s \in LogStates : SetAdapterLogging(s)
    \/ CloseAdapter
    \/ CallerStep
    \/ DeviceComesOrGoes

ReaderStep == OpenDevice \/ CheckState \/ IssueRead \/ ReadFailed \/ Reopen

\* Threads are scheduled; no line need ever arrive.
LoggingFairness ==
    /\ WF_alVars(ReaderStep)
    /\ WF_alVars(CallerStep)

LoggingSpec == LoggingInit /\ [][LoggingNext]_alVars /\ LoggingFairness

-----------------------------------------------------------------------------
(* Closing an adapter returns: a cancellation that comes before the reader *)
(* waits in the driver is lost, and must be followed by another.           *)
CloseReturns == wanted = "CLOSE" ~> freed
=============================================================================
