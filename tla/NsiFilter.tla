----------------------------- MODULE NsiFilter -----------------------------
(***************************************************************************)
(* Watching the MTU of the adapters (nsi.c).  The first adapter attaches   *)
(* a filter device on top of \Device\Nsi and registers for interface       *)
(* changes, the last one detaches it, while requests pass through the      *)
(* filter and notifications walk the list of adapters.                     *)
(*                                                                         *)
(* Two locks are involved: FilterLock, held over all of NsiActivate and    *)
(* NsiDeactivate, and DeviceListLock, shared by the notifications.  A      *)
(* rundown reference keeps the filter device alive under a request.        *)
(***************************************************************************)
EXTENDS Naturals, FiniteSets

CONSTANTS Adapters,     \* adapters that come and go
          Watchers,     \* threads that send requests or run notifications
          MtuRequests,  \* values of NlMtu a row may carry
          MTU_MAX,
          DefaultMtu,   \* 1500 - DATA_PACKET_MINIMUM_LENGTH
          NoThread

\* NoThread stands for nobody; the sizes are numbers of bytes.
ASSUME NsiAssumption ==
    /\ NoThread \notin Adapters
    /\ MtuRequests \subseteq Nat /\ MTU_MAX \in Nat /\ DefaultMtu \in Nat

VARIABLES DeviceList,    \* adapters that are watched
          Mtu,           \* what each of them knows of its MTU
          FilterLock,    \* the adapter that holds it, or NoThread
          doing,         \* per adapter: where NsiActivate or NsiDeactivate is
          attached,      \* resources of Attach that are held
          FilterRundown, \* "completed", "active" or "draining"
          request        \* per thread: the request or notification in progress

nsiVars == <<DeviceList, Mtu, FilterLock, doing, attached, FilterRundown, request>>

NsiIdle == [at |-> "idle", of |-> NoThread, mtu |-> 0, add |-> FALSE, irp |-> FALSE, old |-> FALSE]

NsiInit ==
    /\ DeviceList = {}
    /\ Mtu = [d \in Adapters |-> 0]
    /\ FilterLock = NoThread
    /\ doing = [d \in Adapters |-> "out"]
    /\ attached = {}
    /\ FilterRundown = "completed"
    /\ request = [t \in Watchers |-> NsiIdle]

\* Threads inside the shared DeviceListLock, and under the rundown.
Inside == {t \in Watchers : request[t].at = "walking"}

InFilter == {t \in Watchers : request[t].irp /\ request[t].at \in {"passed", "walking", "leaving"}}

-----------------------------------------------------------------------------
(* NsiActivate, Attach.                                                    *)

GoesTo(d, where) == doing' = [doing EXCEPT ![d] = where]

\* The memory of the adapter is new: its MTU is not known.
NsiActivate(d) ==
    /\ doing[d] = "out"
    /\ FilterLock = NoThread
    /\ FilterLock' = d
    /\ Mtu' = [Mtu EXCEPT ![d] = 0]
    /\ GoesTo(d, IF DeviceList = {} THEN "notify" ELSE "insert")
    /\ UNCHANGED <<DeviceList, attached, FilterRundown, request>>

\* What each step of Attach acquires, and the step it is followed by.
Acquired == [notify |-> "IpInterfaceNotifier", open |-> "NsiFileObject", create |-> "FilterDevice"]

After == [notify |-> "open", open |-> "create", create |-> "stack"]

Attach(d) ==
    /\ doing[d] \in DOMAIN After
    /\ attached' = attached \cup {Acquired[doing[d]]}
    /\ FilterRundown' = IF doing[d] = "create" THEN "active" ELSE FilterRundown
    /\ GoesTo(d, After[doing[d]])
    /\ UNCHANGED <<DeviceList, Mtu, FilterLock, request>>

\* The filter joins the stack; its own reference replaces the file's.
AttachToStack(d) ==
    /\ doing[d] = "stack"
    /\ attached' = (attached \cup {"Stack", "NsiDevice"}) \ {"NsiFileObject"}
    /\ GoesTo(d, "insert")
    /\ UNCHANGED <<DeviceList, Mtu, FilterLock, FilterRundown, request>>

\* A step of Attach fails; a rundown that was made active is waited for.
AttachFails(d) ==
    /\ doing[d] \in {"notify", "open", "create", "stack"}
    /\ FilterRundown' = IF doing[d] = "stack" THEN "draining" ELSE FilterRundown
    /\ GoesTo(d, "undo")
    /\ UNCHANGED <<DeviceList, Mtu, FilterLock, attached, request>>

\* The labels of Attach: CancelMibChangeNotify2 waits for callbacks.
UndoAttach(d) ==
    /\ doing[d] = "undo"
    /\ InFilter = {}
    /\ \A t \in Watchers : request[t].irp \/ request[t].at = "idle"
    /\ attached' = {}
    /\ FilterRundown' = "completed"
    /\ FilterLock' = NoThread
    /\ GoesTo(d, "out")
    /\ UNCHANGED <<DeviceList, Mtu, request>>

InsertDevice(d) ==
    /\ doing[d] = "insert"
    /\ Inside = {}
    /\ DeviceList' = DeviceList \cup {d}
    /\ FilterLock' = NoThread
    /\ GoesTo(d, "in")
    /\ UNCHANGED <<Mtu, attached, FilterRundown, request>>

-----------------------------------------------------------------------------
(* NsiDeactivate, Detach.                                                  *)

NsiDeactivate(d) ==
    /\ doing[d] = "in"
    /\ FilterLock = NoThread
    /\ FilterLock' = d
    /\ GoesTo(d, "remove")
    /\ UNCHANGED <<DeviceList, Mtu, attached, FilterRundown, request>>

(* Mutant: the entry is removed without the exclusive DeviceListLock.      *)
RemoveUnlocked(d) ==
    /\ doing[d] = "remove"
    /\ DeviceList' = DeviceList \ {d}
    /\ IF DeviceList = {d}
       THEN GoesTo(d, "cancel") /\ UNCHANGED FilterLock
       ELSE GoesTo(d, "out") /\ FilterLock' = NoThread
    /\ UNCHANGED <<Mtu, attached, FilterRundown, request>>

RemoveDevice(d) ==
    /\ doing[d] = "remove"
    /\ Inside = {}
    /\ DeviceList' = DeviceList \ {d}
    /\ IF DeviceList = {d}
       THEN GoesTo(d, "cancel") /\ UNCHANGED FilterLock
       ELSE GoesTo(d, "out") /\ FilterLock' = NoThread
    /\ UNCHANGED <<Mtu, attached, FilterRundown, request>>

\* CancelMibChangeNotify2 returns when no notification is running; then the
\* filter leaves the stack.
CancelAndDetach(d) ==
    /\ doing[d] = "cancel"
    /\ \A t \in Watchers : request[t].irp \/ request[t].at = "idle"
    /\ attached' = attached \ {"IpInterfaceNotifier", "Stack"}
    /\ FilterRundown' = "draining"
    /\ GoesTo(d, "drain")
    /\ UNCHANGED <<DeviceList, Mtu, FilterLock, request>>

\* ExWaitForRundownProtectionRelease, then the device is deleted.
DeleteFilter(d) ==
    /\ doing[d] = "drain"
    /\ InFilter = {}
    /\ attached' = {}
    /\ FilterRundown' = "completed"
    /\ FilterLock' = NoThread
    /\ request' = [t \in Watchers |-> [request[t] EXCEPT !.old = request[t].at = "arrived"]]
    /\ GoesTo(d, "out")
    /\ UNCHANGED <<DeviceList, Mtu>>

-----------------------------------------------------------------------------
(* FilterDispatch and IpInterfaceChangeNotification.                       *)

\* A request for an adapter's MTU enters the stack at the filter.
RequestArrives(t) ==
    /\ request[t].at = "idle"
    /\ "Stack" \in attached
    /\ \E d \in Adapters, m \in MtuRequests :
         request' = [request EXCEPT ![t] =
                       [at |-> "arrived", of |-> d, mtu |-> m, add |-> FALSE, irp |-> TRUE, old |-> FALSE]]
    /\ UNCHANGED <<DeviceList, Mtu, FilterLock, doing, attached, FilterRundown>>

\* Without rundown protection the request is forwarded past the filter.  A
\* request for a filter device that was deleted is recognised by its pointer,
\* unless the memory is used again for the new one.
FilterDispatch(t) ==
    /\ request[t].at = "arrived"
    /\ \/ /\ FilterRundown = "active"
          /\ request' = [request EXCEPT ![t].at = "passed"]
       \/ /\ FilterRundown # "active" \/ request[t].old
          /\ request' = [request EXCEPT ![t] = NsiIdle]
    /\ UNCHANGED <<DeviceList, Mtu, FilterLock, doing, attached, FilterRundown>>

\* TryBuildMTURow: a row that sets no MTU is not followed up.
ValidMtu(m) == m # 0

\* Under the shared lock the adapter of the row is looked for on the list.
Walk(t, row) ==
    request' = [request EXCEPT ![t] =
                  IF row.of \in DeviceList THEN [row EXCEPT !.at = "walking"]
                  ELSE IF row.irp THEN [row EXCEPT !.at = "leaving"]
                  ELSE NsiIdle]

\* The answer of the NSI driver: only a completed success is followed up.
NsiAnswers(t) ==
    /\ request[t].at = "passed"
    /\ \/ ValidMtu(request[t].mtu) /\ Walk(t, request[t])
       \/ request' = [request EXCEPT ![t].at = "leaving"]
    /\ UNCHANGED <<DeviceList, Mtu, FilterLock, doing, attached, FilterRundown>>

\* A notification: a new interface, or a parameter that changed.
IpInterfaceChangeNotification(t) ==
    /\ request[t].at = "idle"
    /\ "IpInterfaceNotifier" \in attached
    /\ \E d \in Adapters, m \in MtuRequests, add \in BOOLEAN :
         /\ add \/ ValidMtu(m)
         /\ Walk(t, [NsiIdle EXCEPT !.of = d, !.mtu = m, !.add = add])
    /\ UNCHANGED <<DeviceList, Mtu, FilterLock, doing, attached, FilterRundown>>

Capped(m) == IF m < MTU_MAX THEN m ELSE MTU_MAX

\* The MTU of a new interface without a size of its own is set to the
\* default, if the system lets it be set.
NewMtus(row) ==
    IF ~row.add THEN {Capped(row.mtu)}
    ELSE IF Mtu[row.of] # 0 THEN {Mtu[row.of]}
    ELSE {Capped(row.mtu)} \cup (IF row.mtu \in {0, MTU_MAX} THEN {DefaultMtu} ELSE {})

\* The adapter that was found is written and the lock released.
WriteMtu(t) ==
    /\ request[t].at = "walking"
    /\ \E m \in NewMtus(request[t]) : Mtu' = [Mtu EXCEPT ![request[t].of] = m]
    /\ request' = IF request[t].irp THEN [request EXCEPT ![t].at = "leaving"]
                  ELSE [request EXCEPT ![t] = NsiIdle]
    /\ UNCHANGED <<DeviceList, FilterLock, doing, attached, FilterRundown>>

\* ExReleaseRundownProtection.
LeaveFilter(t) ==
    /\ request[t].at = "leaving"
    /\ request' = [request EXCEPT ![t] = NsiIdle]
    /\ UNCHANGED <<DeviceList, Mtu, FilterLock, doing, attached, FilterRundown>>

NsiNext ==
    \/ \E d \in Adapters :
         \/ NsiActivate(d) \/ Attach(d) \/ AttachToStack(d) \/ AttachFails(d)
         \/ UndoAttach(d) \/ InsertDevice(d) \/ NsiDeactivate(d) \/ RemoveDevice(d)
         \/ CancelAndDetach(d) \/ DeleteFilter(d)
    \/ \E t \in Watchers :
         \/ RequestArrives(t) \/ FilterDispatch(t) \/ NsiAnswers(t)
         \/ IpInterfaceChangeNotification(t) \/ WriteMtu(t) \/ LeaveFilter(t)

NsiSpec == NsiInit /\ [][NsiNext]_nsiVars

-----------------------------------------------------------------------------
(* Whoever comes or goes meanwhile: a notification never writes an adapter *)
(* whose memory NsiDeactivate has let go of, a request never calls down    *)
(* from a filter device that is deleted or to an NSI device nobody holds   *)
(* a reference to, and outside of the two procedures the filter is         *)
(* attached completely or not at all, as there are adapters or not.        *)
FilterSound ==
    /\ \A t \in Inside : doing[request[t].of] # "out"
    /\ InFilter # {} => /\ "FilterDevice" \in attached
                        /\ attached \cap {"NsiFileObject", "NsiDevice"} # {}
    /\ FilterLock = NoThread =>
         attached = IF DeviceList = {} THEN {}
                    ELSE {"IpInterfaceNotifier", "FilterDevice", "Stack", "NsiDevice"}
=============================================================================
