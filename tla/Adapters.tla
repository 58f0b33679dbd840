------------------------------ MODULE Adapters ------------------------------
(***************************************************************************)
(* Adapters as the user-mode library manages them (api/adapter.c,          *)
(* api/driver.c, api/namespace.c): processes create, open and close        *)
(* adapters, install and delete the driver, and sweep up the device nodes  *)
(* that killed processes left behind.  Two named mutexes, shared by all    *)
(* processes, order them; a process may be killed at any step, which       *)
(* abandons its mutexes and closes its software devices.                   *)
(*                                                                         *)
(* A device node is "none", a "stub" without a driver, a "phantom" that is *)
(* registered but not present, "running", "disabled" for an upgrade of     *)
(* the driver, or "failed".                                                *)
(***************************************************************************)
EXTENDS Naturals, FiniteSets

CONSTANTS Processes,
          Instances,   \* device instances
          Versions,    \* driver versions, ordered by date and number
          OurVersion,  \* per process: the version its library carries
          MaxCalls,    \* per process: bound on its calls
          MaxKills,    \* bound on the processes killed
          Nobody

ASSUME AdaptersAssumption ==
    /\ Nobody \notin Processes \X {"main", "sweeper"}
    /\ OurVersion \in [Processes -> Versions]
    /\ MaxCalls \in [Processes -> Nat]
    /\ \E v \in Versions : \A w \in Versions : v <= w

VARIABLES node,       \* per instance: the state of its device node
          swDevice,   \* per instance: the process that holds its SwDevice
          owned,      \* adapters of each process that were created and not closed
          rootNodes,  \* processes whose temporary ROOT node is registered
          store,      \* driver versions installed
          driverMutex, deviceMutex,  \* the thread that holds each, or Nobody
          thread,     \* per thread: where it is and its local variables
          alive,      \* processes that were not killed
          calls,      \* per process: calls it may still make
          abandoned   \* adapters left disabled by an upgrade that failed, or
                      \* removed by the late close of their previous owner

apVars == <<node, swDevice, owned, rootNodes, store, driverMutex, deviceMutex, thread,
            alive, calls, abandoned>>

\* A process calls the library from one thread; the library sweeps in another.
AllThreads == Processes \X {"main", "sweeper"}

Call(at, then, i) == [at |-> at, then |-> then, of |-> i, list |-> {}, failed |-> FALSE]

NoCall == Call("idle", "idle", Nobody)

AdaptersInit ==
    /\ node = [i \in Instances |-> "none"]
    /\ swDevice = [i \in Instances |-> Nobody]
    /\ owned = [p \in Processes |-> {}]
    /\ rootNodes = {}
    /\ store \in {{}, {CHOOSE v \in Versions : \A w \in Versions : v <= w}}
    /\ driverMutex = Nobody
    /\ deviceMutex = Nobody
    /\ thread = [t \in AllThreads |-> NoCall]
    /\ alive = Processes
    /\ calls = MaxCalls
    /\ abandoned = {}

-----------------------------------------------------------------------------
(* Helpers.                                                                *)

MovesTo(t, at) == thread' = [thread EXCEPT ![t].at = at]

\* NamespaceTake...Mutex: an abandoned mutex is taken like a free one, and
\* the thread that holds one may take it again.
Takes(mutex, t) == mutex \in {Nobody, t}

Mutexes == <<driverMutex, deviceMutex>>

Others == <<owned, alive, calls, abandoned>>

World == <<node, swDevice, rootNodes, store>>

\* The sweep in the background is started unless one is running.
QueueSweep(p, th) ==
    IF th[<<p, "sweeper">>].at = "idle"
    THEN [th EXCEPT ![<<p, "sweeper">>] = Call("sweepRoot", "idle", Nobody)]
    ELSE th

\* A failed creation closes the adapter, which also starts the sweep; then
\* the adapters that were disabled are enabled.
GivesUp(t) ==
    thread' = QueueSweep(t[1], [thread EXCEPT ![t] = [@ EXCEPT !.at = "enable", !.failed = TRUE]])

Enter(p, at, then, i) ==
    /\ p \in alive
    /\ thread[<<p, "main">>].at = "idle"
    /\ calls[p] > 0
    /\ calls' = [calls EXCEPT ![p] = @ - 1]
    /\ thread' = [thread EXCEPT ![<<p, "main">>] = Call(at, then, i)]

-----------------------------------------------------------------------------
(* CleanupOrphanedDevices, in the background or inside of a call.          *)

TakeDriverForSweep(t) ==
    /\ thread[t].at = "sweepRoot"
    /\ Takes(driverMutex, t)
    /\ driverMutex' = t
    /\ MovesTo(t, "removeRoot")
    /\ UNCHANGED <<deviceMutex, World, Others>>

(* Mutant: the driver mutex is kept while the device mutex is waited for.  *)
KeepDriverMutex(t) ==
    /\ thread[t].at = "removeRoot"
    /\ rootNodes' = {}
    /\ MovesTo(t, "sweepSwd")
    /\ UNCHANGED <<node, swDevice, store, Mutexes, Others>>

\* Steps 1 and 2: every ROOT node is a leftover of an installation.
RemoveRootNodes(t) ==
    /\ thread[t].at = "removeRoot"
    /\ rootNodes' = {}
    /\ driverMutex' = Nobody
    /\ MovesTo(t, "sweepSwd")
    /\ UNCHANGED <<node, swDevice, store, deviceMutex, Others>>

\* A node that is not present, or has a problem.
Orphaned(i) == node[i] \in {"stub", "phantom", "disabled", "failed"}

(* Mutant: the sweep does not wait for the device mutex.                   *)
SweepUnlocked(t) ==
    /\ thread[t].at = "sweepSwd"
    /\ \E removed \in SUBSET {i \in Instances : Orphaned(i)} :
         node' = [i \in Instances |-> IF i \in removed THEN "none" ELSE node[i]]
    /\ MovesTo(t, thread[t].then)
    /\ UNCHANGED <<swDevice, rootNodes, store, Mutexes, Others>>

\* Step 3, under the device mutex; a removal may fail.
SweepSwd(t) ==
    /\ thread[t].at = "sweepSwd"
    /\ Takes(deviceMutex, t)
    /\ \E removed \in SUBSET {i \in Instances : Orphaned(i)} :
         node' = [i \in Instances |-> IF i \in removed THEN "none" ELSE node[i]]
    /\ MovesTo(t, thread[t].then)
    /\ UNCHANGED <<swDevice, rootNodes, store, Mutexes, Others>>

-----------------------------------------------------------------------------
(* DriverInstall and AmneziaWGDeleteDriver.                                *)

\* The driver mutex and the temporary device, which may not be creatable.
BeginInstall(t) ==
    /\ thread[t].at = "install"
    /\ Takes(driverMutex, t)
    /\ driverMutex' = t
    /\ \/ MovesTo(t, "enumerate") /\ rootNodes' = rootNodes \cup {t[1]}
       \/ /\ thread' = [thread EXCEPT ![t] = [@ EXCEPT !.at = "endInstall", !.failed = TRUE]]
          /\ UNCHANGED rootNodes
    /\ UNCHANGED <<node, swDevice, store, deviceMutex, Others>>

IsNewer(v, w) == v > w

Outdated(t) == {v \in store : IsNewer(OurVersion[t[1]], v)}

\* An outdated driver is in the store: the adapters that use it go first.
EnumerateDrivers(t) ==
    /\ thread[t].at = "enumerate"
    /\ MovesTo(t, IF Outdated(t) # {} THEN "disable" ELSE "copy")
    /\ UNCHANGED <<World, Mutexes, Others>>

\* DisableAllOurAdapters: an adapter that cannot be disabled is left alone.
DisableAdapter(t) ==
    /\ thread[t].at = "disable"
    /\ \E i \in Instances :
         /\ node[i] = "running"
         /\ node' = [node EXCEPT ![i] = "disabled"]
         /\ thread' = [thread EXCEPT ![t].list = @ \cup {i}]
    /\ UNCHANGED <<swDevice, rootNodes, store, Mutexes, Others>>

\* The old driver is given time to unload and is removed, if it can be.
RemoveOutdated(t) ==
    /\ thread[t].at = "disable"
    /\ \E gone \in SUBSET Outdated(t) : store' = store \ gone
    /\ MovesTo(t, "copy")
    /\ UNCHANGED <<node, swDevice, rootNodes, Mutexes, Others>>

\* A driver that is not older than ours is used as it is; otherwise ours
\* is extracted and installed.
CopyDriver(t) ==
    /\ thread[t].at = "copy"
    /\ \/ /\ \E v \in store : ~IsNewer(OurVersion[t[1]], v)
          /\ MovesTo(t, "endInstall")
          /\ UNCHANGED store
       \/ /\ \A v \in store : IsNewer(OurVersion[t[1]], v)
          /\ MovesTo(t, "endInstall")
          /\ store' = store \cup {OurVersion[t[1]]}
       \/ /\ \A v \in store : IsNewer(OurVersion[t[1]], v)
          /\ thread' = [thread EXCEPT ![t] =
                          [@ EXCEPT !.at = IF thread[t].list # {} THEN "enableHere"
                                                                 ELSE "endInstall",
                                    !.failed = TRUE]]
          /\ UNCHANGED store
    /\ UNCHANGED <<node, swDevice, rootNodes, Mutexes, Others>>

\* The temporary node goes, then the mutex.
EndInstall(t) ==
    /\ thread[t].at = "endInstall"
    /\ rootNodes' = rootNodes \ {t[1]}
    /\ driverMutex' = Nobody
    /\ MovesTo(t, IF thread[t].failed THEN "unlock" ELSE "createStub")
    /\ UNCHANGED <<node, swDevice, store, deviceMutex, Others>>

DeleteDriver(p) ==
    /\ Enter(p, "sweepRoot", "delete", Nobody)
    /\ UNCHANGED <<World, Mutexes, owned, alive, abandoned>>

\* A driver that a present device uses is not removed.
RemoveDrivers(t) ==
    /\ thread[t].at = "delete"
    /\ Takes(driverMutex, t)
    /\ \E gone \in SUBSET store :
         /\ (\E i \in Instances : node[i] = "running") => gone = {}
         /\ store' = store \ gone
    /\ MovesTo(t, "idle")
    /\ UNCHANGED <<node, swDevice, rootNodes, Mutexes, Others>>

-----------------------------------------------------------------------------
(* EnableAllOurAdapters, after the call or at once when it failed.         *)

EnableAdapter(t) ==
    /\ thread[t].at \in {"enable", "enableHere"}
    /\ \E i \in thread[t].list :
         /\ \/ /\ node[i] = "disabled" /\ store # {}
               /\ node' = [node EXCEPT ![i] = "running"]
               /\ UNCHANGED abandoned
            \/ /\ abandoned' = abandoned \cup {i}
               /\ UNCHANGED node
         /\ thread' = [thread EXCEPT ![t].list = @ \ {i}]
    /\ UNCHANGED <<swDevice, rootNodes, store, Mutexes, owned, alive, calls>>

EnabledAll(t) ==
    /\ thread[t].at \in {"enable", "enableHere"}
    /\ thread[t].list = {}
    /\ MovesTo(t, IF thread[t].at = "enable" THEN "unlock" ELSE "endInstall")
    /\ UNCHANGED <<World, Mutexes, Others>>

-----------------------------------------------------------------------------
(* AmneziaWGCreateAdapter, AmneziaWGOpenAdapter, AmneziaWGCloseAdapter.    *)

CreateAdapter(p, i) ==
    /\ Enter(p, "lock", "sweepRoot", i)
    /\ node[i] \in {"none", "phantom"}
    /\ UNCHANGED <<World, Mutexes, owned, alive, abandoned>>

OpenAdapter(p) ==
    /\ Enter(p, "lock", "find", Nobody)
    /\ UNCHANGED <<World, Mutexes, owned, alive, abandoned>>

\* The device mutex is held until the call returns.  Creating continues
\* with the sweep and then with the driver.
LockDevice(t) ==
    /\ thread[t].at = "lock"
    /\ Takes(deviceMutex, t)
    /\ deviceMutex' = t
    /\ thread' = [thread EXCEPT ![t] = [@ EXCEPT !.at = thread[t].then, !.then = "install"]]
    /\ UNCHANGED <<driverMutex, World, Others>>

\* Opening looks for a present adapter of that name and reads its data; if
\* that fails, the empty adapter is closed, which starts the sweep.
FindAdapter(t) ==
    /\ thread[t].at = "find"
    /\ \/ (\E i \in Instances : node[i] = "running") /\ MovesTo(t, "unlock")
       \/ thread' = QueueSweep(t[1], [thread EXCEPT ![t].at = "unlock"])
    /\ UNCHANGED <<World, Mutexes, Others>>

\* SwDeviceCreate without a hardware id, unless something fails before.
CreateStub(t) ==
    /\ thread[t].at = "createStub"
    /\ \/ /\ node[thread[t].of] \in {"none", "phantom"}
          /\ node' = [node EXCEPT ![thread[t].of] = "stub"]
          /\ swDevice' = [swDevice EXCEPT ![thread[t].of] = t[1]]
          /\ MovesTo(t, "closeStub")
       \/ GivesUp(t) /\ UNCHANGED <<node, swDevice>>
    /\ UNCHANGED <<rootNodes, store, Mutexes, Others>>

\* SuggestedInstanceId is written and the stub closed: it stays registered.
CloseStub(t) ==
    /\ thread[t].at = "closeStub"
    /\ node' = [node EXCEPT ![thread[t].of] = "phantom"]
    /\ swDevice' = [swDevice EXCEPT ![thread[t].of] = Nobody]
    /\ MovesTo(t, "createDevice") \/ GivesUp(t)
    /\ UNCHANGED <<rootNodes, store, Mutexes, Others>>

\* SwDeviceCreate with the hardware id, if it succeeds: the device starts
\* if a driver is installed and works.
CreateDevice(t) ==
    /\ thread[t].at = "createDevice"
    /\ \/ /\ \E state \in {"failed"} \cup (IF store # {} THEN {"running"} ELSE {}) :
               node' = [node EXCEPT ![thread[t].of] = state]
          /\ swDevice' = [swDevice EXCEPT ![thread[t].of] = t[1]]
          /\ MovesTo(t, "waitInterface")
       \/ GivesUp(t) /\ UNCHANGED <<node, swDevice>>
    /\ UNCHANGED <<rootNodes, store, Mutexes, Others>>

\* The interface appears, its data is read and its name set; or not, and
\* the adapter is closed again.
WaitForInterface(t) ==
    /\ thread[t].at = "waitInterface"
    /\ \/ node[thread[t].of] = "running" /\ MovesTo(t, "enable")
       \/ thread' = [thread EXCEPT ![t] =
                        [@ EXCEPT !.at = "closeSw", !.then = "enable", !.failed = TRUE]]
    /\ UNCHANGED <<World, Mutexes, Others>>

CloseAdapter(p, i) ==
    /\ i \in owned[p]
    /\ Enter(p, "closeSw", "sweep", i)
    /\ owned' = [owned EXCEPT ![p] = @ \ {i}]
    /\ UNCHANGED <<World, Mutexes, alive, abandoned>>

\* SwDeviceClose: the device is no longer present.
CloseSwDevice(t) ==
    /\ thread[t].at = "closeSw"
    /\ swDevice' = [swDevice EXCEPT ![thread[t].of] = Nobody]
    /\ node' = [node EXCEPT ![thread[t].of] = IF @ = "none" THEN @ ELSE "phantom"]
    /\ MovesTo(t, "remove")
    /\ UNCHANGED <<rootNodes, store, Mutexes, Others>>

\* AdapterRemoveInstance, which may fail; then the background sweep.  Closing
\* takes no mutex: another process may have created the instance again.
RemoveInstance(t) ==
    /\ thread[t].at = "remove"
    /\ \/ /\ node' = [node EXCEPT ![thread[t].of] = "none"]
          /\ abandoned' = IF node[thread[t].of] \notin {"none", "phantom"}
                          THEN abandoned \cup {thread[t].of} ELSE abandoned
       \/ UNCHANGED <<node, abandoned>>
    /\ thread' = QueueSweep(t[1], [thread EXCEPT ![t].at =
                                     IF thread[t].then = "sweep" THEN "idle" ELSE thread[t].then])
    /\ UNCHANGED <<swDevice, rootNodes, store, Mutexes, owned, alive, calls>>

\* The device mutex is released and the call returns.
Unlock(t) ==
    /\ thread[t].at = "unlock"
    /\ deviceMutex' = Nobody
    /\ owned' = IF thread[t].of # Nobody /\ ~thread[t].failed
                THEN [owned EXCEPT ![t[1]] = @ \cup {thread[t].of}] ELSE owned
    /\ thread' = QueueSweep(t[1], [thread EXCEPT ![t] = NoCall])
    /\ UNCHANGED <<driverMutex, World, alive, calls, abandoned>>

-----------------------------------------------------------------------------
(* A process is killed: the system closes what it had open.                *)

Abandoned(mutex, p) ==
    IF mutex = Nobody THEN mutex ELSE IF mutex[1] = p THEN Nobody ELSE mutex

Kill(p) ==
    /\ p \in alive
    /\ Cardinality(Processes \ alive) < MaxKills
    /\ alive' = alive \ {p}
    /\ owned' = [owned EXCEPT ![p] = {}]
    /\ node' = [i \in Instances |->
                 IF swDevice[i] = p /\ node[i] # "none" THEN "phantom" ELSE node[i]]
    /\ swDevice' = [i \in Instances |-> IF swDevice[i] = p THEN Nobody ELSE swDevice[i]]
    /\ driverMutex' = Abandoned(driverMutex, p)
    /\ deviceMutex' = Abandoned(deviceMutex, p)
    /\ abandoned' = abandoned \cup thread[<<p, "main">>].list
    /\ thread' = [t \in AllThreads |-> IF t[1] = p THEN NoCall ELSE thread[t]]
    /\ UNCHANGED <<rootNodes, store, calls>>

AdaptersNext ==
    \/ \E p \in Processes :
         \/ DeleteDriver(p) \/ OpenAdapter(p) \/ Kill(p)
         \/ \E i \in Instances : CreateAdapter(p, i) \/ CloseAdapter(p, i)
    \/ \E t \in AllThreads :
         \/ TakeDriverForSweep(t) \/ RemoveRootNodes(t) \/ SweepSwd(t)
         \/ BeginInstall(t) \/ EnumerateDrivers(t) \/ DisableAdapter(t) \/ RemoveOutdated(t)
         \/ CopyDriver(t) \/ EndInstall(t) \/ RemoveDrivers(t)
         \/ EnableAdapter(t) \/ EnabledAll(t)
         \/ LockDevice(t) \/ FindAdapter(t) \/ CreateStub(t) \/ CloseStub(t) \/ CreateDevice(t)
         \/ WaitForInterface(t) \/ CloseSwDevice(t) \/ RemoveInstance(t) \/ Unlock(t)

AdaptersSpec == AdaptersInit /\ [][AdaptersNext]_apVars

-----------------------------------------------------------------------------
(* What is in use is never swept up: the adapter of a living process runs, *)
(* or is disabled by an upgrade that is still under way and will enable it *)
(* again; a node being created is still there; so is the temporary node of *)
(* an installation.  Excepted are the adapters that an upgrade, killed or  *)
(* failing, left disabled, and the ones that the close of a previous owner *)
(* removed, since closing takes no mutex.                                  *)
InUseSurvives ==
    /\ \A p \in Processes : \A i \in owned[p] \ abandoned :
         \/ node[i] = "running"
         \/ node[i] = "disabled" /\ \E t \in AllThreads : i \in thread[t].list
    /\ \A t \in AllThreads :
         /\ thread[t].at \in {"closeStub", "waitInterface"} =>
              node[thread[t].of] # "none" \/ thread[t].of \in abandoned
         /\ thread[t].at \in {"enumerate", "disable", "copy", "enableHere"} => t[1] \in rootNodes

(* The two mutexes are never waited for in a circle, whatever calls run in *)
(* whatever processes: who waits for the device mutex does not hold the    *)
(* driver mutex, unless it has the device mutex already.                   *)
NoMutexCycle ==
    \A t \in AllThreads :
      thread[t].at \in {"lock", "sweepSwd"} /\ driverMutex = t => deviceMutex = t
=============================================================================
