--------------------------- MODULE AdaptersProofs ---------------------------
(***************************************************************************)
(* The library's adapters, proved for any number of processes, instances   *)
(* and driver versions: the two mutexes are never waited for in a circle   *)
(* (NoMutexCycle) and what is in use survives (InUseSurvives).             *)
(*                                                                         *)
(* Neither is inductive.  MutexInv ties the mutexes to where the threads   *)
(* are, PlaceInv ties where a thread is to the call it is in.  UseInv says *)
(* who has laid claim to an instance: one thread at a time, whose          *)
(* instance nobody owns, and what it made of the node so far.              *)
(***************************************************************************)
EXTENDS Adapters, TLAPS

-----------------------------------------------------------------------------
(* Adapters: types.                                                        *)

NodeStates == {"none", "stub", "phantom", "running", "disabled", "failed"}

DriverPlaces == {"removeRoot", "enumerate", "disable", "copy", "enableHere", "endInstall"}

SweepPlaces == {"sweepRoot", "removeRoot", "sweepSwd"}

InstallPlaces == {"install", "enumerate", "disable", "copy", "enableHere", "endInstall"}

CreatePlaces == {"createStub", "closeStub", "createDevice", "waitInterface"}

ClosePlaces == {"closeSw", "remove"}

Places == {"idle", "delete", "lock", "find", "enable", "unlock"}
            \cup SweepPlaces \cup InstallPlaces \cup CreatePlaces \cup ClosePlaces

ThreadStates ==
    [at : Places,
     then : {"idle", "sweepRoot", "find", "delete", "sweep", "install", "enable"},
     of : Instances \cup {Nobody}, list : SUBSET Instances, failed : BOOLEAN]

AdaptersTypeOK ==
    /\ node \in [Instances -> NodeStates]
    /\ swDevice \in [Instances -> Processes \cup {Nobody}]
    /\ owned \in [Processes -> SUBSET Instances]
    /\ rootNodes \subseteq Processes
    /\ store \subseteq Versions
    /\ driverMutex \in AllThreads \cup {Nobody}
    /\ deviceMutex \in AllThreads \cup {Nobody}
    /\ thread \in [AllThreads -> ThreadStates]
    /\ alive \subseteq Processes
    /\ calls \in [Processes -> Nat]
    /\ abandoned \subseteq Instances

(* Who is inside of what a mutex protects holds it, and nobody else does.  *)
(* A call holds the device mutex from LockDevice, which changes where it   *)
(* goes on, to Unlock.                                                     *)
InDriver(t) == thread[t].at \in DriverPlaces
InDevice(t) == thread[t].then \in {"install", "enable"}

MutexInv ==
    /\ \A t \in AllThreads : InDriver(t) <=> driverMutex = t
    /\ \A t \in AllThreads : InDevice(t) <=> deviceMutex = t

(* Where a thread is tells what kind of call it is in, and what it knows.  *)
CallInv(t) ==
    LET th == thread[t] IN
    /\ t[2] = "sweeper" => th.at \in {"idle"} \cup SweepPlaces /\ th.then = "idle"
    /\ th.at = "idle" => th.then \in {"idle", "sweep", "delete"}
    /\ th.at \in SweepPlaces => th.then \in {"idle", "delete", "install"}
    /\ th.at = "lock" => th.then \in {"sweepRoot", "find"}
    /\ th.at = "delete" => th.then = "delete"
    /\ th.at \in ClosePlaces => th.then \in {"sweep", "enable"}
    /\ th.at \in InstallPlaces \cup CreatePlaces => th.then = "install"
    /\ th.at \in {"enable", "unlock", "find"} => th.then \in {"install", "enable"}

InstanceInv(t) ==
    LET th == thread[t] IN
    /\ th.at \in InstallPlaces \cup CreatePlaces \cup ClosePlaces => th.of \in Instances
    /\ th.at = "lock" /\ th.then = "sweepRoot" => th.of \in Instances
    /\ th.at = "lock" /\ th.then = "find" => th.of = Nobody
    /\ th.at = "find" => th.of = Nobody
    /\ th.at \in SweepPlaces /\ th.then = "install" => th.of \in Instances

ListInv(t) ==
    LET th == thread[t] IN
    /\ th.list # {} => /\ th.at \in {"disable", "copy", "enableHere", "endInstall", "enable"}
                                      \cup CreatePlaces \cup ClosePlaces
                       /\ th.then \in {"install", "enable"}
    /\ th.at \in {"lock", "install", "enumerate", "disable", "copy"}
                   \cup SweepPlaces \cup CreatePlaces => ~th.failed
    /\ th.at = "endInstall" /\ th.failed => th.list = {}
    /\ th.at = "enableHere" => th.failed
    /\ th.at \in ClosePlaces /\ th.then = "enable" => th.failed

RootInv(t) ==
    thread[t].at \in {"enumerate", "disable", "copy", "enableHere"} => t[1] \in rootNodes

PlaceInv == \A t \in AllThreads : CallInv(t) /\ InstanceInv(t) /\ ListInv(t) /\ RootInv(t)

(* An adapter in use runs, or is disabled by an upgrade that will enable   *)
(* it, and its software device is held by the process that owns it.        *)
InUse(i) ==
    \/ node[i] = "running"
    \/ node[i] = "disabled" /\ \E t \in AllThreads : i \in thread[t].list

OwnedInv ==
    \A p \in Processes : \A i \in owned[p] \ abandoned : InUse(i) /\ swDevice[i] = p

(* A thread lays claim to an instance from the time it has created its     *)
(* node, and from the time it has begun to close it.                       *)
Created(t) ==
    /\ thread[t].at \in {"enable", "unlock"}
    /\ thread[t].of # Nobody
    /\ ~thread[t].failed

Claims(t) ==
    thread[t].at \in {"closeStub", "createDevice", "waitInterface", "closeSw"} \/ Created(t)

(* What is claimed is owned by nobody and claimed by nobody else ...       *)
ClaimInv(t) ==
    Claims(t) /\ thread[t].of \notin abandoned =>
      /\ \A p \in Processes : thread[t].of \notin owned[p]
      /\ \A u \in AllThreads : Claims(u) /\ u # t => thread[u].of # thread[t].of

(* ... and its node is what the claimant made of it.                       *)
NodeInv(t) ==
    LET i == thread[t].of IN
    i \notin abandoned =>
      /\ thread[t].at = "closeStub" => node[i] = "stub" /\ swDevice[i] = t[1]
      /\ thread[t].at = "createDevice" => node[i] \in {"none", "phantom"}
      /\ thread[t].at = "waitInterface" => node[i] \in {"running", "failed"} /\ swDevice[i] = t[1]
      /\ thread[t].at = "closeSw" /\ thread[t].then = "sweep" => InUse(i) /\ swDevice[i] = t[1]
      /\ Created(t) => node[i] = "running" /\ swDevice[i] = t[1]

UseInv == OwnedInv /\ \A t \in AllThreads : ClaimInv(t) /\ NodeInv(t)

-----------------------------------------------------------------------------
(* Adapters: every step keeps the types.                                   *)

LEMMA CallTyped ==
    /\ NoCall \in ThreadStates
    /\ \A i \in Instances \cup {Nobody} :
         /\ Call("sweepRoot", "idle", i) \in ThreadStates
         /\ Call("sweepRoot", "delete", i) \in ThreadStates
         /\ Call("lock", "sweepRoot", i) \in ThreadStates
         /\ Call("lock", "find", i) \in ThreadStates
         /\ Call("closeSw", "sweep", i) \in ThreadStates
BY DEF NoCall, Call, ThreadStates, Places, SweepPlaces, ClosePlaces

LEMMA ThreadMoved ==
    ASSUME NEW th \in [AllThreads -> ThreadStates], NEW t \in AllThreads
    PROVE  /\ \A at \in Places :
                /\ [th EXCEPT ![t].at = at] \in [AllThreads -> ThreadStates]
                /\ [th EXCEPT ![t] = [@ EXCEPT !.at = at, !.failed = TRUE]]
                     \in [AllThreads -> ThreadStates]
                /\ [th EXCEPT ![t] = [@ EXCEPT !.at = at, !.then = "install"]]
                     \in [AllThreads -> ThreadStates]
                /\ [th EXCEPT ![t] = [@ EXCEPT !.at = at, !.then = "enable", !.failed = TRUE]]
                     \in [AllThreads -> ThreadStates]
           /\ \A i \in Instances :
                /\ [th EXCEPT ![t].list = @ \cup {i}] \in [AllThreads -> ThreadStates]
                /\ [th EXCEPT ![t].list = @ \ {i}] \in [AllThreads -> ThreadStates]
<1>1. ASSUME NEW at \in Places
      PROVE  /\ [th[t] EXCEPT !.at = at] \in ThreadStates
             /\ [th[t] EXCEPT !.at = at, !.failed = TRUE] \in ThreadStates
             /\ [th[t] EXCEPT !.at = at, !.then = "install"] \in ThreadStates
             /\ [th[t] EXCEPT !.at = at, !.then = "enable", !.failed = TRUE] \in ThreadStates
  BY DEF ThreadStates
<1>2. ASSUME NEW i \in Instances
      PROVE  /\ [th[t] EXCEPT !.list = @ \cup {i}] \in ThreadStates
             /\ [th[t] EXCEPT !.list = @ \ {i}] \in ThreadStates
  BY DEF ThreadStates
<1> QED BY <1>1, <1>2

(* QueueSweep leaves the threads alone, but for a sweeper that was idle.   *)
LEMMA SweepQueued ==
    ASSUME NEW p \in Processes, NEW th \in [AllThreads -> ThreadStates]
    PROVE  /\ QueueSweep(p, th) \in [AllThreads -> ThreadStates]
           /\ \A u \in AllThreads :
                \/ QueueSweep(p, th)[u] = th[u]
                \/ /\ u = <<p, "sweeper">> /\ th[u].at = "idle"
                   /\ QueueSweep(p, th)[u] = Call("sweepRoot", "idle", Nobody)
<1>1. <<p, "sweeper">> \in AllThreads BY DEF AllThreads
<1>2. Call("sweepRoot", "idle", Nobody) \in ThreadStates BY CallTyped
<1> QED BY <1>1, <1>2 DEF QueueSweep

LEMMA ThreadsTyped ==
    ASSUME AdaptersTypeOK, PlaceInv, AdaptersNext
    PROVE  thread' \in [AllThreads -> ThreadStates]
<1>0. thread \in [AllThreads -> ThreadStates] BY DEF AdaptersTypeOK
<1>1. ASSUME NEW p \in Processes, DeleteDriver(p)
      PROVE  thread' \in [AllThreads -> ThreadStates]
  BY <1>1, <1>0, CallTyped, ThreadMoved
  DEF DeleteDriver, Enter, MovesTo, AllThreads, Places, SweepPlaces, InstallPlaces,
      CreatePlaces, ClosePlaces
<1>2. ASSUME NEW p \in Processes, OpenAdapter(p)
      PROVE  thread' \in [AllThreads -> ThreadStates]
  BY <1>2, <1>0, CallTyped, ThreadMoved
  DEF OpenAdapter, Enter, MovesTo, AllThreads, Places, SweepPlaces, InstallPlaces,
      CreatePlaces, ClosePlaces
<1>3. ASSUME NEW p \in Processes, Kill(p) PROVE thread' \in [AllThreads -> ThreadStates]
  BY <1>0, <1>3, CallTyped DEF Kill
<1>4. ASSUME NEW p \in Processes, NEW i \in Instances, CreateAdapter(p, i)
      PROVE  thread' \in [AllThreads -> ThreadStates]
  BY <1>4, <1>0, CallTyped, ThreadMoved
  DEF CreateAdapter, Enter, MovesTo, AllThreads, Places, SweepPlaces, InstallPlaces,
      CreatePlaces, ClosePlaces
<1>5. ASSUME NEW p \in Processes, NEW i \in Instances, CloseAdapter(p, i)
      PROVE  thread' \in [AllThreads -> ThreadStates]
  BY <1>5, <1>0, CallTyped, ThreadMoved
  DEF CloseAdapter, Enter, MovesTo, AllThreads, Places, SweepPlaces, InstallPlaces,
      CreatePlaces, ClosePlaces
<1>6. ASSUME NEW t \in AllThreads, TakeDriverForSweep(t)
      PROVE  thread' \in [AllThreads -> ThreadStates]
  BY <1>6, <1>0, CallTyped, ThreadMoved
  DEF TakeDriverForSweep, MovesTo, AllThreads, Places, SweepPlaces, InstallPlaces,
      CreatePlaces, ClosePlaces
<1>7. ASSUME NEW t \in AllThreads, RemoveRootNodes(t)
      PROVE  thread' \in [AllThreads -> ThreadStates]
  BY <1>7, <1>0, CallTyped, ThreadMoved
  DEF RemoveRootNodes, MovesTo, AllThreads, Places, SweepPlaces, InstallPlaces,
      CreatePlaces, ClosePlaces
<1>8. ASSUME NEW t \in AllThreads, SweepSwd(t)
      PROVE  thread' \in [AllThreads -> ThreadStates]
  <2>1. thread[t].then \in Places
    BY <1>0, <1>8
    DEF SweepSwd, PlaceInv, CallInv, Places, SweepPlaces, InstallPlaces, CreatePlaces,
        ClosePlaces
  <2> QED BY <1>0, <2>1, <1>8, ThreadMoved DEF SweepSwd, MovesTo
<1>9. ASSUME NEW t \in AllThreads, BeginInstall(t)
      PROVE  thread' \in [AllThreads -> ThreadStates]
  <2>1. CASE MovesTo(t, "enumerate")
    BY <1>0, <2>1, ThreadMoved DEF MovesTo, Places, InstallPlaces
  <2>2. CASE thread' = [thread EXCEPT ![t] = [@ EXCEPT !.at = "endInstall", !.failed = TRUE]]
    BY <1>0, <2>2, ThreadMoved DEF Places, InstallPlaces
  <2> QED BY <1>9, <2>1, <2>2 DEF BeginInstall
<1>10. ASSUME NEW t \in AllThreads, EnumerateDrivers(t)
      PROVE  thread' \in [AllThreads -> ThreadStates]
  BY <1>10, <1>0, CallTyped, ThreadMoved
  DEF EnumerateDrivers, MovesTo, AllThreads, Places, SweepPlaces, InstallPlaces,
      CreatePlaces, ClosePlaces
<1>11. ASSUME NEW t \in AllThreads, DisableAdapter(t)
      PROVE  thread' \in [AllThreads -> ThreadStates]
  <2>1. PICK i \in Instances : thread' = [thread EXCEPT ![t].list = @ \cup {i}]
    BY <1>11 DEF DisableAdapter
  <2> QED BY <1>0, <2>1, ThreadMoved
<1>12. ASSUME NEW t \in AllThreads, RemoveOutdated(t)
      PROVE  thread' \in [AllThreads -> ThreadStates]
  BY <1>12, <1>0, CallTyped, ThreadMoved
  DEF RemoveOutdated, MovesTo, AllThreads, Places, SweepPlaces, InstallPlaces,
      CreatePlaces, ClosePlaces
<1>13. ASSUME NEW t \in AllThreads, CopyDriver(t)
      PROVE  thread' \in [AllThreads -> ThreadStates]
  <2>1. CASE MovesTo(t, "endInstall")
    BY <1>0, <2>1, ThreadMoved DEF MovesTo, Places, InstallPlaces
  <2> DEFINE next == IF thread[t].list # {} THEN "enableHere" ELSE "endInstall"
  <2>2. next \in Places BY DEF Places, InstallPlaces
  <2>3. CASE thread' = [thread EXCEPT ![t] = [@ EXCEPT !.at = next, !.failed = TRUE]]
    <3> HIDE DEF next
    <3> QED BY <1>0, <2>2, <2>3, ThreadMoved
  <2> QED BY <1>13, <2>1, <2>3 DEF CopyDriver
<1>14. ASSUME NEW t \in AllThreads, EndInstall(t)
      PROVE  thread' \in [AllThreads -> ThreadStates]
  BY <1>14, <1>0, CallTyped, ThreadMoved
  DEF EndInstall, MovesTo, AllThreads, Places, SweepPlaces, InstallPlaces, CreatePlaces,
      ClosePlaces
<1>15. ASSUME NEW t \in AllThreads, RemoveDrivers(t)
      PROVE  thread' \in [AllThreads -> ThreadStates]
  BY <1>15, <1>0, CallTyped, ThreadMoved
  DEF RemoveDrivers, MovesTo, AllThreads, Places, SweepPlaces, InstallPlaces,
      CreatePlaces, ClosePlaces
<1>16. ASSUME NEW t \in AllThreads, EnableAdapter(t)
      PROVE  thread' \in [AllThreads -> ThreadStates]
  <2>1. PICK i \in Instances : thread' = [thread EXCEPT ![t].list = @ \ {i}]
    BY <1>0, <1>16 DEF EnableAdapter, ThreadStates
  <2> QED BY <1>0, <2>1, ThreadMoved
<1>17. ASSUME NEW t \in AllThreads, EnabledAll(t)
      PROVE  thread' \in [AllThreads -> ThreadStates]
  BY <1>17, <1>0, CallTyped, ThreadMoved
  DEF EnabledAll, MovesTo, AllThreads, Places, SweepPlaces, InstallPlaces, CreatePlaces,
      ClosePlaces
<1>18. ASSUME NEW t \in AllThreads, LockDevice(t)
      PROVE  thread' \in [AllThreads -> ThreadStates]
  <2>1. thread[t].then \in Places
    BY <1>0, <1>18
    DEF LockDevice, PlaceInv, CallInv, Places, SweepPlaces, InstallPlaces, CreatePlaces,
        ClosePlaces
  <2> QED BY <1>0, <2>1, <1>18, ThreadMoved DEF LockDevice
<1>19. ASSUME NEW t \in AllThreads, FindAdapter(t)
      PROVE  thread' \in [AllThreads -> ThreadStates]
  <2>1. t[1] \in Processes BY DEF AllThreads
  <2>2. [thread EXCEPT ![t].at = "unlock"] \in [AllThreads -> ThreadStates]
    BY <1>0, ThreadMoved DEF Places
  <2>3. CASE MovesTo(t, "unlock") BY <2>2, <2>3 DEF MovesTo
  <2>4. CASE thread' = QueueSweep(t[1], [thread EXCEPT ![t].at = "unlock"])
    BY <2>1, <2>2, <2>4, SweepQueued
  <2> QED BY <1>19, <2>3, <2>4 DEF FindAdapter
<1>20. ASSUME NEW t \in AllThreads, CreateStub(t)
      PROVE  thread' \in [AllThreads -> ThreadStates]
  <2>1. t[1] \in Processes BY DEF AllThreads
  <2>2. [thread EXCEPT ![t] = [@ EXCEPT !.at = "enable", !.failed = TRUE]]
          \in [AllThreads -> ThreadStates]
    BY <1>0, ThreadMoved DEF Places
  <2>3. CASE GivesUp(t) BY <2>1, <2>2, <2>3, SweepQueued DEF GivesUp
  <2>4. CASE MovesTo(t, "closeStub")
    BY <1>0, <2>4, ThreadMoved DEF MovesTo, Places, CreatePlaces
  <2> QED BY <1>20, <2>3, <2>4 DEF CreateStub
<1>21. ASSUME NEW t \in AllThreads, CloseStub(t)
      PROVE  thread' \in [AllThreads -> ThreadStates]
  <2>1. t[1] \in Processes BY DEF AllThreads
  <2>2. [thread EXCEPT ![t] = [@ EXCEPT !.at = "enable", !.failed = TRUE]]
          \in [AllThreads -> ThreadStates]
    BY <1>0, ThreadMoved DEF Places
  <2>3. CASE GivesUp(t) BY <2>1, <2>2, <2>3, SweepQueued DEF GivesUp
  <2>4. CASE MovesTo(t, "createDevice")
    BY <1>0, <2>4, ThreadMoved DEF MovesTo, Places, CreatePlaces
  <2> QED BY <1>21, <2>3, <2>4 DEF CloseStub
<1>22. ASSUME NEW t \in AllThreads, CreateDevice(t)
      PROVE  thread' \in [AllThreads -> ThreadStates]
  <2>1. t[1] \in Processes BY DEF AllThreads
  <2>2. [thread EXCEPT ![t] = [@ EXCEPT !.at = "enable", !.failed = TRUE]]
          \in [AllThreads -> ThreadStates]
    BY <1>0, ThreadMoved DEF Places
  <2>3. CASE GivesUp(t) BY <2>1, <2>2, <2>3, SweepQueued DEF GivesUp
  <2>4. CASE MovesTo(t, "waitInterface")
    BY <1>0, <2>4, ThreadMoved DEF MovesTo, Places, CreatePlaces
  <2> QED BY <1>22, <2>3, <2>4 DEF CreateDevice
<1>23. ASSUME NEW t \in AllThreads, WaitForInterface(t)
      PROVE  thread' \in [AllThreads -> ThreadStates]
  <2>1. CASE MovesTo(t, "enable")
    BY <1>0, <2>1, ThreadMoved DEF MovesTo, Places
  <2>2. CASE thread' = [thread EXCEPT ![t] =
                          [@ EXCEPT !.at = "closeSw", !.then = "enable", !.failed = TRUE]]
    BY <1>0, <2>2, ThreadMoved DEF Places, ClosePlaces
  <2> QED BY <1>23, <2>1, <2>2 DEF WaitForInterface
<1>24. ASSUME NEW t \in AllThreads, CloseSwDevice(t)
      PROVE  thread' \in [AllThreads -> ThreadStates]
  BY <1>24, <1>0, CallTyped, ThreadMoved
  DEF CloseSwDevice, MovesTo, AllThreads, Places, SweepPlaces, InstallPlaces,
      CreatePlaces, ClosePlaces
<1>25. ASSUME NEW t \in AllThreads, RemoveInstance(t)
      PROVE  thread' \in [AllThreads -> ThreadStates]
  <2> DEFINE next == IF thread[t].then = "sweep" THEN "idle" ELSE thread[t].then
  <2>1. next \in Places
    BY <1>0, <1>25
    DEF RemoveInstance, PlaceInv, CallInv, Places, SweepPlaces, InstallPlaces,
        CreatePlaces, ClosePlaces
  <2>2. t[1] \in Processes BY DEF AllThreads
  <2>3. [thread EXCEPT ![t].at = next] \in [AllThreads -> ThreadStates]
    BY <1>0, <2>1, ThreadMoved
  <2> QED BY <1>25, <2>2, <2>3, SweepQueued DEF RemoveInstance
<1>26. ASSUME NEW t \in AllThreads, Unlock(t)
      PROVE  thread' \in [AllThreads -> ThreadStates]
  <2>1. t[1] \in Processes BY DEF AllThreads
  <2>2. [thread EXCEPT ![t] = NoCall] \in [AllThreads -> ThreadStates]
    BY <1>0, CallTyped
  <2> QED BY <1>26, <2>1, <2>2, SweepQueued DEF Unlock
<1> QED
  BY <1>1, <1>2, <1>3, <1>4, <1>5, <1>6, <1>7, <1>8, <1>9, <1>10, <1>11,
     <1>12, <1>13, <1>14, <1>15, <1>16, <1>17, <1>18, <1>19, <1>20, <1>21, <1>22,
     <1>23, <1>24, <1>25, <1>26
  DEF AdaptersNext

LEMMA WorldTyped ==
    ASSUME AdaptersAssumption, AdaptersTypeOK, PlaceInv, AdaptersNext,
           thread' \in [AllThreads -> ThreadStates]
    PROVE  AdaptersTypeOK'
<1>0. \A t \in AllThreads :
        /\ t[1] \in Processes
        /\ thread[t].list \subseteq Instances /\ thread[t].of \in Instances \cup {Nobody}
        /\ thread[t].at = "remove" => thread[t].of \in Instances
  BY DEF AllThreads, AdaptersTypeOK, ThreadStates, PlaceInv, InstanceInv, ClosePlaces
<1> USE DEF AdaptersTypeOK, NodeStates
<1>1. ASSUME NEW p \in Processes, DeleteDriver(p) PROVE AdaptersTypeOK'
  BY <1>1, <1>0, AdaptersAssumption DEF DeleteDriver, Enter, Mutexes, Others, World
<1>2. ASSUME NEW p \in Processes, OpenAdapter(p) PROVE AdaptersTypeOK'
  BY <1>2, <1>0, AdaptersAssumption DEF OpenAdapter, Enter, Mutexes, Others, World
<1>3. ASSUME NEW p \in Processes, Kill(p) PROVE AdaptersTypeOK'
  <2>1. driverMutex' \in AllThreads \cup {Nobody} /\ deviceMutex' \in AllThreads \cup {Nobody}
    BY <1>3 DEF Kill, Abandoned
  <2>2. node' \in [Instances -> NodeStates] /\ swDevice' \in [Instances -> Processes \cup {Nobody}]
    BY <1>3 DEF Kill
  <2>3. <<p, "main">> \in AllThreads BY DEF AllThreads
  <2> QED BY <1>3, <1>0, <2>1, <2>2, <2>3 DEF Kill
<1>4. ASSUME NEW p \in Processes, NEW i \in Instances, CreateAdapter(p, i)
      PROVE  AdaptersTypeOK'
  BY <1>4, <1>0, AdaptersAssumption DEF CreateAdapter, Enter, Mutexes, Others, World
<1>5. ASSUME NEW p \in Processes, NEW i \in Instances, CloseAdapter(p, i)
      PROVE  AdaptersTypeOK'
  BY <1>5, <1>0, AdaptersAssumption DEF CloseAdapter, Enter, Mutexes, Others, World
<1>6. ASSUME NEW t \in AllThreads, TakeDriverForSweep(t) PROVE AdaptersTypeOK'
  BY <1>6, <1>0, AdaptersAssumption DEF TakeDriverForSweep, Mutexes, Others, World
<1>7. ASSUME NEW t \in AllThreads, RemoveRootNodes(t) PROVE AdaptersTypeOK'
  BY <1>7, <1>0, AdaptersAssumption DEF RemoveRootNodes, Mutexes, Others, World
<1>8. ASSUME NEW t \in AllThreads, SweepSwd(t) PROVE AdaptersTypeOK'
  BY <1>8, <1>0, AdaptersAssumption DEF SweepSwd, Mutexes, Others, World
<1>9. ASSUME NEW t \in AllThreads, BeginInstall(t) PROVE AdaptersTypeOK'
  BY <1>9, <1>0, AdaptersAssumption DEF BeginInstall, Mutexes, Others, World
<1>10. ASSUME NEW t \in AllThreads, EnumerateDrivers(t) PROVE AdaptersTypeOK'
  BY <1>10, <1>0, AdaptersAssumption DEF EnumerateDrivers, Mutexes, Others, World
<1>11. ASSUME NEW t \in AllThreads, DisableAdapter(t) PROVE AdaptersTypeOK'
  BY <1>11, <1>0, AdaptersAssumption DEF DisableAdapter, Mutexes, Others, World
<1>12. ASSUME NEW t \in AllThreads, RemoveOutdated(t) PROVE AdaptersTypeOK'
  BY <1>12, <1>0, AdaptersAssumption DEF RemoveOutdated, Mutexes, Others, World
<1>13. ASSUME NEW t \in AllThreads, CopyDriver(t) PROVE AdaptersTypeOK'
  BY <1>13, <1>0, AdaptersAssumption DEF CopyDriver, Mutexes, Others, World
<1>14. ASSUME NEW t \in AllThreads, EndInstall(t) PROVE AdaptersTypeOK'
  BY <1>14, <1>0, AdaptersAssumption DEF EndInstall, Mutexes, Others, World
<1>15. ASSUME NEW t \in AllThreads, RemoveDrivers(t) PROVE AdaptersTypeOK'
  BY <1>15, <1>0, AdaptersAssumption DEF RemoveDrivers, Mutexes, Others, World
<1>16. ASSUME NEW t \in AllThreads, EnableAdapter(t) PROVE AdaptersTypeOK'
  BY <1>16, <1>0, AdaptersAssumption DEF EnableAdapter, Mutexes, Others, World
<1>17. ASSUME NEW t \in AllThreads, EnabledAll(t) PROVE AdaptersTypeOK'
  BY <1>17, <1>0, AdaptersAssumption DEF EnabledAll, Mutexes, Others, World
<1>18. ASSUME NEW t \in AllThreads, LockDevice(t) PROVE AdaptersTypeOK'
  BY <1>18, <1>0, AdaptersAssumption DEF LockDevice, Mutexes, Others, World
<1>19. ASSUME NEW t \in AllThreads, FindAdapter(t) PROVE AdaptersTypeOK'
  BY <1>19, <1>0, AdaptersAssumption DEF FindAdapter, Mutexes, Others, World
<1>20. ASSUME NEW t \in AllThreads, CreateStub(t) PROVE AdaptersTypeOK'
  BY <1>20, <1>0, AdaptersAssumption DEF CreateStub, GivesUp, Mutexes, Others, World
<1>21. ASSUME NEW t \in AllThreads, CloseStub(t) PROVE AdaptersTypeOK'
  BY <1>21, <1>0, AdaptersAssumption DEF CloseStub, GivesUp, Mutexes, Others, World
<1>22. ASSUME NEW t \in AllThreads, CreateDevice(t) PROVE AdaptersTypeOK'
  BY <1>22, <1>0, AdaptersAssumption DEF CreateDevice, GivesUp, Mutexes, Others, World
<1>23. ASSUME NEW t \in AllThreads, WaitForInterface(t) PROVE AdaptersTypeOK'
  BY <1>23, <1>0, AdaptersAssumption DEF WaitForInterface, Mutexes, Others, World
<1>24. ASSUME NEW t \in AllThreads, CloseSwDevice(t) PROVE AdaptersTypeOK'
  BY <1>24, <1>0, AdaptersAssumption DEF CloseSwDevice, Mutexes, Others, World
<1>25. ASSUME NEW t \in AllThreads, RemoveInstance(t) PROVE AdaptersTypeOK'
  <2>1. thread[t].of \in Instances BY <1>25, <1>0 DEF RemoveInstance
  <2>2. abandoned' \subseteq Instances BY <1>25, <2>1 DEF RemoveInstance
  <2>3. node' \in [Instances -> NodeStates] BY <1>25 DEF RemoveInstance
  <2> QED BY <1>25, <2>2, <2>3 DEF RemoveInstance, Mutexes
<1>26. ASSUME NEW t \in AllThreads, Unlock(t) PROVE AdaptersTypeOK'
  <2>1. owned' \in [Processes -> SUBSET Instances]
    BY <1>26, <1>0 DEF Unlock
  <2> QED BY <1>26, <1>0, <2>1 DEF Unlock, World
<1> QED
  BY <1>1, <1>2, <1>3, <1>4, <1>5, <1>6, <1>7, <1>8, <1>9, <1>10, <1>11,
     <1>12, <1>13, <1>14, <1>15, <1>16, <1>17, <1>18, <1>19, <1>20, <1>21, <1>22,
     <1>23, <1>24, <1>25, <1>26
  DEF AdaptersNext

-----------------------------------------------------------------------------
(* Adapters: where the steps lead.                                         *)

(* Only t moves, but for a sweeper that it starts.                         *)
OnlyMoves(t) ==
    \A u \in AllThreads \ {t} :
      \/ thread'[u] = thread[u]
      \/ /\ u[2] = "sweeper" /\ thread[u].at = "idle"
         /\ thread'[u] = Call("sweepRoot", "idle", Nobody)

Becomes(t, at, then, list, failed) ==
    /\ OnlyMoves(t)
    /\ thread'[t].at = at
    /\ thread'[t].then = then
    /\ thread'[t].of = thread[t].of
    /\ thread'[t].list = list
    /\ thread'[t].failed = failed

GoesTo(t, at) == Becomes(t, at, thread[t].then, thread[t].list, thread[t].failed)

LEMMA MovesToGoes ==
    ASSUME thread \in [AllThreads -> ThreadStates], NEW t \in AllThreads,
           NEW at, MovesTo(t, at)
    PROVE  GoesTo(t, at)
<1>1. thread[t] \in ThreadStates OBVIOUS
<1> QED BY <1>1 DEF MovesTo, GoesTo, Becomes, OnlyMoves, ThreadStates

LEMMA SweepStarts ==
    ASSUME NEW t \in AllThreads, NEW th \in [AllThreads -> ThreadStates],
           \A u \in AllThreads \ {t} : th[u] = thread[u],
           th[t].at # "idle" \/ t[2] = "main",
           thread' = QueueSweep(t[1], th)
    PROVE  OnlyMoves(t) /\ thread'[t] = th[t]
<1>1. t[1] \in Processes BY DEF AllThreads
<1>2. \A u \in AllThreads :
        \/ thread'[u] = th[u]
        \/ /\ u = <<t[1], "sweeper">> /\ th[u].at = "idle"
           /\ thread'[u] = Call("sweepRoot", "idle", Nobody)
  BY <1>1, SweepQueued
<1>3. thread'[t] = th[t] BY <1>2
<1>4. OnlyMoves(t) BY <1>2 DEF OnlyMoves
<1> QED BY <1>3, <1>4

LEMMA SweepStartsAfter ==
    ASSUME thread \in [AllThreads -> ThreadStates], NEW t \in AllThreads, NEW at \in Places,
           at # "idle" \/ t[2] = "main",
           thread' = QueueSweep(t[1], [thread EXCEPT ![t].at = at])
    PROVE  GoesTo(t, at)
<1> DEFINE th == [thread EXCEPT ![t].at = at]
<1>1. th \in [AllThreads -> ThreadStates] BY ThreadMoved
<1>2. /\ \A u \in AllThreads \ {t} : th[u] = thread[u]
      /\ th[t].at = at /\ th[t].then = thread[t].then /\ th[t].of = thread[t].of
      /\ th[t].list = thread[t].list /\ th[t].failed = thread[t].failed
  BY DEF ThreadStates
<1>3. thread' = QueueSweep(t[1], th) OBVIOUS
<1> HIDE DEF th
<1>4. OnlyMoves(t) /\ thread'[t] = th[t] BY <1>1, <1>2, <1>3, SweepStarts
<1> QED BY <1>2, <1>4 DEF GoesTo, Becomes

LEMMA GivesUpGoes ==
    ASSUME thread \in [AllThreads -> ThreadStates], NEW t \in AllThreads, GivesUp(t)
    PROVE  Becomes(t, "enable", thread[t].then, thread[t].list, TRUE)
<1> DEFINE th == [thread EXCEPT ![t] = [@ EXCEPT !.at = "enable", !.failed = TRUE]]
<1>1. th \in [AllThreads -> ThreadStates] BY ThreadMoved DEF Places
<1>2. /\ \A u \in AllThreads \ {t} : th[u] = thread[u]
      /\ th[t].at = "enable" /\ th[t].then = thread[t].then /\ th[t].of = thread[t].of
      /\ th[t].list = thread[t].list /\ th[t].failed = TRUE
  BY DEF ThreadStates
<1>3. thread' = QueueSweep(t[1], th) BY DEF GivesUp
<1> HIDE DEF th
<1>4. OnlyMoves(t) /\ thread'[t] = th[t] BY <1>1, <1>2, <1>3, SweepStarts
<1> QED BY <1>2, <1>4 DEF Becomes


(* The other ways to go on.                                                *)
LEMMA FailedGoes ==
    ASSUME thread \in [AllThreads -> ThreadStates], NEW t \in AllThreads, NEW at,
           \/ thread' = [thread EXCEPT ![t] = [@ EXCEPT !.at = at, !.failed = TRUE]]
    PROVE  Becomes(t, at, thread[t].then, thread[t].list, TRUE)
<1>1. thread[t] \in ThreadStates OBVIOUS
<1> QED BY <1>1 DEF Becomes, OnlyMoves, ThreadStates

LEMMA ThenGoes ==
    ASSUME thread \in [AllThreads -> ThreadStates], NEW t \in AllThreads, NEW at, NEW then
    PROVE  /\ thread' = [thread EXCEPT ![t] = [@ EXCEPT !.at = at, !.then = then]]
                => Becomes(t, at, then, thread[t].list, thread[t].failed)
           /\ thread' = [thread EXCEPT ![t] =
                           [@ EXCEPT !.at = at, !.then = then, !.failed = TRUE]]
                => Becomes(t, at, then, thread[t].list, TRUE)
<1>1. thread[t] \in ThreadStates OBVIOUS
<1>2. ASSUME thread' = [thread EXCEPT ![t] = [@ EXCEPT !.at = at, !.then = then]]
      PROVE  Becomes(t, at, then, thread[t].list, thread[t].failed)
  BY <1>1, <1>2 DEF Becomes, OnlyMoves, ThreadStates
<1>3. ASSUME thread' = [thread EXCEPT ![t] =
                           [@ EXCEPT !.at = at, !.then = then, !.failed = TRUE]]
      PROVE  Becomes(t, at, then, thread[t].list, TRUE)
  BY <1>1, <1>3 DEF Becomes, OnlyMoves, ThreadStates
<1> QED BY <1>2, <1>3

LEMMA ListGoes ==
    ASSUME thread \in [AllThreads -> ThreadStates], NEW t \in AllThreads, NEW list,
           thread' = [thread EXCEPT ![t].list = list]
    PROVE  Becomes(t, thread[t].at, thread[t].then, list, thread[t].failed)
<1>1. thread[t] \in ThreadStates OBVIOUS
<1> QED BY <1>1 DEF Becomes, OnlyMoves, ThreadStates

LEMMA EnterGoes ==
    ASSUME thread \in [AllThreads -> ThreadStates], NEW p \in Processes,
           NEW at, NEW then, NEW i, Enter(p, at, then, i)
    PROVE  /\ <<p, "main">> \in AllThreads /\ thread[<<p, "main">>].at = "idle"
           /\ OnlyMoves(<<p, "main">>)
           /\ thread'[<<p, "main">>] = Call(at, then, i)
BY DEF Enter, AllThreads, OnlyMoves

LEMMA UnlockGoes ==
    ASSUME thread \in [AllThreads -> ThreadStates], PlaceInv, NEW t \in AllThreads, Unlock(t)
    PROVE  OnlyMoves(t) /\ thread'[t] = NoCall
<1> DEFINE th == [thread EXCEPT ![t] = NoCall]
<1>1. th \in [AllThreads -> ThreadStates] BY CallTyped
<1>2. (\A u \in AllThreads \ {t} : th[u] = thread[u]) /\ th[t] = NoCall OBVIOUS
<1>3. t[2] = "main" BY DEF Unlock, PlaceInv, CallInv, SweepPlaces, AllThreads
<1>4. thread' = QueueSweep(t[1], th) BY DEF Unlock
<1> HIDE DEF th
<1> QED BY <1>1, <1>2, <1>3, <1>4, SweepStarts

-----------------------------------------------------------------------------
(* Adapters: places and mutexes.                                           *)

(* It is enough to look at the thread that moves.                          *)
LEMMA OthersStay ==
    ASSUME PlaceInv, NEW t \in AllThreads, OnlyMoves(t), CallInv(t)', InstanceInv(t)', ListInv(t)',
           \A u \in AllThreads : RootInv(u)'
    PROVE  PlaceInv'
<1>1. SUFFICES ASSUME NEW u \in AllThreads, u # t
               PROVE  CallInv(u)' /\ InstanceInv(u)' /\ ListInv(u)'
  BY DEF PlaceInv
<1>2. CASE thread'[u] = thread[u]
  BY <1>1, <1>2 DEF PlaceInv, CallInv, InstanceInv, ListInv
<1>3. CASE u[2] = "sweeper" /\ thread'[u] = Call("sweepRoot", "idle", Nobody)
  BY <1>3
  DEF CallInv, InstanceInv, ListInv, Call, SweepPlaces, InstallPlaces, CreatePlaces,
      ClosePlaces
<1> QED BY <1>1, <1>2, <1>3 DEF OnlyMoves

LEMMA RootsStay ==
    ASSUME PlaceInv, NEW t \in AllThreads, OnlyMoves(t), rootNodes' = rootNodes, RootInv(t)'
    PROVE  \A u \in AllThreads : RootInv(u)'
<1>1. SUFFICES ASSUME NEW u \in AllThreads, u # t PROVE RootInv(u)'
  OBVIOUS
<1>2. CASE thread'[u] = thread[u] BY <1>2 DEF PlaceInv, RootInv
<1>3. CASE thread'[u] = Call("sweepRoot", "idle", Nobody) BY <1>3 DEF RootInv, Call
<1> QED BY <1>1, <1>2, <1>3 DEF OnlyMoves

LEMMA OthersHold ==
    ASSUME MutexInv, PlaceInv, NEW t \in AllThreads, OnlyMoves(t),
           \A u \in AllThreads \ {t} : /\ driverMutex' = u <=> driverMutex = u
                                       /\ deviceMutex' = u <=> deviceMutex = u,
           InDriver(t)' <=> driverMutex' = t,
           InDevice(t)' <=> deviceMutex' = t
    PROVE  MutexInv'
<1>1. SUFFICES ASSUME NEW u \in AllThreads, u # t
               PROVE  (InDriver(u)' <=> InDriver(u)) /\ (InDevice(u)' <=> InDevice(u))
  BY DEF MutexInv
<1>2. CASE thread'[u] = thread[u] BY <1>2 DEF InDriver, InDevice
<1>3. CASE thread[u].at = "idle" /\ thread'[u] = Call("sweepRoot", "idle", Nobody)
  BY <1>3 DEF InDriver, InDevice, PlaceInv, CallInv, Call, DriverPlaces
<1> QED BY <1>1, <1>2, <1>3 DEF OnlyMoves

LEMMA PlacesKept ==
    ASSUME AdaptersAssumption, AdaptersTypeOK, MutexInv, PlaceInv, AdaptersNext
    PROVE  MutexInv' /\ PlaceInv'
<1>0. thread \in [AllThreads -> ThreadStates] BY DEF AdaptersTypeOK
<1>1. ASSUME NEW p \in Processes, DeleteDriver(p) PROVE MutexInv' /\ PlaceInv'
  <2> DEFINE t == <<p, "main">>
  <2>1. /\ t \in AllThreads /\ thread[t].at = "idle" /\ t[2] = "main"
        /\ OnlyMoves(t) /\ thread'[t] = Call("sweepRoot", "delete", Nobody)
    BY <1>0, <1>1, EnterGoes DEF DeleteDriver
  <2>2. UNCHANGED <<World, Mutexes>> BY <1>1 DEF DeleteDriver
  <2> HIDE DEF t
  <2>3. CallInv(t)' /\ InstanceInv(t)' /\ ListInv(t)'
    BY <2>1
    DEF Call, CallInv, InstanceInv, ListInv, SweepPlaces, InstallPlaces, CreatePlaces,
        ClosePlaces
  <2>4. \A u \in AllThreads : RootInv(u)'
    BY <2>1, <2>2 DEF PlaceInv, RootInv, OnlyMoves, Call, World
  <2>5. PlaceInv' BY <2>1, <2>3, <2>4, OthersStay
  <2>6. (InDriver(t)' <=> driverMutex' = t) /\ (InDevice(t)' <=> deviceMutex' = t)
    BY <2>1, <2>2
    DEF MutexInv, PlaceInv, CallInv, InDriver, InDevice, DriverPlaces, Call, Mutexes
  <2>7. MutexInv' BY <2>1, <2>2, <2>6, OthersHold DEF Mutexes
  <2> QED BY <2>5, <2>7
<1>2. ASSUME NEW p \in Processes, OpenAdapter(p) PROVE MutexInv' /\ PlaceInv'
  <2> DEFINE t == <<p, "main">>
  <2>1. /\ t \in AllThreads /\ thread[t].at = "idle" /\ t[2] = "main"
        /\ OnlyMoves(t) /\ thread'[t] = Call("lock", "find", Nobody)
    BY <1>0, <1>2, EnterGoes DEF OpenAdapter
  <2>2. UNCHANGED <<World, Mutexes>> BY <1>2 DEF OpenAdapter
  <2> HIDE DEF t
  <2>3. CallInv(t)' /\ InstanceInv(t)' /\ ListInv(t)'
    BY <2>1
    DEF Call, CallInv, InstanceInv, ListInv, SweepPlaces, InstallPlaces, CreatePlaces,
        ClosePlaces
  <2>4. \A u \in AllThreads : RootInv(u)'
    BY <2>1, <2>2 DEF PlaceInv, RootInv, OnlyMoves, Call, World
  <2>5. PlaceInv' BY <2>1, <2>3, <2>4, OthersStay
  <2>6. (InDriver(t)' <=> driverMutex' = t) /\ (InDevice(t)' <=> deviceMutex' = t)
    BY <2>1, <2>2
    DEF MutexInv, PlaceInv, CallInv, InDriver, InDevice, DriverPlaces, Call, Mutexes
  <2>7. MutexInv' BY <2>1, <2>2, <2>6, OthersHold DEF Mutexes
  <2> QED BY <2>5, <2>7
<1>3. ASSUME NEW p \in Processes, NEW i \in Instances, CreateAdapter(p, i)
      PROVE  MutexInv' /\ PlaceInv'
  <2> DEFINE t == <<p, "main">>
  <2>1. /\ t \in AllThreads /\ thread[t].at = "idle" /\ t[2] = "main"
        /\ OnlyMoves(t) /\ thread'[t] = Call("lock", "sweepRoot", i)
    BY <1>0, <1>3, EnterGoes DEF CreateAdapter
  <2>2. UNCHANGED <<World, Mutexes>> BY <1>3 DEF CreateAdapter
  <2> HIDE DEF t
  <2>3. CallInv(t)' /\ InstanceInv(t)' /\ ListInv(t)'
    BY <2>1
    DEF Call, CallInv, InstanceInv, ListInv, SweepPlaces, InstallPlaces, CreatePlaces,
        ClosePlaces
  <2>4. \A u \in AllThreads : RootInv(u)'
    BY <2>1, <2>2 DEF PlaceInv, RootInv, OnlyMoves, Call, World
  <2>5. PlaceInv' BY <2>1, <2>3, <2>4, OthersStay
  <2>6. (InDriver(t)' <=> driverMutex' = t) /\ (InDevice(t)' <=> deviceMutex' = t)
    BY <2>1, <2>2
    DEF MutexInv, PlaceInv, CallInv, InDriver, InDevice, DriverPlaces, Call, Mutexes
  <2>7. MutexInv' BY <2>1, <2>2, <2>6, OthersHold DEF Mutexes
  <2> QED BY <2>5, <2>7
<1>4. ASSUME NEW p \in Processes, NEW i \in Instances, CloseAdapter(p, i)
      PROVE  MutexInv' /\ PlaceInv'
  <2> DEFINE t == <<p, "main">>
  <2>1. /\ t \in AllThreads /\ thread[t].at = "idle" /\ t[2] = "main"
        /\ OnlyMoves(t) /\ thread'[t] = Call("closeSw", "sweep", i)
    BY <1>0, <1>4, EnterGoes DEF CloseAdapter
  <2>2. UNCHANGED <<World, Mutexes>> BY <1>4 DEF CloseAdapter
  <2> HIDE DEF t
  <2>3. CallInv(t)' /\ InstanceInv(t)' /\ ListInv(t)'
    BY <2>1
    DEF Call, CallInv, InstanceInv, ListInv, SweepPlaces, InstallPlaces, CreatePlaces,
        ClosePlaces
  <2>4. \A u \in AllThreads : RootInv(u)'
    BY <2>1, <2>2 DEF PlaceInv, RootInv, OnlyMoves, Call, World
  <2>5. PlaceInv' BY <2>1, <2>3, <2>4, OthersStay
  <2>6. (InDriver(t)' <=> driverMutex' = t) /\ (InDevice(t)' <=> deviceMutex' = t)
    BY <2>1, <2>2
    DEF MutexInv, PlaceInv, CallInv, InDriver, InDevice, DriverPlaces, Call, Mutexes
  <2>7. MutexInv' BY <2>1, <2>2, <2>6, OthersHold DEF Mutexes
  <2> QED BY <2>5, <2>7
<1>5. ASSUME NEW t \in AllThreads, TakeDriverForSweep(t) PROVE MutexInv' /\ PlaceInv'
  <2>1. GoesTo(t, "removeRoot")
    BY <1>0, <1>5, MovesToGoes DEF TakeDriverForSweep
  <2>2. CallInv(t)' /\ InstanceInv(t)' /\ ListInv(t)'
    BY <1>0, <1>5, <2>1
    DEF TakeDriverForSweep, Places, GoesTo, Becomes, NoCall, Call, PlaceInv, CallInv,
        InstanceInv, ListInv, ThreadStates, SweepPlaces, InstallPlaces, CreatePlaces,
        ClosePlaces
  <2>3. \A u \in AllThreads : RootInv(u)'
    BY <1>5, <2>1
    DEF TakeDriverForSweep, GoesTo, Becomes, NoCall, PlaceInv, RootInv, OnlyMoves, Call,
        World
  <2>4. PlaceInv' BY <2>1, <2>2, <2>3, OthersStay DEF GoesTo, Becomes
  <2>5. (InDriver(t)' <=> driverMutex' = t) /\ (InDevice(t)' <=> deviceMutex' = t)
    BY <1>5, <2>1, AdaptersAssumption
    DEF TakeDriverForSweep, GoesTo, Becomes, NoCall, Call, MutexInv, PlaceInv, CallInv,
        InDriver, InDevice, DriverPlaces, SweepPlaces, InstallPlaces, CreatePlaces,
        ClosePlaces, Mutexes, Takes, AllThreads
  <2>6. MutexInv'
    BY <1>5, <2>1, <2>5, OthersHold, AdaptersAssumption
    DEF TakeDriverForSweep, GoesTo, Becomes, Mutexes, Takes, AllThreads, MutexInv,
        PlaceInv, CallInv, InDriver, InDevice, DriverPlaces
  <2> QED BY <2>4, <2>6
<1>6. ASSUME NEW t \in AllThreads, RemoveRootNodes(t) PROVE MutexInv' /\ PlaceInv'
  <2>1. GoesTo(t, "sweepSwd")
    BY <1>0, <1>6, MovesToGoes DEF RemoveRootNodes
  <2>2. CallInv(t)' /\ InstanceInv(t)' /\ ListInv(t)'
    BY <1>0, <1>6, <2>1
    DEF RemoveRootNodes, Places, GoesTo, Becomes, NoCall, Call, PlaceInv, CallInv,
        InstanceInv, ListInv, ThreadStates, SweepPlaces, InstallPlaces, CreatePlaces,
        ClosePlaces
  <2>3. \A u \in AllThreads : RootInv(u)'
    BY <1>6, <2>1
    DEF RemoveRootNodes, GoesTo, Becomes, NoCall, PlaceInv, RootInv, OnlyMoves, Call,
        World, MutexInv, InDriver, DriverPlaces, CallInv, SweepPlaces, InstallPlaces,
        ClosePlaces
  <2>4. PlaceInv' BY <2>1, <2>2, <2>3, OthersStay DEF GoesTo, Becomes
  <2>5. (InDriver(t)' <=> driverMutex' = t) /\ (InDevice(t)' <=> deviceMutex' = t)
    BY <1>6, <2>1, AdaptersAssumption
    DEF RemoveRootNodes, GoesTo, Becomes, NoCall, Call, MutexInv, PlaceInv, CallInv,
        InDriver, InDevice, DriverPlaces, SweepPlaces, InstallPlaces, CreatePlaces,
        ClosePlaces, Mutexes, Takes, AllThreads
  <2>6. MutexInv'
    BY <1>6, <2>1, <2>5, OthersHold, AdaptersAssumption
    DEF RemoveRootNodes, GoesTo, Becomes, Mutexes, Takes, AllThreads, MutexInv,
        PlaceInv, CallInv, InDriver, InDevice, DriverPlaces
  <2> QED BY <2>4, <2>6
<1>7. ASSUME NEW t \in AllThreads, SweepSwd(t) PROVE MutexInv' /\ PlaceInv'
  <2>1. GoesTo(t, thread[t].then)
    BY <1>0, <1>7, MovesToGoes DEF SweepSwd
  <2>2. CallInv(t)' /\ InstanceInv(t)' /\ ListInv(t)'
    BY <1>0, <1>7, <2>1
    DEF SweepSwd, Places, GoesTo, Becomes, NoCall, Call, PlaceInv, CallInv, InstanceInv,
        ListInv, ThreadStates, SweepPlaces, InstallPlaces, CreatePlaces, ClosePlaces
  <2>3. \A u \in AllThreads : RootInv(u)'
    BY <1>7, <2>1
    DEF SweepSwd, GoesTo, Becomes, NoCall, PlaceInv, RootInv, OnlyMoves, Call, World,
        MutexInv, InDriver, DriverPlaces, CallInv, SweepPlaces, InstallPlaces,
        ClosePlaces
  <2>4. PlaceInv' BY <2>1, <2>2, <2>3, OthersStay DEF GoesTo, Becomes
  <2>5. (InDriver(t)' <=> driverMutex' = t) /\ (InDevice(t)' <=> deviceMutex' = t)
    BY <1>7, <2>1, AdaptersAssumption
    DEF SweepSwd, GoesTo, Becomes, NoCall, Call, MutexInv, PlaceInv, CallInv, InDriver,
        InDevice, DriverPlaces, SweepPlaces, InstallPlaces, CreatePlaces, ClosePlaces,
        Mutexes, Takes, AllThreads
  <2>6. MutexInv'
    BY <1>7, <2>1, <2>5, OthersHold DEF SweepSwd, GoesTo, Becomes, Mutexes, Takes
  <2> QED BY <2>4, <2>6
<1>8. ASSUME NEW t \in AllThreads, BeginInstall(t) PROVE MutexInv' /\ PlaceInv'
  <2>1. \/ GoesTo(t, "enumerate") /\ rootNodes' = rootNodes \cup {t[1]}
        \/ /\ Becomes(t, "endInstall", thread[t].then, thread[t].list, TRUE)
           /\ rootNodes' = rootNodes
    BY <1>0, <1>8, MovesToGoes, FailedGoes DEF BeginInstall
  <2>2. CallInv(t)' /\ InstanceInv(t)' /\ ListInv(t)'
    BY <1>0, <1>8, <2>1
    DEF BeginInstall, Places, GoesTo, Becomes, NoCall, Call, PlaceInv, CallInv,
        InstanceInv, ListInv, ThreadStates, SweepPlaces, InstallPlaces, CreatePlaces,
        ClosePlaces
  <2>3. \A u \in AllThreads : RootInv(u)'
    BY <1>8, <2>1
    DEF BeginInstall, GoesTo, Becomes, NoCall, PlaceInv, RootInv, OnlyMoves, Call,
        World, AllThreads
  <2>4. PlaceInv' BY <2>1, <2>2, <2>3, OthersStay DEF GoesTo, Becomes
  <2>5. (InDriver(t)' <=> driverMutex' = t) /\ (InDevice(t)' <=> deviceMutex' = t)
    BY <1>8, <2>1, AdaptersAssumption
    DEF BeginInstall, GoesTo, Becomes, NoCall, Call, MutexInv, PlaceInv, CallInv,
        InDriver, InDevice, DriverPlaces, SweepPlaces, InstallPlaces, CreatePlaces,
        ClosePlaces, Mutexes, Takes, AllThreads
  <2>6. MutexInv'
    BY <1>8, <2>1, <2>5, OthersHold, AdaptersAssumption
    DEF BeginInstall, GoesTo, Becomes, Mutexes, Takes, AllThreads, MutexInv, PlaceInv,
        CallInv, InDriver, InDevice, DriverPlaces
  <2> QED BY <2>4, <2>6
<1>9. ASSUME NEW t \in AllThreads, EnumerateDrivers(t) PROVE MutexInv' /\ PlaceInv'
  <2>1. GoesTo(t, "disable") \/ GoesTo(t, "copy")
    BY <1>0, <1>9, MovesToGoes DEF EnumerateDrivers
  <2>2. CallInv(t)' /\ InstanceInv(t)' /\ ListInv(t)'
    BY <1>0, <1>9, <2>1
    DEF EnumerateDrivers, Places, GoesTo, Becomes, NoCall, Call, PlaceInv, CallInv,
        InstanceInv, ListInv, ThreadStates, SweepPlaces, InstallPlaces, CreatePlaces,
        ClosePlaces
  <2>3. \A u \in AllThreads : RootInv(u)'
    BY <1>9, <2>1
    DEF EnumerateDrivers, GoesTo, Becomes, NoCall, PlaceInv, RootInv, OnlyMoves, Call,
        World
  <2>4. PlaceInv' BY <2>1, <2>2, <2>3, OthersStay DEF GoesTo, Becomes
  <2>5. (InDriver(t)' <=> driverMutex' = t) /\ (InDevice(t)' <=> deviceMutex' = t)
    BY <1>9, <2>1, AdaptersAssumption
    DEF EnumerateDrivers, GoesTo, Becomes, NoCall, Call, MutexInv, PlaceInv, CallInv,
        InDriver, InDevice, DriverPlaces, SweepPlaces, InstallPlaces, CreatePlaces,
        ClosePlaces, Mutexes, Takes, AllThreads
  <2>6. MutexInv'
    BY <1>9, <2>1, <2>5, OthersHold
    DEF EnumerateDrivers, GoesTo, Becomes, Mutexes, Takes
  <2> QED BY <2>4, <2>6
<1>10. ASSUME NEW t \in AllThreads, DisableAdapter(t) PROVE MutexInv' /\ PlaceInv'
  <2>1. \E i \in Instances :
          Becomes(t, thread[t].at, thread[t].then, thread[t].list \cup {i}, thread[t].failed)
    BY <1>0, <1>10, ListGoes DEF DisableAdapter
  <2>2. CallInv(t)' /\ InstanceInv(t)' /\ ListInv(t)'
    BY <1>0, <1>10, <2>1
    DEF DisableAdapter, Places, GoesTo, Becomes, NoCall, Call, PlaceInv, CallInv,
        InstanceInv, ListInv, ThreadStates, SweepPlaces, InstallPlaces, CreatePlaces,
        ClosePlaces
  <2>3. \A u \in AllThreads : RootInv(u)'
    BY <1>10, <2>1
    DEF DisableAdapter, GoesTo, Becomes, NoCall, PlaceInv, RootInv, OnlyMoves, Call,
        World
  <2>4. PlaceInv' BY <2>1, <2>2, <2>3, OthersStay DEF GoesTo, Becomes
  <2>5. (InDriver(t)' <=> driverMutex' = t) /\ (InDevice(t)' <=> deviceMutex' = t)
    BY <1>10, <2>1, AdaptersAssumption
    DEF DisableAdapter, GoesTo, Becomes, NoCall, Call, MutexInv, PlaceInv, CallInv,
        InDriver, InDevice, DriverPlaces, SweepPlaces, InstallPlaces, CreatePlaces,
        ClosePlaces, Mutexes, Takes, AllThreads
  <2>6. MutexInv'
    BY <1>10, <2>1, <2>5, OthersHold DEF DisableAdapter, GoesTo, Becomes, Mutexes, Takes
  <2> QED BY <2>4, <2>6
<1>11. ASSUME NEW t \in AllThreads, RemoveOutdated(t) PROVE MutexInv' /\ PlaceInv'
  <2>1. GoesTo(t, "copy")
    BY <1>0, <1>11, MovesToGoes DEF RemoveOutdated
  <2>2. CallInv(t)' /\ InstanceInv(t)' /\ ListInv(t)'
    BY <1>0, <1>11, <2>1
    DEF RemoveOutdated, Places, GoesTo, Becomes, NoCall, Call, PlaceInv, CallInv,
        InstanceInv, ListInv, ThreadStates, SweepPlaces, InstallPlaces, CreatePlaces,
        ClosePlaces
  <2>3. \A u \in AllThreads : RootInv(u)'
    BY <1>11, <2>1
    DEF RemoveOutdated, GoesTo, Becomes, NoCall, PlaceInv, RootInv, OnlyMoves, Call,
        World
  <2>4. PlaceInv' BY <2>1, <2>2, <2>3, OthersStay DEF GoesTo, Becomes
  <2>5. (InDriver(t)' <=> driverMutex' = t) /\ (InDevice(t)' <=> deviceMutex' = t)
    BY <1>11, <2>1, AdaptersAssumption
    DEF RemoveOutdated, GoesTo, Becomes, NoCall, Call, MutexInv, PlaceInv, CallInv,
        InDriver, InDevice, DriverPlaces, SweepPlaces, InstallPlaces, CreatePlaces,
        ClosePlaces, Mutexes, Takes, AllThreads
  <2>6. MutexInv'
    BY <1>11, <2>1, <2>5, OthersHold DEF RemoveOutdated, GoesTo, Becomes, Mutexes, Takes
  <2> QED BY <2>4, <2>6
<1>12. ASSUME NEW t \in AllThreads, CopyDriver(t) PROVE MutexInv' /\ PlaceInv'
  <2>1. \/ GoesTo(t, "endInstall")
      \/ Becomes(t, IF thread[t].list # {} THEN "enableHere" ELSE "endInstall",
                 thread[t].then, thread[t].list, TRUE)
    BY <1>0, <1>12, MovesToGoes, FailedGoes DEF CopyDriver
  <2>2. CallInv(t)' /\ InstanceInv(t)' /\ ListInv(t)'
    BY <1>0, <1>12, <2>1
    DEF CopyDriver, Places, GoesTo, Becomes, NoCall, Call, PlaceInv, CallInv,
        InstanceInv, ListInv, ThreadStates, SweepPlaces, InstallPlaces, CreatePlaces,
        ClosePlaces
  <2>3. \A u \in AllThreads : RootInv(u)'
    BY <1>12, <2>1
    DEF CopyDriver, GoesTo, Becomes, NoCall, PlaceInv, RootInv, OnlyMoves, Call, World
  <2>4. PlaceInv' BY <2>1, <2>2, <2>3, OthersStay DEF GoesTo, Becomes
  <2>5. (InDriver(t)' <=> driverMutex' = t) /\ (InDevice(t)' <=> deviceMutex' = t)
    BY <1>12, <2>1, AdaptersAssumption
    DEF CopyDriver, GoesTo, Becomes, NoCall, Call, MutexInv, PlaceInv, CallInv,
        InDriver, InDevice, DriverPlaces, SweepPlaces, InstallPlaces, CreatePlaces,
        ClosePlaces, Mutexes, Takes, AllThreads
  <2>6. MutexInv'
    BY <1>12, <2>1, <2>5, OthersHold DEF CopyDriver, GoesTo, Becomes, Mutexes, Takes
  <2> QED BY <2>4, <2>6
<1>13. ASSUME NEW t \in AllThreads, EndInstall(t) PROVE MutexInv' /\ PlaceInv'
  <2>1. GoesTo(t, IF thread[t].failed THEN "unlock" ELSE "createStub")
    BY <1>0, <1>13, MovesToGoes DEF EndInstall
  <2>2. CallInv(t)' /\ InstanceInv(t)' /\ ListInv(t)'
    BY <1>0, <1>13, <2>1
    DEF EndInstall, Places, GoesTo, Becomes, NoCall, Call, PlaceInv, CallInv,
        InstanceInv, ListInv, ThreadStates, SweepPlaces, InstallPlaces, CreatePlaces,
        ClosePlaces
  <2>3. \A u \in AllThreads : RootInv(u)'
    BY <1>13, <2>1
    DEF EndInstall, GoesTo, Becomes, NoCall, PlaceInv, RootInv, OnlyMoves, Call, World,
        MutexInv, InDriver, DriverPlaces, CallInv, SweepPlaces, InstallPlaces,
        ClosePlaces
  <2>4. PlaceInv' BY <2>1, <2>2, <2>3, OthersStay DEF GoesTo, Becomes
  <2>5. (InDriver(t)' <=> driverMutex' = t) /\ (InDevice(t)' <=> deviceMutex' = t)
    BY <1>13, <2>1, AdaptersAssumption
    DEF EndInstall, GoesTo, Becomes, NoCall, Call, MutexInv, PlaceInv, CallInv,
        InDriver, InDevice, DriverPlaces, SweepPlaces, InstallPlaces, CreatePlaces,
        ClosePlaces, Mutexes, Takes, AllThreads
  <2>6. MutexInv'
    BY <1>13, <2>1, <2>5, OthersHold, AdaptersAssumption
    DEF EndInstall, GoesTo, Becomes, Mutexes, Takes, AllThreads, MutexInv, PlaceInv,
        CallInv, InDriver, InDevice, DriverPlaces
  <2> QED BY <2>4, <2>6
<1>14. ASSUME NEW t \in AllThreads, RemoveDrivers(t) PROVE MutexInv' /\ PlaceInv'
  <2>1. GoesTo(t, "idle")
    BY <1>0, <1>14, MovesToGoes DEF RemoveDrivers
  <2>2. CallInv(t)' /\ InstanceInv(t)' /\ ListInv(t)'
    BY <1>0, <1>14, <2>1
    DEF RemoveDrivers, Places, GoesTo, Becomes, NoCall, Call, PlaceInv, CallInv,
        InstanceInv, ListInv, ThreadStates, SweepPlaces, InstallPlaces, CreatePlaces,
        ClosePlaces
  <2>3. \A u \in AllThreads : RootInv(u)'
    BY <1>14, <2>1
    DEF RemoveDrivers, GoesTo, Becomes, NoCall, PlaceInv, RootInv, OnlyMoves, Call,
        World
  <2>4. PlaceInv' BY <2>1, <2>2, <2>3, OthersStay DEF GoesTo, Becomes
  <2>5. (InDriver(t)' <=> driverMutex' = t) /\ (InDevice(t)' <=> deviceMutex' = t)
    BY <1>14, <2>1, AdaptersAssumption
    DEF RemoveDrivers, GoesTo, Becomes, NoCall, Call, MutexInv, PlaceInv, CallInv,
        InDriver, InDevice, DriverPlaces, SweepPlaces, InstallPlaces, CreatePlaces,
        ClosePlaces, Mutexes, Takes, AllThreads
  <2>6. MutexInv'
    BY <1>14, <2>1, <2>5, OthersHold DEF RemoveDrivers, GoesTo, Becomes, Mutexes, Takes
  <2> QED BY <2>4, <2>6
<1>15. ASSUME NEW t \in AllThreads, EnableAdapter(t) PROVE MutexInv' /\ PlaceInv'
  <2>1. \E i \in thread[t].list :
          Becomes(t, thread[t].at, thread[t].then, thread[t].list \ {i}, thread[t].failed)
    BY <1>0, <1>15, ListGoes DEF EnableAdapter
  <2>2. CallInv(t)' /\ InstanceInv(t)' /\ ListInv(t)'
    BY <1>0, <1>15, <2>1
    DEF EnableAdapter, Places, GoesTo, Becomes, NoCall, Call, PlaceInv, CallInv,
        InstanceInv, ListInv, ThreadStates, SweepPlaces, InstallPlaces, CreatePlaces,
        ClosePlaces
  <2>3. \A u \in AllThreads : RootInv(u)'
    BY <1>15, <2>1
    DEF EnableAdapter, GoesTo, Becomes, NoCall, PlaceInv, RootInv, OnlyMoves, Call,
        World
  <2>4. PlaceInv' BY <2>1, <2>2, <2>3, OthersStay DEF GoesTo, Becomes
  <2>5. (InDriver(t)' <=> driverMutex' = t) /\ (InDevice(t)' <=> deviceMutex' = t)
    BY <1>15, <2>1, AdaptersAssumption
    DEF EnableAdapter, GoesTo, Becomes, NoCall, Call, MutexInv, PlaceInv, CallInv,
        InDriver, InDevice, DriverPlaces, SweepPlaces, InstallPlaces, CreatePlaces,
        ClosePlaces, Mutexes, Takes, AllThreads
  <2>6. MutexInv'
    BY <1>15, <2>1, <2>5, OthersHold DEF EnableAdapter, GoesTo, Becomes, Mutexes, Takes
  <2> QED BY <2>4, <2>6
<1>16. ASSUME NEW t \in AllThreads, EnabledAll(t) PROVE MutexInv' /\ PlaceInv'
  <2>1. GoesTo(t, IF thread[t].at = "enable" THEN "unlock" ELSE "endInstall")
    BY <1>0, <1>16, MovesToGoes DEF EnabledAll
  <2>2. CallInv(t)' /\ InstanceInv(t)' /\ ListInv(t)'
    BY <1>0, <1>16, <2>1
    DEF EnabledAll, Places, GoesTo, Becomes, NoCall, Call, PlaceInv, CallInv,
        InstanceInv, ListInv, ThreadStates, SweepPlaces, InstallPlaces, CreatePlaces,
        ClosePlaces
  <2>3. \A u \in AllThreads : RootInv(u)'
    BY <1>16, <2>1
    DEF EnabledAll, GoesTo, Becomes, NoCall, PlaceInv, RootInv, OnlyMoves, Call, World
  <2>4. PlaceInv' BY <2>1, <2>2, <2>3, OthersStay DEF GoesTo, Becomes
  <2>5. (InDriver(t)' <=> driverMutex' = t) /\ (InDevice(t)' <=> deviceMutex' = t)
    BY <1>16, <2>1, AdaptersAssumption
    DEF EnabledAll, GoesTo, Becomes, NoCall, Call, MutexInv, PlaceInv, CallInv,
        InDriver, InDevice, DriverPlaces, SweepPlaces, InstallPlaces, CreatePlaces,
        ClosePlaces, Mutexes, Takes, AllThreads
  <2>6. MutexInv'
    BY <1>16, <2>1, <2>5, OthersHold DEF EnabledAll, GoesTo, Becomes, Mutexes, Takes
  <2> QED BY <2>4, <2>6
<1>17. ASSUME NEW t \in AllThreads, LockDevice(t) PROVE MutexInv' /\ PlaceInv'
  <2>0. /\ thread[t].then \in {"sweepRoot", "find"} /\ thread[t].list = {}
        /\ thread[t].then = "sweepRoot" => ~thread[t].failed /\ thread[t].of \in Instances
        /\ thread[t].then = "find" => thread[t].of = Nobody
        /\ t[2] = "main"
    BY <1>17
    DEF LockDevice, PlaceInv, CallInv, InstanceInv, ListInv, AllThreads, SweepPlaces,
        CreatePlaces, ClosePlaces
  <2>1. Becomes(t, thread[t].then, "install", thread[t].list, thread[t].failed)
    BY <1>0, <1>17, ThenGoes DEF LockDevice
  <2>2. CallInv(t)' /\ InstanceInv(t)' /\ ListInv(t)'
    BY <1>0, <1>17, <2>1, <2>0
    DEF LockDevice, Places, GoesTo, Becomes, NoCall, Call, PlaceInv, CallInv,
        InstanceInv, ListInv, ThreadStates, SweepPlaces, InstallPlaces, CreatePlaces,
        ClosePlaces
  <2>3. \A u \in AllThreads : RootInv(u)'
    BY <1>17, <2>1, <2>0
    DEF LockDevice, GoesTo, Becomes, NoCall, PlaceInv, RootInv, OnlyMoves, Call, World,
        MutexInv, InDriver, DriverPlaces, CallInv, SweepPlaces, InstallPlaces,
        ClosePlaces
  <2>4. PlaceInv' BY <2>1, <2>0, <2>2, <2>3, OthersStay DEF GoesTo, Becomes
  <2>5. (InDriver(t)' <=> driverMutex' = t) /\ (InDevice(t)' <=> deviceMutex' = t)
    BY <1>17, <2>1, AdaptersAssumption
    DEF LockDevice, GoesTo, Becomes, NoCall, Call, MutexInv, PlaceInv, CallInv,
        InDriver, InDevice, DriverPlaces, SweepPlaces, InstallPlaces, CreatePlaces,
        ClosePlaces, Mutexes, Takes, AllThreads
  <2>6. MutexInv'
    BY <1>17, <2>1, <2>0, <2>5, OthersHold, AdaptersAssumption
    DEF LockDevice, GoesTo, Becomes, Mutexes, Takes, AllThreads, MutexInv, PlaceInv,
        CallInv, InDriver, InDevice, DriverPlaces
  <2> QED BY <2>4, <2>6
<1>18. ASSUME NEW t \in AllThreads, FindAdapter(t) PROVE MutexInv' /\ PlaceInv'
  <2>0. "unlock" \in Places BY DEF Places
  <2>1. GoesTo(t, "unlock")
    <3>1. CASE MovesTo(t, "unlock") BY <1>0, <3>1, MovesToGoes
    <3>2. CASE thread' = QueueSweep(t[1], [thread EXCEPT ![t].at = "unlock"])
      BY <1>0, <2>0, <3>2, SweepStartsAfter
    <3> QED BY <1>18, <3>1, <3>2 DEF FindAdapter
  <2>2. CallInv(t)' /\ InstanceInv(t)' /\ ListInv(t)'
    BY <1>0, <1>18, <2>1
    DEF FindAdapter, Places, GoesTo, Becomes, NoCall, Call, PlaceInv, CallInv,
        InstanceInv, ListInv, ThreadStates, SweepPlaces, InstallPlaces, CreatePlaces,
        ClosePlaces
  <2>3. \A u \in AllThreads : RootInv(u)'
    BY <1>18, <2>1
    DEF FindAdapter, GoesTo, Becomes, NoCall, PlaceInv, RootInv, OnlyMoves, Call, World
  <2>4. PlaceInv' BY <2>1, <2>2, <2>3, OthersStay DEF GoesTo, Becomes
  <2>5. (InDriver(t)' <=> driverMutex' = t) /\ (InDevice(t)' <=> deviceMutex' = t)
    BY <1>18, <2>1, AdaptersAssumption
    DEF FindAdapter, GoesTo, Becomes, NoCall, Call, MutexInv, PlaceInv, CallInv,
        InDriver, InDevice, DriverPlaces, SweepPlaces, InstallPlaces, CreatePlaces,
        ClosePlaces, Mutexes, Takes, AllThreads
  <2>6. MutexInv'
    BY <1>18, <2>1, <2>5, OthersHold DEF FindAdapter, GoesTo, Becomes, Mutexes, Takes
  <2> QED BY <2>4, <2>6
<1>19. ASSUME NEW t \in AllThreads, CreateStub(t) PROVE MutexInv' /\ PlaceInv'
  <2>1. GoesTo(t, "closeStub") \/ Becomes(t, "enable", thread[t].then, thread[t].list, TRUE)
    BY <1>0, <1>19, MovesToGoes, GivesUpGoes DEF CreateStub
  <2>2. CallInv(t)' /\ InstanceInv(t)' /\ ListInv(t)'
    BY <1>0, <1>19, <2>1
    DEF CreateStub, Places, GoesTo, Becomes, NoCall, Call, PlaceInv, CallInv,
        InstanceInv, ListInv, ThreadStates, SweepPlaces, InstallPlaces, CreatePlaces,
        ClosePlaces
  <2>3. \A u \in AllThreads : RootInv(u)'
    BY <1>19, <2>1
    DEF CreateStub, GoesTo, Becomes, NoCall, PlaceInv, RootInv, OnlyMoves, Call, World
  <2>4. PlaceInv' BY <2>1, <2>2, <2>3, OthersStay DEF GoesTo, Becomes
  <2>5. (InDriver(t)' <=> driverMutex' = t) /\ (InDevice(t)' <=> deviceMutex' = t)
    BY <1>19, <2>1, AdaptersAssumption
    DEF CreateStub, GoesTo, Becomes, NoCall, Call, MutexInv, PlaceInv, CallInv,
        InDriver, InDevice, DriverPlaces, SweepPlaces, InstallPlaces, CreatePlaces,
        ClosePlaces, Mutexes, Takes, AllThreads
  <2>6. MutexInv'
    BY <1>19, <2>1, <2>5, OthersHold DEF CreateStub, GoesTo, Becomes, Mutexes, Takes
  <2> QED BY <2>4, <2>6
<1>20. ASSUME NEW t \in AllThreads, CloseStub(t) PROVE MutexInv' /\ PlaceInv'
  <2>1. GoesTo(t, "createDevice") \/ Becomes(t, "enable", thread[t].then, thread[t].list, TRUE)
    BY <1>0, <1>20, MovesToGoes, GivesUpGoes DEF CloseStub
  <2>2. CallInv(t)' /\ InstanceInv(t)' /\ ListInv(t)'
    BY <1>0, <1>20, <2>1
    DEF CloseStub, Places, GoesTo, Becomes, NoCall, Call, PlaceInv, CallInv,
        InstanceInv, ListInv, ThreadStates, SweepPlaces, InstallPlaces, CreatePlaces,
        ClosePlaces
  <2>3. \A u \in AllThreads : RootInv(u)'
    BY <1>20, <2>1
    DEF CloseStub, GoesTo, Becomes, NoCall, PlaceInv, RootInv, OnlyMoves, Call, World
  <2>4. PlaceInv' BY <2>1, <2>2, <2>3, OthersStay DEF GoesTo, Becomes
  <2>5. (InDriver(t)' <=> driverMutex' = t) /\ (InDevice(t)' <=> deviceMutex' = t)
    BY <1>20, <2>1, AdaptersAssumption
    DEF CloseStub, GoesTo, Becomes, NoCall, Call, MutexInv, PlaceInv, CallInv, InDriver,
        InDevice, DriverPlaces, SweepPlaces, InstallPlaces, CreatePlaces, ClosePlaces,
        Mutexes, Takes, AllThreads
  <2>6. MutexInv'
    BY <1>20, <2>1, <2>5, OthersHold DEF CloseStub, GoesTo, Becomes, Mutexes, Takes
  <2> QED BY <2>4, <2>6
<1>21. ASSUME NEW t \in AllThreads, CreateDevice(t) PROVE MutexInv' /\ PlaceInv'
  <2>1. GoesTo(t, "waitInterface") \/ Becomes(t, "enable", thread[t].then, thread[t].list, TRUE)
    BY <1>0, <1>21, MovesToGoes, GivesUpGoes DEF CreateDevice
  <2>2. CallInv(t)' /\ InstanceInv(t)' /\ ListInv(t)'
    BY <1>0, <1>21, <2>1
    DEF CreateDevice, Places, GoesTo, Becomes, NoCall, Call, PlaceInv, CallInv,
        InstanceInv, ListInv, ThreadStates, SweepPlaces, InstallPlaces, CreatePlaces,
        ClosePlaces
  <2>3. \A u \in AllThreads : RootInv(u)'
    BY <1>21, <2>1
    DEF CreateDevice, GoesTo, Becomes, NoCall, PlaceInv, RootInv, OnlyMoves, Call, World
  <2>4. PlaceInv' BY <2>1, <2>2, <2>3, OthersStay DEF GoesTo, Becomes
  <2>5. (InDriver(t)' <=> driverMutex' = t) /\ (InDevice(t)' <=> deviceMutex' = t)
    BY <1>21, <2>1, AdaptersAssumption
    DEF CreateDevice, GoesTo, Becomes, NoCall, Call, MutexInv, PlaceInv, CallInv,
        InDriver, InDevice, DriverPlaces, SweepPlaces, InstallPlaces, CreatePlaces,
        ClosePlaces, Mutexes, Takes, AllThreads
  <2>6. MutexInv'
    BY <1>21, <2>1, <2>5, OthersHold DEF CreateDevice, GoesTo, Becomes, Mutexes, Takes
  <2> QED BY <2>4, <2>6
<1>22. ASSUME NEW t \in AllThreads, WaitForInterface(t) PROVE MutexInv' /\ PlaceInv'
  <2>1. GoesTo(t, "enable") \/ Becomes(t, "closeSw", "enable", thread[t].list, TRUE)
    BY <1>0, <1>22, MovesToGoes, ThenGoes DEF WaitForInterface
  <2>2. CallInv(t)' /\ InstanceInv(t)' /\ ListInv(t)'
    BY <1>0, <1>22, <2>1
    DEF WaitForInterface, Places, GoesTo, Becomes, NoCall, Call, PlaceInv, CallInv,
        InstanceInv, ListInv, ThreadStates, SweepPlaces, InstallPlaces, CreatePlaces,
        ClosePlaces
  <2>3. \A u \in AllThreads : RootInv(u)'
    BY <1>22, <2>1
    DEF WaitForInterface, GoesTo, Becomes, NoCall, PlaceInv, RootInv, OnlyMoves, Call,
        World
  <2>4. PlaceInv' BY <2>1, <2>2, <2>3, OthersStay DEF GoesTo, Becomes
  <2>5. (InDriver(t)' <=> driverMutex' = t) /\ (InDevice(t)' <=> deviceMutex' = t)
    BY <1>22, <2>1, AdaptersAssumption
    DEF WaitForInterface, GoesTo, Becomes, NoCall, Call, MutexInv, PlaceInv, CallInv,
        InDriver, InDevice, DriverPlaces, SweepPlaces, InstallPlaces, CreatePlaces,
        ClosePlaces, Mutexes, Takes, AllThreads
  <2>6. MutexInv'
    BY <1>22, <2>1, <2>5, OthersHold
    DEF WaitForInterface, GoesTo, Becomes, Mutexes, Takes
  <2> QED BY <2>4, <2>6
<1>23. ASSUME NEW t \in AllThreads, CloseSwDevice(t) PROVE MutexInv' /\ PlaceInv'
  <2>1. GoesTo(t, "remove")
    BY <1>0, <1>23, MovesToGoes DEF CloseSwDevice
  <2>2. CallInv(t)' /\ InstanceInv(t)' /\ ListInv(t)'
    BY <1>0, <1>23, <2>1
    DEF CloseSwDevice, Places, GoesTo, Becomes, NoCall, Call, PlaceInv, CallInv,
        InstanceInv, ListInv, ThreadStates, SweepPlaces, InstallPlaces, CreatePlaces,
        ClosePlaces
  <2>3. \A u \in AllThreads : RootInv(u)'
    BY <1>23, <2>1
    DEF CloseSwDevice, GoesTo, Becomes, NoCall, PlaceInv, RootInv, OnlyMoves, Call,
        World
  <2>4. PlaceInv' BY <2>1, <2>2, <2>3, OthersStay DEF GoesTo, Becomes
  <2>5. (InDriver(t)' <=> driverMutex' = t) /\ (InDevice(t)' <=> deviceMutex' = t)
    BY <1>23, <2>1, AdaptersAssumption
    DEF CloseSwDevice, GoesTo, Becomes, NoCall, Call, MutexInv, PlaceInv, CallInv,
        InDriver, InDevice, DriverPlaces, SweepPlaces, InstallPlaces, CreatePlaces,
        ClosePlaces, Mutexes, Takes, AllThreads
  <2>6. MutexInv'
    BY <1>23, <2>1, <2>5, OthersHold DEF CloseSwDevice, GoesTo, Becomes, Mutexes, Takes
  <2> QED BY <2>4, <2>6
<1>24. ASSUME NEW t \in AllThreads, RemoveInstance(t) PROVE MutexInv' /\ PlaceInv'
  <2> DEFINE next == IF thread[t].then = "sweep" THEN "idle" ELSE thread[t].then
  <2>0. next \in {"idle", "enable"} /\ next \in Places /\ t[2] = "main"
    BY <1>24
    DEF RemoveInstance, PlaceInv, CallInv, Places, SweepPlaces, ClosePlaces, AllThreads
  <2>1. GoesTo(t, next)
    <3>1. thread' = QueueSweep(t[1], [thread EXCEPT ![t].at = next])
      BY <1>24 DEF RemoveInstance
    <3> HIDE DEF next
    <3> QED BY <1>0, <2>0, <3>1, SweepStartsAfter
  <2>2. CallInv(t)' /\ InstanceInv(t)' /\ ListInv(t)'
    BY <1>0, <1>24, <2>1, <2>0
    DEF RemoveInstance, Places, GoesTo, Becomes, NoCall, Call, PlaceInv, CallInv,
        InstanceInv, ListInv, ThreadStates, SweepPlaces, InstallPlaces, CreatePlaces,
        ClosePlaces
  <2>3. \A u \in AllThreads : RootInv(u)'
    <3>1. rootNodes' = rootNodes /\ OnlyMoves(t)
      BY <1>24, <2>0, <2>1 DEF RemoveInstance, GoesTo, Becomes, World
    <3>2. RootInv(t)' BY <2>0, <2>1 DEF GoesTo, Becomes, RootInv
    <3> QED BY <3>1, <3>2, RootsStay
  <2>4. PlaceInv' BY <2>1, <2>0, <2>2, <2>3, OthersStay DEF GoesTo, Becomes
  <2>5. (InDriver(t)' <=> driverMutex' = t) /\ (InDevice(t)' <=> deviceMutex' = t)
    BY <1>24, <2>1, AdaptersAssumption
    DEF RemoveInstance, GoesTo, Becomes, NoCall, Call, MutexInv, PlaceInv, CallInv,
        InDriver, InDevice, DriverPlaces, SweepPlaces, InstallPlaces, CreatePlaces,
        ClosePlaces, Mutexes, Takes, AllThreads
  <2>6. MutexInv'
    BY <1>24, <2>1, <2>0, <2>5, OthersHold
    DEF RemoveInstance, GoesTo, Becomes, Mutexes, Takes
  <2> QED BY <2>4, <2>6
<1>25. ASSUME NEW t \in AllThreads, Unlock(t) PROVE MutexInv' /\ PlaceInv'
  <2>0. t[2] = "main" /\ OnlyMoves(t)
    BY <1>0, <1>25, UnlockGoes DEF Unlock, PlaceInv, CallInv, SweepPlaces, AllThreads
  <2>1. /\ thread'[t].at = "idle" /\ thread'[t].then = "idle" /\ thread'[t].list = {}
        /\ thread'[t].of = Nobody /\ ~thread'[t].failed
    BY <1>0, <1>25, UnlockGoes DEF NoCall, Call
  <2>2. CallInv(t)' /\ InstanceInv(t)' /\ ListInv(t)'
    BY <1>0, <1>25, <2>1, <2>0
    DEF Unlock, Places, GoesTo, Becomes, NoCall, Call, PlaceInv, CallInv, InstanceInv,
        ListInv, ThreadStates, SweepPlaces, InstallPlaces, CreatePlaces, ClosePlaces
  <2>3. \A u \in AllThreads : RootInv(u)'
    <3>1. rootNodes' = rootNodes /\ OnlyMoves(t)
      BY <1>25, <2>0, <2>1 DEF Unlock, GoesTo, Becomes, World
    <3>2. RootInv(t)' BY <2>0, <2>1 DEF GoesTo, Becomes, RootInv
    <3> QED BY <3>1, <3>2, RootsStay
  <2>4. PlaceInv' BY <2>1, <2>0, <2>2, <2>3, OthersStay DEF GoesTo, Becomes
  <2>5. (InDriver(t)' <=> driverMutex' = t) /\ (InDevice(t)' <=> deviceMutex' = t)
    BY <1>25, <2>1, AdaptersAssumption
    DEF Unlock, GoesTo, Becomes, NoCall, Call, MutexInv, PlaceInv, CallInv, InDriver,
        InDevice, DriverPlaces, SweepPlaces, InstallPlaces, CreatePlaces, ClosePlaces,
        Mutexes, Takes, AllThreads
  <2>6. MutexInv'
    BY ZenonT(60), <1>25, <2>1, <2>0, <2>5, OthersHold, AdaptersAssumption
    DEF Unlock, GoesTo, Becomes, Mutexes, Takes, AllThreads, MutexInv, PlaceInv,
        CallInv, InDriver, InDevice, DriverPlaces
  <2> QED BY <2>4, <2>6
<1>26. ASSUME NEW p \in Processes, Kill(p) PROVE MutexInv' /\ PlaceInv'
  <2>1. \A u \in AllThreads : thread'[u] = IF u[1] = p THEN NoCall ELSE thread[u]
    BY <1>26 DEF Kill
  <2>2. rootNodes' = rootNodes BY <1>26 DEF Kill
  <2>3. ASSUME NEW u \in AllThreads
        PROVE  CallInv(u)' /\ InstanceInv(u)' /\ ListInv(u)' /\ RootInv(u)'
    <3>1. CASE u[1] = p
      BY <2>1, <3>1
      DEF NoCall, Call, CallInv, InstanceInv, ListInv, RootInv, SweepPlaces,
          InstallPlaces, CreatePlaces, ClosePlaces
    <3>2. CASE u[1] # p
      BY <2>1, <2>2, <3>2 DEF PlaceInv, CallInv, InstanceInv, ListInv, RootInv
    <3> QED BY <3>1, <3>2
  <2>4. ASSUME NEW u \in AllThreads
        PROVE  (InDriver(u)' <=> driverMutex' = u) /\ (InDevice(u)' <=> deviceMutex' = u)
    <3>1. u # Nobody BY AdaptersAssumption DEF AllThreads
    <3>2. CASE u[1] = p
      <4>1. ~InDriver(u)' /\ ~InDevice(u)'
        BY <2>1, <3>2 DEF NoCall, Call, InDriver, InDevice, DriverPlaces
      <4>2. driverMutex' # u /\ deviceMutex' # u
        BY <1>26, <3>1, <3>2 DEF Kill, Abandoned
      <4> QED BY <4>1, <4>2
    <3>3. CASE u[1] # p
      <4>1. (InDriver(u)' <=> InDriver(u)) /\ (InDevice(u)' <=> InDevice(u))
        BY <2>1, <3>3 DEF InDriver, InDevice
      <4>2. (driverMutex' = u <=> driverMutex = u) /\ (deviceMutex' = u <=> deviceMutex = u)
        BY <1>26, <3>1, <3>3 DEF Kill, Abandoned
      <4> QED BY <4>1, <4>2 DEF MutexInv
    <3> QED BY <3>2, <3>3
  <2> QED BY <2>3, <2>4 DEF PlaceInv, MutexInv
<1> QED
  BY <1>1, <1>2, <1>3, <1>4, <1>5, <1>6, <1>7, <1>8, <1>9, <1>10, <1>11, <1>12, <1>13,
      <1>14, <1>15, <1>16, <1>17, <1>18, <1>19, <1>20, <1>21, <1>22, <1>23, <1>24,
      <1>25, <1>26
  DEF AdaptersNext

-----------------------------------------------------------------------------
(* Adapters: what is in use.                                               *)

APInv == AdaptersTypeOK /\ MutexInv /\ PlaceInv /\ UseInv

(* What a step says of the threads that do not move.                       *)
LEMMA OthersSame ==
    ASSUME PlaceInv, NEW t \in AllThreads, OnlyMoves(t), NEW u \in AllThreads, u # t
    PROVE  /\ thread'[u].list = thread[u].list
           /\ Claims(u)' <=> Claims(u)
           /\ Claims(u) => thread'[u] = thread[u]
<1>1. CASE thread'[u] = thread[u] BY <1>1 DEF Claims, Created
<1>2. CASE thread[u].at = "idle" /\ thread'[u] = Call("sweepRoot", "idle", Nobody)
  BY <1>2 DEF PlaceInv, ListInv, CreatePlaces, ClosePlaces, Claims, Created, Call
<1> QED BY <1>1, <1>2 DEF OnlyMoves

LEMMA InUseStays ==
    ASSUME PlaceInv, NEW t \in AllThreads, OnlyMoves(t),
           NEW i, thread[t].list \subseteq thread'[t].list, node'[i] = node[i], InUse(i)
    PROVE  InUse(i)'
<1>1. ASSUME NEW u \in AllThreads, i \in thread[u].list PROVE i \in thread'[u].list
  BY <1>1, OthersSame
<1> QED BY <1>1 DEF InUse

(* It is enough to look at the thread that moves and at the instances J    *)
(* whose nodes change.                                                     *)
LEMMA UseChanges ==
    ASSUME AdaptersTypeOK, PlaceInv, UseInv, NEW t \in AllThreads, OnlyMoves(t), NEW J,
           abandoned \subseteq abandoned',
           \A p \in Processes : \A i \in owned'[p] :
             \/ i \in owned[p]
             \/ /\ Claims(t) /\ i = thread[t].of
                /\ i \notin abandoned' => InUse(i)' /\ swDevice'[i] = p,
           \A i \in Instances \ J : node'[i] = node[i] /\ swDevice'[i] = swDevice[i],
           \A i \in thread[t].list : i \in J \/ i \in thread'[t].list,
           \A j \in J : \A p \in Processes :
             j \notin abandoned' /\ j \in owned[p] => InUse(j)' /\ swDevice'[j] = p,
           \A u \in AllThreads \ {t} :
             Claims(u) /\ thread[u].of \in J /\ thread[u].of \notin abandoned' => NodeInv(u)',
           ClaimInv(t)', NodeInv(t)'
    PROVE  UseInv'
<1>0. \A u \in AllThreads : Claims(u) => thread[u].of \in Instances
  BY DEF Claims, Created, PlaceInv, InstanceInv, CreatePlaces, ClosePlaces,
         AdaptersTypeOK, ThreadStates
<1>1. ASSUME NEW i \in Instances, i \notin J, InUse(i) PROVE InUse(i)'
  <2>1. ASSUME NEW u \in AllThreads, i \in thread[u].list PROVE i \in thread'[u].list
    BY <1>1, <2>1, OthersSame
  <2> QED BY <1>1, <2>1 DEF InUse
<1>2. OwnedInv'
  <2>1. SUFFICES ASSUME NEW p \in Processes, NEW i, i \in owned'[p], i \notin abandoned'
                 PROVE  InUse(i)' /\ swDevice'[i] = p
    BY DEF OwnedInv
  <2>2. CASE i \notin owned[p] BY <2>1, <2>2
  <2>3. CASE i \in owned[p] /\ i \in J BY <2>1, <2>3
  <2>4. CASE i \in owned[p] /\ i \notin J
    <3>1. InUse(i) /\ swDevice[i] = p BY <2>1, <2>4 DEF UseInv, OwnedInv
    <3>2. i \in Instances BY <2>4 DEF AdaptersTypeOK
    <3> QED BY <1>1, <2>4, <3>1, <3>2
  <2> QED BY <2>2, <2>3, <2>4
<1>3. ASSUME NEW u \in AllThreads, u # t PROVE ClaimInv(u)'
  <2>1. SUFFICES ASSUME Claims(u)', thread'[u].of \notin abandoned'
                 PROVE  /\ \A p \in Processes : thread'[u].of \notin owned'[p]
                        /\ \A w \in AllThreads :
                             Claims(w)' /\ w # u => thread'[w].of # thread'[u].of
    BY DEF ClaimInv
  <2>2. Claims(u) /\ thread'[u] = thread[u] BY <1>3, <2>1, OthersSame
  <2>3. ClaimInv(u) BY DEF UseInv
  <2>4. ASSUME NEW p \in Processes, thread'[u].of \in owned'[p] PROVE FALSE
    <3>1. thread[u].of \notin owned[p] BY <2>1, <2>2, <2>3 DEF ClaimInv
    <3>2. Claims(t) /\ thread[u].of = thread[t].of BY <2>2, <2>4, <3>1
    <3> QED BY <1>3, <2>1, <2>2, <2>3, <3>2 DEF ClaimInv
  <2>5. ASSUME NEW w \in AllThreads, Claims(w)', w # u PROVE thread'[w].of # thread'[u].of
    <3>1. CASE w = t BY <1>3, <2>1, <2>5, <3>1 DEF ClaimInv
    <3>2. CASE w # t
      <4>1. Claims(w) /\ thread'[w] = thread[w] BY <2>5, <3>2, OthersSame
      <4> QED BY <2>1, <2>2, <2>3, <2>5, <4>1 DEF ClaimInv
    <3> QED BY <3>1, <3>2
  <2> QED BY <2>4, <2>5
<1>4. ASSUME NEW u \in AllThreads, u # t PROVE NodeInv(u)'
  <2>1. CASE ~Claims(u)
    <3>1. ~Claims(u)' BY <1>4, <2>1, OthersSame
    <3> QED BY <3>1 DEF NodeInv, Claims
  <2>2. CASE Claims(u)
    <3>1. thread'[u] = thread[u] BY <1>4, <2>2, OthersSame
    <3>2. CASE thread[u].of \in J
      <4>1. CASE thread[u].of \in abandoned' BY <3>1, <4>1 DEF NodeInv
      <4>2. CASE thread[u].of \notin abandoned' BY <1>4, <2>2, <3>2, <4>2
      <4> QED BY <4>1, <4>2
    <3>3. CASE thread[u].of \notin J
      <4>1. PICK i : i = thread[u].of OBVIOUS
      <4>2. node'[i] = node[i] /\ swDevice'[i] = swDevice[i] BY <1>0, <2>2, <3>3, <4>1
      <4>3. InUse(i) => InUse(i)' BY <1>0, <1>1, <2>2, <3>3, <4>1
      <4>4. NodeInv(u) BY DEF UseInv
      <4>5. i \in abandoned => i \in abandoned' OBVIOUS
      <4> QED BY <3>1, <4>1, <4>2, <4>3, <4>4, <4>5 DEF NodeInv, Created, InUse
    <3> QED BY <3>2, <3>3
  <2> QED BY <2>1, <2>2
<1> QED BY <1>2, <1>3, <1>4 DEF UseInv

(* A thread that makes no claim, or had made it already.                   *)
LEMMA NoClaim ==
    ASSUME NEW t \in AllThreads, ~Claims(t)'
    PROVE  ClaimInv(t)' /\ NodeInv(t)'
BY DEF ClaimInv, NodeInv, Claims

LEMMA ClaimStays ==
    ASSUME PlaceInv, UseInv, NEW t \in AllThreads, OnlyMoves(t), Claims(t),
           thread'[t].of = thread[t].of, abandoned \subseteq abandoned',
           \A p \in Processes : owned'[p] \subseteq owned[p]
    PROVE  ClaimInv(t)'
<1>1. ClaimInv(t) BY DEF UseInv
<1>2. \A u \in AllThreads \ {t} : Claims(u)' => Claims(u) /\ thread'[u].of = thread[u].of
  BY OthersSame
<1> QED BY <1>1, <1>2 DEF ClaimInv

(* Claims are made under the device mutex, but for those of who closes an  *)
(* adapter that was in use.                                                *)
LEMMA ClaimsHold ==
    ASSUME PlaceInv, UseInv, NEW u \in AllThreads, Claims(u)
    PROVE  \/ InDevice(u)
           \/ /\ thread[u].at = "closeSw" /\ thread[u].then = "sweep"
              /\ thread[u].of \notin abandoned =>
                   InUse(thread[u].of) /\ swDevice[thread[u].of] = u[1]
<1>1. CallInv(u) /\ NodeInv(u) BY DEF PlaceInv, UseInv
<1> QED
  BY <1>1 DEF CallInv, NodeInv, Claims, Created, InDevice, CreatePlaces, ClosePlaces

LEMMA OneHolds ==
    ASSUME MutexInv, NEW t \in AllThreads, NEW u \in AllThreads, InDevice(t), InDevice(u)
    PROVE  t = u
BY DEF MutexInv

(* Nothing moves but a thread.                                             *)
LEMMA NothingChanges ==
    ASSUME AdaptersTypeOK, PlaceInv, UseInv, NEW t \in AllThreads, OnlyMoves(t),
           node' = node, swDevice' = swDevice, owned' = owned, abandoned' = abandoned,
           thread[t].list \subseteq thread'[t].list, ClaimInv(t)', NodeInv(t)'
    PROVE  UseInv'
<1> DEFINE J == {}
<1>1. /\ \A p \in Processes : \A i \in owned'[p] : i \in owned[p]
      /\ \A i \in Instances \ J : node'[i] = node[i] /\ swDevice'[i] = swDevice[i]
      /\ \A j : j \notin J
  OBVIOUS
<1> HIDE DEF J
<1> QED BY <1>1, UseChanges

LEMMA UseStays ==
    ASSUME AdaptersTypeOK, PlaceInv, UseInv, NEW t \in AllThreads, OnlyMoves(t),
           node' = node, swDevice' = swDevice, owned' = owned, abandoned' = abandoned,
           thread[t].list \subseteq thread'[t].list, ~Claims(t)'
    PROVE  UseInv'
BY NoClaim, NothingChanges

(* The node of an instance is changed by who has claimed it.               *)
LEMMA ClaimantChanges ==
    ASSUME AdaptersTypeOK, PlaceInv, UseInv, NEW t \in AllThreads, OnlyMoves(t), Claims(t),
           owned' = owned, abandoned' = abandoned,
           \A j \in Instances \ {thread[t].of} :
             node'[j] = node[j] /\ swDevice'[j] = swDevice[j],
           thread[t].list \subseteq thread'[t].list, ClaimInv(t)', NodeInv(t)'
    PROVE  UseInv'
<1>1. PICK i : i = thread[t].of OBVIOUS
<1>2. ClaimInv(t) BY DEF UseInv
<1> DEFINE J == {i}
<1>3. \A j \in J : \A p \in Processes : j \notin abandoned' => j \notin owned[p]
  BY <1>1, <1>2 DEF ClaimInv
<1>4. \A u \in AllThreads \ {t} :
        Claims(u) => thread[u].of \notin J \/ thread[u].of \in abandoned'
  BY <1>1, <1>2 DEF ClaimInv
<1>5. \A p \in Processes : \A j \in owned'[p] : j \in owned[p] OBVIOUS
<1>6. \A j \in Instances \ J : node'[j] = node[j] /\ swDevice'[j] = swDevice[j] BY <1>1
<1> HIDE DEF J
<1> QED BY <1>3, <1>4, <1>5, <1>6, UseChanges

(* A step that leaves the nodes and the adapters in use alone.             *)
Quiet == UNCHANGED <<node, swDevice, owned, abandoned>>

LEMMA UseKept ==
    ASSUME AdaptersAssumption, AdaptersTypeOK, MutexInv, PlaceInv, UseInv, AdaptersNext
    PROVE  UseInv'
<1>0. /\ thread \in [AllThreads -> ThreadStates] /\ node \in [Instances -> NodeStates]
      /\ swDevice \in [Instances -> Processes \cup {Nobody}]
      /\ owned \in [Processes -> SUBSET Instances]
  BY DEF AdaptersTypeOK
<1>a. \A t \in AllThreads : CallInv(t) /\ InstanceInv(t) /\ ListInv(t) BY DEF PlaceInv
<1>b. \A t \in AllThreads : ClaimInv(t) /\ NodeInv(t) BY DEF UseInv
<1>1. ASSUME NEW p \in Processes, DeleteDriver(p) PROVE UseInv'
  <2> DEFINE t == <<p, "main">>
  <2>1. /\ t \in AllThreads /\ thread[t].at = "idle" /\ OnlyMoves(t)
        /\ thread'[t] = Call("sweepRoot", "delete", Nobody)
    BY <1>0, <1>1, EnterGoes DEF DeleteDriver
  <2>2. Quiet BY <1>1 DEF DeleteDriver, Quiet, World
  <2> HIDE DEF t
  <2>3. ~Claims(t)' /\ thread[t].list = {}
    BY <1>a, <2>1 DEF Call, Claims, Created, ListInv, CreatePlaces, ClosePlaces
  <2> QED BY <2>1, <2>2, <2>3, UseStays DEF Quiet
<1>2. ASSUME NEW p \in Processes, OpenAdapter(p) PROVE UseInv'
  <2> DEFINE t == <<p, "main">>
  <2>1. /\ t \in AllThreads /\ thread[t].at = "idle" /\ OnlyMoves(t)
        /\ thread'[t] = Call("lock", "find", Nobody)
    BY <1>0, <1>2, EnterGoes DEF OpenAdapter
  <2>2. Quiet BY <1>2 DEF OpenAdapter, Quiet, World
  <2> HIDE DEF t
  <2>3. ~Claims(t)' /\ thread[t].list = {}
    BY <1>a, <2>1 DEF Call, Claims, Created, ListInv, CreatePlaces, ClosePlaces
  <2> QED BY <2>1, <2>2, <2>3, UseStays DEF Quiet
<1>3. ASSUME NEW p \in Processes, NEW i \in Instances, CreateAdapter(p, i) PROVE UseInv'
  <2> DEFINE t == <<p, "main">>
  <2>1. /\ t \in AllThreads /\ thread[t].at = "idle" /\ OnlyMoves(t)
        /\ thread'[t] = Call("lock", "sweepRoot", i)
    BY <1>0, <1>3, EnterGoes DEF CreateAdapter
  <2>2. Quiet BY <1>3 DEF CreateAdapter, Quiet, World
  <2> HIDE DEF t
  <2>3. ~Claims(t)' /\ thread[t].list = {}
    BY <1>a, <2>1 DEF Call, Claims, Created, ListInv, CreatePlaces, ClosePlaces
  <2> QED BY <2>1, <2>2, <2>3, UseStays DEF Quiet
<1>4. ASSUME NEW p \in Processes, NEW i \in Instances, CloseAdapter(p, i) PROVE UseInv'
  <2> DEFINE t == <<p, "main">>
  <2>1. /\ t \in AllThreads /\ thread[t].at = "idle" /\ OnlyMoves(t) /\ t[1] = p
        /\ thread'[t] = Call("closeSw", "sweep", i)
    BY <1>0, <1>4, EnterGoes DEF CloseAdapter
  <2> HIDE DEF t
  <2>2. /\ node' = node /\ swDevice' = swDevice /\ abandoned' = abandoned
        /\ owned' = [owned EXCEPT ![p] = @ \ {i}] /\ i \in owned[p]
    BY <1>4 DEF CloseAdapter, World
  <2>3. thread[t].list = {} BY <1>a, <2>1 DEF ListInv, CreatePlaces, ClosePlaces
  <2>4. /\ \A q \in Processes : owned'[q] \subseteq owned[q]
        /\ \A q \in Processes \ {p} : owned'[q] = owned[q]
        /\ i \notin owned'[p]
    BY <1>0, <2>2
  <2>5. i \notin abandoned => InUse(i) /\ \A q \in Processes : i \in owned[q] => swDevice[i] = q
    BY <2>2 DEF UseInv, OwnedInv
  <2>6. ClaimInv(t)'
    <3>1. SUFFICES ASSUME i \notin abandoned
                   PROVE  /\ \A q \in Processes : i \notin owned'[q]
                          /\ \A u \in AllThreads : Claims(u)' /\ u # t => thread'[u].of # i
      BY <2>1, <2>2 DEF ClaimInv, Call
    <3>2. \A q \in Processes : i \notin owned'[q] BY <2>2, <2>4, <2>5, <3>1
    <3>3. ASSUME NEW u \in AllThreads, Claims(u)', u # t PROVE thread'[u].of # i
      <4>1. Claims(u) /\ thread'[u] = thread[u] BY <2>1, <3>3, OthersSame
      <4> QED BY <1>b, <2>2, <3>1, <4>1 DEF ClaimInv
    <3> QED BY <3>2, <3>3
  <2>7. NodeInv(t)'
    <3>1. i \notin abandoned => InUse(i)' BY <2>1, <2>2, <2>3, <2>5, InUseStays
    <3>2. i \notin abandoned => swDevice[i] = p BY <2>2, <2>5
    <3> QED BY <2>1, <2>2, <3>1, <3>2 DEF NodeInv, Call, Created, InUse
  <2> QED BY <2>1, <2>2, <2>3, <2>4, <2>6, <2>7, UseChanges
<1>5. ASSUME NEW t \in AllThreads, TakeDriverForSweep(t) PROVE UseInv'
  <2>1. GoesTo(t, "removeRoot")
    BY <1>0, <1>5, MovesToGoes DEF TakeDriverForSweep
  <2>2. Quiet BY <1>5 DEF TakeDriverForSweep, Quiet, World, Others
  <2>3. ~Claims(t)'
    BY <1>a, <1>5, <2>1 DEF TakeDriverForSweep, Becomes, GoesTo, Claims, Created
  <2> QED BY <2>1, <2>2, <2>3, UseStays DEF Quiet, GoesTo, Becomes
<1>6. ASSUME NEW t \in AllThreads, RemoveRootNodes(t) PROVE UseInv'
  <2>1. GoesTo(t, "sweepSwd")
    BY <1>0, <1>6, MovesToGoes DEF RemoveRootNodes
  <2>2. Quiet BY <1>6 DEF RemoveRootNodes, Quiet, World, Others
  <2>3. ~Claims(t)'
    BY <1>a, <1>6, <2>1 DEF RemoveRootNodes, Becomes, GoesTo, Claims, Created
  <2> QED BY <2>1, <2>2, <2>3, UseStays DEF Quiet, GoesTo, Becomes
<1>7. ASSUME NEW t \in AllThreads, SweepSwd(t) PROVE UseInv'
  <2>1. GoesTo(t, thread[t].then) BY <1>0, <1>7, MovesToGoes DEF SweepSwd
  <2>2. PICK removed \in SUBSET {i \in Instances : Orphaned(i)} :
          node' = [i \in Instances |-> IF i \in removed THEN "none" ELSE node[i]]
    BY <1>7 DEF SweepSwd
  <2>3. swDevice' = swDevice /\ owned' = owned /\ abandoned' = abandoned
    BY <1>7 DEF SweepSwd, Others
  <2>4. thread[t].at = "sweepSwd" /\ thread[t].then \in {"idle", "delete", "install"}
    BY <1>a, <1>7 DEF SweepSwd, CallInv, SweepPlaces
  <2>5. ~Claims(t)' BY <2>1, <2>4 DEF GoesTo, Becomes, Claims, Created
  <2>6. \A u \in AllThreads : InDevice(u) => u = t
    BY <1>7, AdaptersAssumption DEF SweepSwd, Takes, MutexInv, AllThreads
  <2>7. \A i \in Instances : i \notin removed => node'[i] = node[i] BY <2>2
  <2>8. \A i \in removed : ~InUse(i)
    <3>1. \A u \in AllThreads : thread[u].list = {}
      BY <1>a, <2>4, <2>6 DEF ListInv, InDevice, CreatePlaces, ClosePlaces
    <3> QED BY <3>1, <2>2 DEF InUse, Orphaned
  <2>9. \A j \in removed : \A p \in Processes : j \notin abandoned => j \notin owned[p]
    BY <2>8 DEF UseInv, OwnedInv
  <2>10. \A u \in AllThreads \ {t} : Claims(u) =>
           thread[u].of \notin removed \/ thread[u].of \in abandoned
    BY <2>6, <2>8, ClaimsHold
  <2> QED
    BY <2>1, <2>3, <2>5, <2>7, <2>9, <2>10, NoClaim, UseChanges DEF GoesTo, Becomes
<1>8. ASSUME NEW t \in AllThreads, BeginInstall(t) PROVE UseInv'
  <2>1. \/ GoesTo(t, "enumerate")
        \/ Becomes(t, "endInstall", thread[t].then, thread[t].list, TRUE)
    BY <1>0, <1>8, MovesToGoes, FailedGoes DEF BeginInstall
  <2>2. Quiet BY <1>8 DEF BeginInstall, Quiet, World, Others
  <2>3. ~Claims(t)'
    BY <1>a, <1>8, <2>1 DEF BeginInstall, Becomes, GoesTo, Claims, Created
  <2> QED BY <2>1, <2>2, <2>3, UseStays DEF Quiet, GoesTo, Becomes
<1>9. ASSUME NEW t \in AllThreads, EnumerateDrivers(t) PROVE UseInv'
  <2>1. GoesTo(t, "disable") \/ GoesTo(t, "copy")
    BY <1>0, <1>9, MovesToGoes DEF EnumerateDrivers
  <2>2. Quiet BY <1>9 DEF EnumerateDrivers, Quiet, World, Others
  <2>3. ~Claims(t)'
    BY <1>a, <1>9, <2>1 DEF EnumerateDrivers, Becomes, GoesTo, Claims, Created
  <2> QED BY <2>1, <2>2, <2>3, UseStays DEF Quiet, GoesTo, Becomes
<1>10. ASSUME NEW t \in AllThreads, DisableAdapter(t) PROVE UseInv'
  <2>1. PICK i \in Instances : /\ node[i] = "running"
                               /\ node' = [node EXCEPT ![i] = "disabled"]
                               /\ thread' = [thread EXCEPT ![t].list = @ \cup {i}]
    BY <1>10 DEF DisableAdapter
  <2>2. Becomes(t, thread[t].at, thread[t].then, thread[t].list \cup {i}, thread[t].failed)
    BY <1>0, <2>1, ListGoes
  <2>3. swDevice' = swDevice /\ owned' = owned /\ abandoned' = abandoned
    BY <1>10 DEF DisableAdapter, Others
  <2>4. /\ ~Claims(t)' /\ InDevice(t)
    BY <1>a, <1>10, <2>2
    DEF DisableAdapter, Becomes, Claims, Created, CallInv, InDevice, InstallPlaces
  <2>5. InUse(i)' BY <1>0, <2>1, <2>2 DEF InUse, Becomes
  <2>6. ASSUME NEW u \in AllThreads, u # t, Claims(u), thread[u].of = i, i \notin abandoned
        PROVE  NodeInv(u)'
    <3>1. thread'[u] = thread[u] BY <2>2, <2>6, OthersSame DEF Becomes
    <3>2. thread[u].at = "closeSw" /\ swDevice[i] = u[1]
      BY <2>4, <2>6, ClaimsHold, OneHolds
    <3> QED BY <2>3, <2>5, <2>6, <3>1, <3>2 DEF NodeInv, Created, InUse
  <2>7. \A p \in Processes : i \notin abandoned /\ i \in owned[p] => swDevice[i] = p
    BY DEF UseInv, OwnedInv
  <2>8. \A j \in Instances : j # i => node'[j] = node[j] BY <1>0, <2>1
  <2>9. ClaimInv(t)' /\ NodeInv(t)' BY <2>4, NoClaim
  <2> DEFINE J == {i}
  <2>10. \A j \in J : \A p \in Processes :
           j \notin abandoned' /\ j \in owned[p] => InUse(j)' /\ swDevice'[j] = p
    BY <2>3, <2>5, <2>7 DEF InUse
  <2>11. \A u \in AllThreads \ {t} :
           Claims(u) /\ thread[u].of \in J /\ thread[u].of \notin abandoned' => NodeInv(u)'
    BY <2>3, <2>6
  <2>12. /\ \A j \in Instances \ J : node'[j] = node[j] /\ swDevice'[j] = swDevice[j]
         /\ \A j \in thread[t].list : j \in thread'[t].list
    BY <2>2, <2>3, <2>8 DEF Becomes
  <2>13. \A p \in Processes : \A j \in owned'[p] : j \in owned[p] BY <2>3
  <2> HIDE DEF J
  <2> QED BY <2>2, <2>3, <2>9, <2>10, <2>11, <2>12, <2>13, UseChanges DEF Becomes
<1>11. ASSUME NEW t \in AllThreads, RemoveOutdated(t) PROVE UseInv'
  <2>1. GoesTo(t, "copy")
    BY <1>0, <1>11, MovesToGoes DEF RemoveOutdated
  <2>2. Quiet BY <1>11 DEF RemoveOutdated, Quiet, World, Others
  <2>3. ~Claims(t)'
    BY <1>a, <1>11, <2>1 DEF RemoveOutdated, Becomes, GoesTo, Claims, Created
  <2> QED BY <2>1, <2>2, <2>3, UseStays DEF Quiet, GoesTo, Becomes
<1>12. ASSUME NEW t \in AllThreads, CopyDriver(t) PROVE UseInv'
  <2>1. \/ GoesTo(t, "endInstall")
        \/ Becomes(t, "endInstall", thread[t].then, thread[t].list, TRUE)
        \/ Becomes(t, "enableHere", thread[t].then, thread[t].list, TRUE)
    BY <1>0, <1>12, MovesToGoes, FailedGoes DEF CopyDriver
  <2>2. Quiet BY <1>12 DEF CopyDriver, Quiet, World, Others
  <2>3. ~Claims(t)'
    BY <1>a, <1>12, <2>1 DEF CopyDriver, Becomes, GoesTo, Claims, Created
  <2> QED BY <2>1, <2>2, <2>3, UseStays DEF Quiet, GoesTo, Becomes
<1>13. ASSUME NEW t \in AllThreads, EndInstall(t) PROVE UseInv'
  <2>1. \/ GoesTo(t, "unlock") /\ thread[t].failed
        \/ GoesTo(t, "createStub")
    BY <1>0, <1>13, MovesToGoes DEF EndInstall
  <2>2. Quiet BY <1>13 DEF EndInstall, Quiet, World, Others
  <2>3. ~Claims(t)'
    BY <1>a, <1>13, <2>1 DEF EndInstall, Becomes, GoesTo, Claims, Created
  <2> QED BY <2>1, <2>2, <2>3, UseStays DEF Quiet, GoesTo, Becomes
<1>14. ASSUME NEW t \in AllThreads, RemoveDrivers(t) PROVE UseInv'
  <2>1. GoesTo(t, "idle")
    BY <1>0, <1>14, MovesToGoes DEF RemoveDrivers
  <2>2. Quiet BY <1>14 DEF RemoveDrivers, Quiet, World, Others
  <2>3. ~Claims(t)'
    BY <1>a, <1>14, <2>1 DEF RemoveDrivers, Becomes, GoesTo, Claims, Created
  <2> QED BY <2>1, <2>2, <2>3, UseStays DEF Quiet, GoesTo, Becomes
<1>15. ASSUME NEW t \in AllThreads, EnableAdapter(t) PROVE UseInv'
  <2>1. PICK i \in thread[t].list :
          /\ \/ node[i] = "disabled" /\ node' = [node EXCEPT ![i] = "running"]
                                     /\ abandoned' = abandoned
             \/ node' = node /\ abandoned' = abandoned \cup {i}
          /\ thread' = [thread EXCEPT ![t].list = @ \ {i}]
    BY <1>15 DEF EnableAdapter
  <2>2. Becomes(t, thread[t].at, thread[t].then, thread[t].list \ {i}, thread[t].failed)
    BY <1>0, <2>1, ListGoes
  <2>3. swDevice' = swDevice /\ owned' = owned /\ abandoned \subseteq abandoned'
    BY <1>15, <2>1 DEF EnableAdapter, Others
  <2>4. i \in Instances BY <1>0, <2>1 DEF ThreadStates
  <2>5. InDevice(t) BY <1>a, <1>15 DEF EnableAdapter, CallInv, InDevice, InstallPlaces
  <2>6. i \in abandoned' \/ node'[i] = "running" BY <1>0, <2>1, <2>4
  <2>7. \A j \in Instances : j # i => node'[j] = node[j] BY <1>0, <2>1
  <2>8. ASSUME NEW u \in AllThreads, u # t, Claims(u), thread[u].of = i, i \notin abandoned'
        PROVE  NodeInv(u)'
    <3>1. thread'[u] = thread[u] BY <2>2, <2>8, OthersSame DEF Becomes
    <3>2. thread[u].at = "closeSw" /\ swDevice[i] = u[1]
      BY <2>3, <2>5, <2>8, ClaimsHold, OneHolds
    <3> QED BY <2>3, <2>6, <2>8, <3>1, <3>2 DEF NodeInv, Created, InUse
  <2>9. \A p \in Processes : i \notin abandoned' /\ i \in owned[p] => swDevice[i] = p
    BY <2>3 DEF UseInv, OwnedInv
  <2>10. \A j \in {i} : \A p \in Processes :
           j \notin abandoned' /\ j \in owned[p] => InUse(j)' /\ swDevice'[j] = p
    BY <2>3, <2>6, <2>9 DEF InUse
  <2>11. ClaimInv(t)' /\ NodeInv(t)'
    <3>1. CASE Claims(t)
      <4>1. thread[t].at \in {"enable"}
        BY <1>15, <3>1 DEF EnableAdapter, Claims, Created
      <4>2. ClaimInv(t)' BY <2>2, <2>3, <3>1, ClaimStays DEF Becomes
      <4>3. thread[t].of \in Instances
        BY <1>0, <3>1, <4>1 DEF Claims, Created, ThreadStates
      <4>4. CASE thread[t].of = i
        <5>1. i \notin abandoned => node[i] = "running" /\ swDevice[i] = t[1]
          BY <1>b, <3>1, <4>1, <4>4 DEF NodeInv, Claims, Created
        <5> QED BY <2>1, <2>2, <2>3, <4>1, <4>2, <4>4, <5>1 DEF NodeInv, Becomes
      <4>5. CASE thread[t].of # i
        <5>1. node'[thread[t].of] = node[thread[t].of] BY <2>7, <4>3, <4>5
        <5>2. NodeInv(t) BY <1>b
        <5> QED BY <2>2, <2>3, <4>1, <4>2, <5>1, <5>2 DEF NodeInv, Becomes, Created
      <4> QED BY <4>4, <4>5
    <3>2. CASE ~Claims(t)
      <4>1. ~Claims(t)' BY <2>2, <3>2 DEF Becomes, Claims, Created
      <4> QED BY <4>1, NoClaim
    <3> QED BY <3>1, <3>2
  <2> QED BY ZenonT(60), <2>2, <2>3, <2>7, <2>8, <2>10, <2>11, UseChanges DEF Becomes
<1>16. ASSUME NEW t \in AllThreads, EnabledAll(t) PROVE UseInv'
  <2>1. \/ GoesTo(t, "unlock") /\ thread[t].at = "enable"
        \/ GoesTo(t, "endInstall") /\ thread[t].at = "enableHere"
    BY <1>0, <1>16, MovesToGoes DEF EnabledAll
  <2>2. Quiet BY <1>16 DEF EnabledAll, Quiet, World, Others
  <2>3. ClaimInv(t)' /\ NodeInv(t)'
    <3>1. CASE Claims(t)'
      <4>1. Claims(t) /\ thread[t].at = "enable"
        BY <2>1, <3>1 DEF GoesTo, Becomes, Claims, Created
      <4>2. ClaimInv(t)' BY <2>1, <2>2, <4>1, ClaimStays DEF GoesTo, Becomes, Quiet
      <4>3. NodeInv(t) BY <1>b
      <4> QED
        BY <2>1, <2>2, <4>1, <4>2, <4>3 DEF NodeInv, GoesTo, Becomes, Created, Quiet
    <3>2. CASE ~Claims(t)' BY <3>2, NoClaim
    <3> QED BY <3>1, <3>2
  <2> QED BY <2>1, <2>2, <2>3, NothingChanges DEF Quiet, GoesTo, Becomes
<1>17. ASSUME NEW t \in AllThreads, LockDevice(t) PROVE UseInv'
  <2>1. Becomes(t, thread[t].then, "install", thread[t].list, thread[t].failed)
    BY <1>0, <1>17, ThenGoes DEF LockDevice
  <2>2. Quiet BY <1>17 DEF LockDevice, Quiet, World, Others
  <2>3. ~Claims(t)'
    BY <1>a, <1>17, <2>1 DEF LockDevice, Becomes, Claims, Created, CallInv
  <2> QED BY <2>1, <2>2, <2>3, UseStays DEF Quiet, Becomes
<1>18. ASSUME NEW t \in AllThreads, FindAdapter(t) PROVE UseInv'
  <2>1. GoesTo(t, "unlock")
    <3>0. "unlock" \in Places BY DEF Places
    <3>1. CASE MovesTo(t, "unlock") BY <1>0, <3>1, MovesToGoes
    <3>2. CASE thread' = QueueSweep(t[1], [thread EXCEPT ![t].at = "unlock"])
      BY <1>0, <3>0, <3>2, SweepStartsAfter
    <3> QED BY <1>18, <3>1, <3>2 DEF FindAdapter
  <2>2. Quiet BY <1>18 DEF FindAdapter, Quiet, World, Others
  <2>3. ~Claims(t)'
    BY <1>a, <1>18, <2>1 DEF FindAdapter, GoesTo, Becomes, Claims, Created, InstanceInv
  <2> QED BY <2>1, <2>2, <2>3, UseStays DEF Quiet, GoesTo, Becomes
<1>19. ASSUME NEW t \in AllThreads, CreateStub(t) PROVE UseInv'
  <2> DEFINE i == thread[t].of
  <2>1. /\ thread[t].at = "createStub" /\ InDevice(t) /\ i \in Instances
    BY <1>a, <1>19 DEF CreateStub, CallInv, InstanceInv, InDevice, CreatePlaces
  <2>2. owned' = owned /\ abandoned' = abandoned BY <1>19 DEF CreateStub, Others
  <2>3. CASE GivesUp(t) /\ UNCHANGED <<node, swDevice>>
    <3>1. Becomes(t, "enable", thread[t].then, thread[t].list, TRUE)
      BY <1>0, <2>3, GivesUpGoes
    <3>2. ~Claims(t)' BY <3>1 DEF Becomes, Claims, Created
    <3> QED BY <2>2, <2>3, <3>1, <3>2, UseStays DEF Becomes
  <2>4. CASE /\ node[i] \in {"none", "phantom"}
             /\ node' = [node EXCEPT ![i] = "stub"]
             /\ swDevice' = [swDevice EXCEPT ![i] = t[1]]
             /\ MovesTo(t, "closeStub")
    <3>1. GoesTo(t, "closeStub") BY <1>0, <2>4, MovesToGoes
    <3>2. \A j \in Instances \ {i} : node'[j] = node[j] /\ swDevice'[j] = swDevice[j]
      BY <1>0, <2>1, <2>4
    <3>3. node'[i] = "stub" /\ swDevice'[i] = t[1] BY <1>0, <2>1, <2>4
    <3>4. ~InUse(i) BY <2>4 DEF InUse
    <3>5. i \notin abandoned => \A p \in Processes : i \notin owned[p]
      BY <3>4 DEF UseInv, OwnedInv
    <3>6. \A u \in AllThreads : Claims(u) /\ u # t /\ i \notin abandoned => thread[u].of # i
      BY <2>1, <3>4, ClaimsHold, OneHolds
    <3>7. ClaimInv(t)'
      <4>1. \A u \in AllThreads : Claims(u)' /\ u # t => Claims(u) /\ thread'[u] = thread[u]
        BY <3>1, OthersSame DEF GoesTo, Becomes
      <4> QED BY <2>2, <3>1, <3>5, <3>6, <4>1 DEF ClaimInv, GoesTo, Becomes
    <3>8. NodeInv(t)' BY <3>1, <3>3 DEF NodeInv, GoesTo, Becomes, Created
    <3> DEFINE J == {i}
    <3>9. /\ \A j \in J : \A p \in Processes : j \notin abandoned' => j \notin owned[p]
          /\ \A u \in AllThreads \ {t} :
               Claims(u) => thread[u].of \notin J \/ thread[u].of \in abandoned'
          /\ \A j \in Instances \ J : node'[j] = node[j] /\ swDevice'[j] = swDevice[j]
          /\ \A j \in thread[t].list : j \in J \/ j \in thread'[t].list
      BY <2>2, <3>1, <3>2, <3>5, <3>6 DEF GoesTo, Becomes
    <3>10. \A p \in Processes : \A j \in owned'[p] : j \in owned[p] BY <2>2
    <3>11. OnlyMoves(t) BY <3>1 DEF GoesTo, Becomes
    <3> HIDE DEF J
    <3> QED BY <2>2, <3>7, <3>8, <3>9, <3>10, <3>11, UseChanges
  <2> QED BY <1>19, <2>3, <2>4 DEF CreateStub
<1>20. ASSUME NEW t \in AllThreads, CloseStub(t) PROVE UseInv'
  <2> DEFINE i == thread[t].of
  <2>1. /\ thread[t].at = "closeStub" /\ Claims(t) /\ i \in Instances
    BY <1>a, <1>20 DEF CloseStub, InstanceInv, CreatePlaces, Claims
  <2>2. /\ owned' = owned /\ abandoned' = abandoned
        /\ node' = [node EXCEPT ![i] = "phantom"]
        /\ swDevice' = [swDevice EXCEPT ![i] = Nobody]
    BY <1>20 DEF CloseStub, Others
  <2>3. \/ GoesTo(t, "createDevice")
        \/ Becomes(t, "enable", thread[t].then, thread[t].list, TRUE)
    BY <1>0, <1>20, MovesToGoes, GivesUpGoes DEF CloseStub
  <2>4. \A j \in Instances \ {i} : node'[j] = node[j] /\ swDevice'[j] = swDevice[j]
    BY <1>0, <2>1, <2>2
  <2>5. node'[i] = "phantom" BY <1>0, <2>1, <2>2
  <2>6. ClaimInv(t)' /\ NodeInv(t)'
    <3>1. CASE GoesTo(t, "createDevice")
      <4>1. ClaimInv(t)' BY <2>1, <2>2, <3>1, ClaimStays DEF GoesTo, Becomes
      <4>2. NodeInv(t)' BY <2>5, <3>1 DEF NodeInv, GoesTo, Becomes, Created
      <4> QED BY <4>1, <4>2
    <3>2. CASE Becomes(t, "enable", thread[t].then, thread[t].list, TRUE)
      BY <3>2, NoClaim DEF Becomes, Claims, Created
    <3> QED BY <2>3, <3>1, <3>2
  <2> HIDE DEF i
  <2> QED BY <2>1, <2>2, <2>3, <2>4, <2>6, ClaimantChanges DEF GoesTo, Becomes, i
<1>21. ASSUME NEW t \in AllThreads, CreateDevice(t) PROVE UseInv'
  <2> DEFINE i == thread[t].of
  <2>1. /\ thread[t].at = "createDevice" /\ Claims(t) /\ i \in Instances
    BY <1>a, <1>21 DEF CreateDevice, InstanceInv, CreatePlaces, Claims
  <2>2. owned' = owned /\ abandoned' = abandoned BY <1>21 DEF CreateDevice, Others
  <2>3. CASE GivesUp(t) /\ UNCHANGED <<node, swDevice>>
    <3>1. Becomes(t, "enable", thread[t].then, thread[t].list, TRUE)
      BY <1>0, <2>3, GivesUpGoes
    <3>2. ~Claims(t)' BY <3>1 DEF Becomes, Claims, Created
    <3> QED BY <2>2, <2>3, <3>1, <3>2, UseStays DEF Becomes
  <2>4. CASE ~(GivesUp(t) /\ UNCHANGED <<node, swDevice>>)
    <3>1. /\ \E state \in {"failed", "running"} : node' = [node EXCEPT ![i] = state]
          /\ swDevice' = [swDevice EXCEPT ![i] = t[1]]
          /\ MovesTo(t, "waitInterface")
      BY <1>21, <2>4 DEF CreateDevice
    <3>2. GoesTo(t, "waitInterface") BY <1>0, <3>1, MovesToGoes
    <3>3. \A j \in Instances \ {i} : node'[j] = node[j] /\ swDevice'[j] = swDevice[j]
      BY <1>0, <2>1, <3>1
    <3>4. node'[i] \in {"failed", "running"} /\ swDevice'[i] = t[1] BY <1>0, <2>1, <3>1
    <3>5. ClaimInv(t)' BY <2>1, <2>2, <3>2, ClaimStays DEF GoesTo, Becomes
    <3>6. NodeInv(t)' BY <3>2, <3>4 DEF NodeInv, GoesTo, Becomes, Created
    <3> HIDE DEF i
    <3> QED
      BY <2>1, <2>2, <3>2, <3>3, <3>5, <3>6, ClaimantChanges DEF GoesTo, Becomes, i
  <2> QED BY <2>3, <2>4
<1>22. ASSUME NEW t \in AllThreads, WaitForInterface(t) PROVE UseInv'
  <2>1. \/ GoesTo(t, "enable") /\ node[thread[t].of] = "running"
        \/ Becomes(t, "closeSw", "enable", thread[t].list, TRUE)
    BY <1>0, <1>22, MovesToGoes, ThenGoes DEF WaitForInterface
  <2>2. Quiet BY <1>22 DEF WaitForInterface, Quiet, World, Others
  <2>3. thread[t].at = "waitInterface" /\ Claims(t)
    BY <1>22 DEF WaitForInterface, Claims
  <2>4. ClaimInv(t)' BY <2>1, <2>2, <2>3, ClaimStays DEF GoesTo, Becomes, Quiet
  <2>5. NodeInv(t)'
    <3>1. NodeInv(t) BY <1>b
    <3> QED BY <2>1, <2>2, <2>3, <3>1 DEF NodeInv, GoesTo, Becomes, Created, Quiet
  <2> QED BY <2>1, <2>2, <2>4, <2>5, NothingChanges DEF Quiet, GoesTo, Becomes
<1>23. ASSUME NEW t \in AllThreads, CloseSwDevice(t) PROVE UseInv'
  <2> DEFINE i == thread[t].of
  <2>1. /\ thread[t].at = "closeSw" /\ Claims(t) /\ i \in Instances
    BY <1>a, <1>23 DEF CloseSwDevice, InstanceInv, ClosePlaces, Claims
  <2>2. owned' = owned /\ abandoned' = abandoned BY <1>23 DEF CloseSwDevice, Others
  <2>3. GoesTo(t, "remove") BY <1>0, <1>23, MovesToGoes DEF CloseSwDevice
  <2>4. \A j \in Instances \ {i} : node'[j] = node[j] /\ swDevice'[j] = swDevice[j]
    BY <1>0, <1>23, <2>1 DEF CloseSwDevice
  <2>5. ClaimInv(t)' /\ NodeInv(t)'
    BY <2>3, NoClaim DEF GoesTo, Becomes, Claims, Created
  <2> HIDE DEF i
  <2> QED BY <2>1, <2>2, <2>3, <2>4, <2>5, ClaimantChanges DEF GoesTo, Becomes, i
<1>24. ASSUME NEW t \in AllThreads, RemoveInstance(t) PROVE UseInv'
  <2> DEFINE i == thread[t].of
             next == IF thread[t].then = "sweep" THEN "idle" ELSE thread[t].then
  <2>1. thread[t].at = "remove" /\ i \in Instances
    BY <1>a, <1>24 DEF RemoveInstance, InstanceInv, ClosePlaces
  <2>2. next \in {"idle", "enable"} /\ next \in Places /\ t[2] = "main"
        /\ (next = "enable" => thread[t].then = "enable")
    BY <1>a, <1>24
    DEF RemoveInstance, CallInv, Places, SweepPlaces, ClosePlaces, AllThreads
  <2>3. GoesTo(t, next)
    <3>1. thread' = QueueSweep(t[1], [thread EXCEPT ![t].at = next])
      BY <1>24 DEF RemoveInstance
    <3> HIDE DEF next
    <3> QED BY <1>0, <2>2, <3>1, SweepStartsAfter
  <2> HIDE DEF next
  <2>4. swDevice' = swDevice /\ owned' = owned /\ abandoned \subseteq abandoned'
    BY <1>24 DEF RemoveInstance
  <2>5. ~Claims(t)'
    BY <1>a, <2>1, <2>2, <2>3 DEF GoesTo, Becomes, Claims, Created, ListInv, ClosePlaces
  <2>6. CASE UNCHANGED <<node, abandoned>>
    BY <2>3, <2>4, <2>5, <2>6, UseStays DEF GoesTo, Becomes
  <2>7. CASE /\ node' = [node EXCEPT ![i] = "none"]
             /\ abandoned' = IF node[i] \notin {"none", "phantom"}
                             THEN abandoned \cup {i} ELSE abandoned
    <3>1. /\ \A j \in Instances \ {i} : node'[j] = node[j] /\ swDevice'[j] = swDevice[j]
          /\ node'[i] = "none"
      BY <1>0, <2>1, <2>4, <2>7
    <3>2. i \notin abandoned' => node[i] \in {"none", "phantom"} /\ ~InUse(i) /\ i \notin abandoned
      BY <2>7 DEF InUse
    <3>3. \A j \in {i} : \A p \in Processes : j \notin abandoned' => j \notin owned[p]
      BY <3>2 DEF UseInv, OwnedInv
    <3>4. ASSUME NEW u \in AllThreads, u # t, Claims(u), thread[u].of = i, i \notin abandoned'
          PROVE  NodeInv(u)'
      <4>1. thread'[u] = thread[u] BY <2>3, <3>4, OthersSame DEF GoesTo, Becomes
      <4>2. NodeInv(u) BY <1>b
      <4> QED BY <2>4, <3>1, <3>2, <3>4, <4>1, <4>2 DEF NodeInv, Created, InUse
    <3>5. ClaimInv(t)' /\ NodeInv(t)' BY <2>5, NoClaim
    <3>6. \A j \in thread[t].list : j \in thread'[t].list BY <2>3 DEF GoesTo, Becomes
    <3>7. OnlyMoves(t) BY <2>3 DEF GoesTo, Becomes
    <3> DEFINE J == {i}
    <3>8. /\ \A j \in J : \A p \in Processes : j \notin abandoned' => j \notin owned[p]
          /\ \A j \in Instances \ J : node'[j] = node[j] /\ swDevice'[j] = swDevice[j]
      BY <3>1, <3>3
    <3>9. \A u \in AllThreads \ {t} :
            Claims(u) /\ thread[u].of \in J /\ thread[u].of \notin abandoned' => NodeInv(u)'
      BY <3>4
    <3>10. \A p \in Processes : \A j \in owned'[p] : j \in owned[p] BY <2>4
    <3> HIDE DEF J
    <3> QED BY <2>4, <3>5, <3>6, <3>7, <3>8, <3>9, <3>10, UseChanges
  <2> QED BY <1>24, <2>6, <2>7 DEF RemoveInstance
<1>25. ASSUME NEW t \in AllThreads, Unlock(t) PROVE UseInv'
  <2>1. OnlyMoves(t) /\ thread'[t] = NoCall BY <1>0, <1>25, UnlockGoes
  <2>2. node' = node /\ swDevice' = swDevice /\ abandoned' = abandoned /\ thread[t].at = "unlock"
    BY <1>25 DEF Unlock, World
  <2>3. thread[t].list = {} BY <1>a, <2>2 DEF ListInv, CreatePlaces, ClosePlaces
  <2>4. ~Claims(t)' BY <2>1 DEF Claims, Created, NoCall, Call
  <2>5. CASE ~Created(t)
    <3>1. owned' = owned BY <1>25, <2>5 DEF Unlock, Created
    <3> QED BY <2>1, <2>2, <2>3, <2>4, <3>1, UseStays
  <2>6. CASE Created(t)
    <3>1. PICK i : i = thread[t].of OBVIOUS
    <3>2. t[1] \in Processes BY DEF AllThreads
    <3>3. owned' = [owned EXCEPT ![t[1]] = @ \cup {i}]
      BY <1>25, <2>6, <3>1 DEF Unlock, Created
    <3>4. i \notin abandoned => node[i] = "running" /\ swDevice[i] = t[1]
      BY <1>b, <2>6, <3>1 DEF NodeInv
    <3>5. Claims(t) BY <2>6 DEF Claims
    <3>6. \A p \in Processes : \A j \in owned'[p] :
            \/ j \in owned[p]
            \/ /\ Claims(t) /\ j = thread[t].of
               /\ j \notin abandoned' => InUse(j)' /\ swDevice'[j] = p
      BY <1>0, <2>2, <3>1, <3>2, <3>3, <3>4, <3>5 DEF InUse
    <3>7. ClaimInv(t)' /\ NodeInv(t)' BY <2>4, NoClaim
    <3> DEFINE J == {}
    <3>8. /\ \A j : j \notin J
          /\ \A j \in Instances \ J : node'[j] = node[j] /\ swDevice'[j] = swDevice[j]
      BY <2>2
    <3> HIDE DEF J
    <3> QED BY <2>1, <2>2, <2>3, <3>6, <3>7, <3>8, UseChanges
  <2> QED BY <2>5, <2>6
<1>26. ASSUME NEW p \in Processes, Kill(p) PROVE UseInv'
  <2>1. /\ \A u \in AllThreads : thread'[u] = IF u[1] = p THEN NoCall ELSE thread[u]
        /\ abandoned' = abandoned \cup thread[<<p, "main">>].list
        /\ owned' = [owned EXCEPT ![p] = {}]
        /\ \A i \in Instances :
             /\ swDevice[i] # p => node'[i] = node[i] /\ swDevice'[i] = swDevice[i]
             /\ node[i] \in {"none", "phantom"} => node'[i] \in {"none", "phantom"}
    BY <1>26 DEF Kill
  <2>2. \A q \in Processes : owned'[q] = IF q = p THEN {} ELSE owned[q] BY <1>0, <2>1
  <2>3. ASSUME NEW i \in Instances, i \notin abandoned', swDevice[i] # p, InUse(i)
        PROVE  InUse(i)'
    <3>1. ASSUME NEW u \in AllThreads, i \in thread[u].list PROVE u[1] # p
      <4>1. u[2] # "sweeper" BY <1>a, <3>1 DEF CallInv, ListInv
      <4>2. u = <<u[1], "main">> BY <4>1 DEF AllThreads
      <4> QED BY <2>1, <2>3, <3>1, <4>2
    <3> QED BY <2>1, <2>3, <3>1 DEF InUse
  <2>4. OwnedInv'
    <3>1. SUFFICES ASSUME NEW q \in Processes, NEW i, i \in owned'[q], i \notin abandoned'
                   PROVE  InUse(i)' /\ swDevice'[i] = q
      BY DEF OwnedInv
    <3>2. q # p /\ i \in owned[q] /\ i \notin abandoned BY <2>1, <2>2, <3>1
    <3>3. InUse(i) /\ swDevice[i] = q /\ i \in Instances
      BY <1>0, <3>2 DEF UseInv, OwnedInv
    <3> QED BY <2>1, <2>3, <3>1, <3>2, <3>3
  <2>5. \A u \in AllThreads : Claims(u)' => Claims(u) /\ u[1] # p /\ thread'[u] = thread[u]
    BY <2>1 DEF Claims, Created, NoCall, Call
  <2>6. ASSUME NEW u \in AllThreads PROVE ClaimInv(u)'
    <3>1. ClaimInv(u) BY <1>b
    <3>2. \A q \in Processes : owned'[q] \subseteq owned[q] BY <2>2
    <3> QED BY <2>1, <2>5, <3>1, <3>2 DEF ClaimInv
  <2>7. ASSUME NEW u \in AllThreads PROVE NodeInv(u)'
    <3>1. CASE ~Claims(u)' BY <3>1 DEF NodeInv, Claims
    <3>2. CASE Claims(u)' /\ thread'[u].of \notin abandoned'
      <4>1. PICK i : i = thread[u].of OBVIOUS
      <4>2. Claims(u) /\ u[1] # p /\ thread'[u] = thread[u] BY <2>5, <3>2
      <4>3. i \in Instances
        BY <1>0, <1>a, <4>1, <4>2
        DEF Claims, Created, InstanceInv, CreatePlaces, ClosePlaces, ThreadStates
      <4>4. NodeInv(u) /\ i \notin abandoned /\ i \notin abandoned'
        BY <1>b, <2>1, <3>2, <4>1, <4>2
      <4>5. CASE swDevice[i] = u[1]
        <5>1. node'[i] = node[i] /\ swDevice'[i] = swDevice[i] BY <2>1, <4>2, <4>3, <4>5
        <5>2. InUse(i) => InUse(i)' BY <2>3, <4>2, <4>3, <4>4, <4>5
        <5> QED BY <4>1, <4>2, <4>4, <5>1, <5>2 DEF NodeInv, Created, InUse
      <4>6. CASE swDevice[i] # u[1]
        <5>1. \/ thread[u].at = "createDevice"
              \/ thread[u].at = "closeSw" /\ thread[u].then # "sweep"
          BY <4>1, <4>2, <4>4, <4>6, ClaimsHold, <1>a
          DEF NodeInv, Claims, Created, CallInv, ClosePlaces
        <5>2. thread[u].at = "createDevice" => node'[i] \in {"none", "phantom"}
          BY <2>1, <4>1, <4>3, <4>4, <5>1 DEF NodeInv
        <5> QED BY <4>1, <4>2, <5>1, <5>2 DEF NodeInv, Created
      <4> QED BY <4>5, <4>6
    <3>3. CASE thread'[u].of \in abandoned' BY <3>3 DEF NodeInv
    <3> QED BY <3>1, <3>2, <3>3
  <2> QED BY <2>4, <2>6, <2>7 DEF UseInv
<1> QED
  BY <1>1, <1>2, <1>3, <1>4, <1>5, <1>6, <1>7, <1>8, <1>9, <1>10, <1>11,
     <1>12, <1>13, <1>14, <1>15, <1>16, <1>17, <1>18, <1>19, <1>20, <1>21, <1>22,
     <1>23, <1>24, <1>25, <1>26
  DEF AdaptersNext

-----------------------------------------------------------------------------
(* Adapters: the theorems.                                                 *)

LEMMA InitialAdapters ==
    ASSUME AdaptersAssumption, AdaptersInit
    PROVE  APInv
<1>1. AdaptersTypeOK
  <2>1. store \subseteq Versions
    <3>1. (CHOOSE v \in Versions : \A w \in Versions : v <= w) \in Versions
      BY DEF AdaptersAssumption
    <3> QED BY <3>1 DEF AdaptersInit
  <2>2. thread \in [AllThreads -> ThreadStates] BY CallTyped DEF AdaptersInit
  <2> QED BY <2>1, <2>2 DEF AdaptersInit, AdaptersAssumption, AdaptersTypeOK, NodeStates
<1>2. \A t \in AllThreads : thread[t] = NoCall BY DEF AdaptersInit
<1>3. MutexInv
  BY <1>2
  DEF AdaptersInit, AdaptersAssumption, MutexInv, InDriver, InDevice, DriverPlaces,
              NoCall, Call, AllThreads
<1>4. PlaceInv
  BY <1>2
  DEF PlaceInv, CallInv, InstanceInv, ListInv, RootInv, NoCall, Call, SweepPlaces,
              InstallPlaces, CreatePlaces, ClosePlaces
<1>5. UseInv
  <2>1. \A t \in AllThreads : ~Claims(t) BY <1>2 DEF Claims, Created, NoCall, Call
  <2>2. \A t \in AllThreads : ClaimInv(t) /\ NodeInv(t)
    BY <2>1 DEF ClaimInv, NodeInv, Claims
  <2>3. OwnedInv BY DEF AdaptersInit, OwnedInv
  <2> QED BY <2>2, <2>3 DEF UseInv
<1> QED BY <1>1, <1>3, <1>4, <1>5 DEF APInv

(* A step that changes nothing.                                            *)
LEMMA IdleAdapters ==
    ASSUME APInv, UNCHANGED apVars
    PROVE  APInv'
<1>1. AdaptersTypeOK' BY DEF APInv, apVars, AdaptersTypeOK
<1>2. MutexInv' BY DEF APInv, apVars, MutexInv, InDriver, InDevice
<1>3. PlaceInv'
  BY DEF APInv, apVars, PlaceInv, CallInv, InstanceInv, ListInv, RootInv
<1>4. UseInv'
  BY DEF APInv, apVars, UseInv, OwnedInv, ClaimInv, NodeInv, Claims, Created, InUse
<1> QED BY <1>1, <1>2, <1>3, <1>4 DEF APInv

(* The adapters are always as the invariant says: who is inside of a mutex *)
(* holds it, a thread is where its call can be, and what a process owns or *)
(* has laid claim to is its own.                                           *)
THEOREM AdaptersInvariance == AdaptersSpec => []APInv
<1>1. AdaptersInit => APInv BY InitialAdapters, AdaptersAssumption
<1>2. APInv /\ [AdaptersNext]_apVars => APInv'
  <2>1. SUFFICES ASSUME APInv, AdaptersNext PROVE APInv' BY IdleAdapters
  <2>2. /\ AdaptersTypeOK /\ MutexInv /\ PlaceInv /\ UseInv BY <2>1 DEF APInv
  <2>3. AdaptersTypeOK'
    BY <2>1, <2>2, AdaptersAssumption, ThreadsTyped, WorldTyped DEF AdaptersTypeOK
  <2>4. MutexInv' /\ PlaceInv' BY <2>1, <2>2, PlacesKept, AdaptersAssumption
  <2>5. UseInv' BY <2>1, <2>2, UseKept, AdaptersAssumption
  <2> QED BY <2>3, <2>4, <2>5 DEF APInv
<1> QED BY <1>1, <1>2, PTL DEF AdaptersSpec

(* Whatever is called in however many processes, nobody who waits for the  *)
(* device mutex holds the driver mutex unless it has the device mutex      *)
(* already: the sweep lets go of the driver mutex before its third step    *)
(* (api/adapter.c), and installing happens inside of the device mutex.     *)
THEOREM MutexesNeverCycle == AdaptersSpec => []NoMutexCycle
<1>1. APInv => NoMutexCycle
  BY DEF APInv, MutexInv, PlaceInv, CallInv, NoMutexCycle, InDriver, DriverPlaces,
      SweepPlaces
<1> QED BY <1>1, AdaptersInvariance, PTL

(* The sweep, the upgrades and the closing of adapters never take away the *)
(* adapter that another process has in use or is creating, but for the     *)
(* exceptions that `abandoned' names.                                      *)
THEOREM AdaptersInUse == AdaptersSpec => []InUseSurvives
<1>1. ASSUME APInv PROVE InUseSurvives
  <2>1. \A p \in Processes : \A i \in owned[p] \ abandoned :
          \/ node[i] = "running"
          \/ node[i] = "disabled" /\ \E t \in AllThreads : i \in thread[t].list
    BY <1>1 DEF APInv, UseInv, OwnedInv, InUse
  <2>2. ASSUME NEW t \in AllThreads, thread[t].at \in {"closeStub", "waitInterface"}
        PROVE  node[thread[t].of] # "none" \/ thread[t].of \in abandoned
    BY <1>1, <2>2 DEF APInv, UseInv, NodeInv
  <2>3. ASSUME NEW t \in AllThreads,
               thread[t].at \in {"enumerate", "disable", "copy", "enableHere"}
        PROVE  t[1] \in rootNodes
    BY <1>1, <2>3 DEF APInv, PlaceInv, RootInv
  <2> QED BY <2>1, <2>2, <2>3 DEF InUseSurvives
<1> QED BY <1>1, AdaptersInvariance, PTL
=============================================================================
