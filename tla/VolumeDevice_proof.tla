------------------------- MODULE VolumeDevice_proof -------------------------
(***************************************************************************)
(* Proofs about the volumes of the driver, for any number of devices,      *)
(* users, requests and calls to abort: what an unmount finds, what it      *)
(* leaves behind, whose aborts stop a mount, and the order of an unmount   *)
(* of all volumes.                                                         *)
(***************************************************************************)
EXTENDS VolumeDevice, TLAPS

----------------------------------------------------------------------------
(* The inductive invariant *)

Opening == {"normal", "readNormal", "hidden", "readHidden", "startQueue"}
Running == {"wait", "drain", "process", "release", "check"}
Ending == {"stop", "stopping", "close"}
Deleting == {"delete", "wake", "join", "erase"}
Mounting == {"sid", "start", "await", "unregister"}
Unmounting == {"lock", "flushed", "shut", "remove", "removing"} \cup Deleting

(* The device that the holder of the mutex mounts or unmounts *)
Handled(v) == ctl.pc \notin {"free", "next"} /\ ctl.vol = v

(* What the holder knows of the device it handles at each of its steps *)
HandledShape(v) ==
    /\ ctl.pc \in {"register", "sid", "start"} => phase[v] = "initializing" /\ thread[v] = "none" /\ result[v] = "none"
    /\ ctl.pc \in {"await", "unregister", "publish"} => phase[v] = "initializing"
    /\ ctl.pc \in {"letter", "notify", "lock", "flushed", "shut"} => phase[v] = "mounted"
    /\ ctl.pc = "remove" => phase[v] = "shutting"
    /\ ctl.pc = "removing" => phase[v] = "removing"
    /\ ctl.pc \in {"publish", "letter", "notify", "lock", "flushed", "shut", "remove", "removing"} => thread[v] \in Running
    /\ ctl.pc \in Deleting => phase[v] \in {"initializing", "withdrawn", "removing"}
    /\ ctl.pc = "erase" => thread[v] \in {"none", "exited"}

(* A device in the table is mounted and its thread runs, unless it is being   *)
(* handled; one that is not in the table has no thread                        *)
DeviceShape(v) ==
    /\ Handled(v) => v \in devices /\ HandledShape(v)
    /\ v \in devices /\ ~Handled(v) => phase[v] = "mounted" /\ thread[v] \in Running
    /\ v \notin devices =>
          /\ phase[v] \in {"none", "initializing", "withdrawn", "removing"} /\ thread[v] \in {"none", "exited"}
          /\ result[v] = "none" /\ ~quit[v]
    /\ phase[v] = "none" => thread[v] = "none"

ThreadShape(v) ==
    /\ open[v] <=> thread[v] \in {"startQueue"} \cup Running \cup Ending
    /\ thread[v] \in Opening => Handled(v) /\ ctl.pc = "await" /\ result[v] = "none"
    /\ thread[v] \in Ending => quit[v]
    /\ quit[v] => Handled(v) /\ ctl.pc \in {"wake", "join", "erase"}
    /\ thread[v] \in {"stopping", "close"} => stopPending[v]
    /\ thread[v] = "exited" => stopPending[v] \/ ~Opened(v)
    /\ result[v] = "success" /\ ~quit[v] => thread[v] \in Running
    /\ result[v] = "aborted" => Handled(v) /\ ctl.pc \in {"await", "unregister"} \cup Deleting

Shape ==
    /\ \A v \in Volumes : DeviceShape(v) /\ ThreadShape(v)
    /\ ctl.pc \notin {"free", "next"} => ctl.vol \in Volumes
    /\ ctl.pc \in {"register", "publish", "letter", "notify"} \cup Mounting => ctl.op = "mount"

(* A request in progress is with a device that was published; the one that a *)
(* thread processes is its own                                               *)
InProgress(r) == irp[r] \notin {"new", "answered"}
RequestShape ==
    /\ \A r \in Irps : InProgress(r) => target[r] \in Volumes /\ Opened(target[r])
    /\ \A r \in Irps : ~InProgress(r) => target[r] = None
    /\ \A v \in Volumes : thread[v] = "process" =>
          current[v] \in Irps /\ irp[current[v]] = "processing" /\ target[current[v]] = v

(* The queue of a thread that has stopped it stays empty, and nobody locks a *)
(* device once an unmount has seen it unlocked                               *)
Quiet ==
    \A v \in Volumes :
        /\ thread[v] \in {"close", "exited"} => InQueue(v) = {}
        /\ phase[v] = "removing" /\ ~(ctl.vol = v /\ ctl.pc = "removing") => LockHolders(v) = {}

(* The context describes the mount in progress, and an abort that was allowed *)
(* was allowed for the mount its number names                                 *)
Owner == info[ctl.vol].owner
AbortShape ==
    /\ cancel.active <=> ctl.pc \in Mounting
    /\ cancel.active => cancel.sid \in {None, Owner} /\ cancel.abortedBy \in {None, System, Owner}
    /\ \A a \in Aborters : aborter[a].pc = "found" =>
          /\ aborter[a].seq <= cancel.seq
          /\ cancel.active /\ aborter[a].seq = cancel.seq => aborter[a].user \in {System, Owner}
    /\ AbortsAreAuthorised

(* Volumes are numbered in the order of their mounts, so a volume has a higher *)
(* number than the one its host file lies on; who may unmount all of them and  *)
(* ignores open files leaves none with a higher number than the next           *)
Numbered ==
    /\ \A n \in devices : Opened(n) => uid[n] < lastId
    /\ \A n, m \in devices : Opened(n) /\ Opened(m) /\ n # m => uid[n] # uid[m]
    /\ \A n \in devices : info[n].host \in Volumes => phase[info[n].host] # "none"
    /\ \A n \in devices : info[n].host \in devices =>
          /\ info[n].host # n /\ Opened(info[n].host)
          /\ Opened(n) => uid[info[n].host] < uid[n]

UnmountsAll == ctl.op \in {"all", "shutdown"} /\ ctl.user = System
Descending ==
    UnmountsAll /\ ctl.force =>
        /\ ctl.pc = "next" => \A n \in devices : uid[n] <= ctl.max
        /\ ctl.pc \in Unmounting => ctl.max = uid[ctl.vol] - 1 /\ \A n \in devices \ {ctl.vol} : uid[n] < uid[ctl.vol]

(* ... nor one that the volume hosts *)
Nested == UnmountsAll /\ ctl.pc \in Unmounting \ {"lock"} => ~HostsVolume(ctl.vol)

IInv == TypeOK /\ Shape /\ RequestShape /\ Quiet /\ AbortShape /\ Numbered /\ Descending /\ Nested

----------------------------------------------------------------------------
(* Types *)

Ops == {"none", "mount", "one", "all", "shutdown"}

LEMMA HolderType ==
    ASSUME NEW pc \in ControlPcs, NEW op \in Ops, NEW u \in Users, NEW f \in BOOLEAN, NEW v \in Names, NEW m \in Int
    PROVE  Holder(pc, op, u, f, v, m) \in Holders
BY DEF Holders, Holder, Ops

LEMMA IdleType == Idle \in Holders
BY DeviceAssumption DEF Idle, Holder, Holders, Names, ControlPcs

LEMMA UpdateType ==
    ASSUME ctl \in Holders, NEW pc \in ControlPcs
    PROVE  /\ [ctl EXCEPT !.pc = pc] \in Holders
           /\ \A r \in Irps \cup {None} : [ctl EXCEPT !.pc = pc, !.irp = r] \in Holders
           /\ \A hit \in BOOLEAN : [ctl EXCEPT !.pc = pc, !.triggered = hit] \in Holders
           /\ \A v \in Volumes, m \in Int : [ctl EXCEPT !.pc = pc, !.vol = v, !.max = m] \in Holders
BY DEF Holders, Names

LEMMA ContinueType == ASSUME ctl \in Holders, NEW again \in BOOLEAN, Continue(again) PROVE ctl' \in Holders
<1>1. [ctl EXCEPT !.pc = "next", !.irp = None] \in Holders
  BY UpdateType DEF ControlPcs
<1>. QED  BY <1>1, IdleType DEF Continue

(* Whoever holds the mutex, what it does is described by a Holder *)
LEMMA HoldersStep == ASSUME TypeOK, [Next]_vars PROVE ctl' \in Holders
<1>. USE DEF registry, volume, worker, requests, abort, control, ControlPcs
<1>0. ctl \in Holders /\ uid \in [Volumes -> Nat] /\ lastId \in Nat /\ devices \subseteq Volumes
  BY DEF TypeOK
<1>. USE <1>0
<1>1. ASSUME NEW r \in Irps, Dispatch(r) \/ TCDispatchQueueIRP(r) \/ QueueCompletes(r) PROVE ctl' \in Holders
  BY <1>1 DEF Dispatch, TCDispatchQueueIRP, QueueCompletes, DispatchControl, InsertTail, FlushNothing, AddIrpCount, AddIrpLock
<1>2. ASSUME NEW v \in Volumes, ReleaseSemaphore(v) \/ VolumeThreadProc(v) PROVE ctl' \in Holders
  BY <1>2 DEF ReleaseSemaphore, VolumeThreadProc, ReadHeader, HeaderRead, StartQueue, AwaitRequest, TakeRequest, ListEmpty,
     ProcessRequest, ReleaseLock, CheckQuit, StopQueue, QueueStopped, TCCloseVolume
<1>3. ASSUME NEW a \in Aborters, AbortPendingMount(a) PROVE ctl' \in Holders
  BY <1>3 DEF AbortPendingMount, AbortFind, AbortSet
<1>4. CASE MountDevice
  <2>1. ASSUME MountManagerMount PROVE ctl' \in Holders
    <3>1. \A r \in Controls : [ctl EXCEPT !.pc = "notify", !.irp = r] \in Holders
      BY UpdateType, DeviceAssumption
    <3>. QED  BY <2>1, <3>1, IdleType DEF MountManagerMount
  <2>. QED
    BY <1>4, <2>1, IdleType, UpdateType DEF MountDevice, RegisterMountCancelContext, SetMountCancelContextUserSid,
       UnregisterMountCancelContext, TCStartVolumeThread, ThreadStarted, Publish, LetterTaken, MountManagerMounted, At
<1>5. CASE UnmountDevice
  <2>1. CASE FilesOpen \/ EraseSlot
    BY <2>1, ContinueType DEF FilesOpen, EraseSlot, Holders
  <2>2. CASE LockAndDismount
    <3>1. \A r \in Irps : [ctl EXCEPT !.pc = "flushed", !.irp = r] \in Holders
      BY UpdateType
    <3>. QED  BY ZenonT(60), <2>2, <3>1, UpdateType DEF LockAndDismount
  <2>3. CASE Dismounted \/ RemoveLockWait
    <3>1. [ctl EXCEPT !.pc = "shut", !.irp = None] \in Holders
      BY UpdateType
    <3>2. \A hit \in BOOLEAN : [ctl EXCEPT !.pc = "delete", !.triggered = hit] \in Holders
      BY UpdateType
    <3>. QED  BY <2>3, <3>1, <3>2 DEF Dismounted, RemoveLockWait
  <2>. QED
    BY <1>5, <2>1, <2>2, <2>3, UpdateType DEF UnmountDevice, SetShuttingDown, ReleaseRemoveLock, SetThreadShouldQuit,
       WakeThread, ThreadExited, At
<1>6. CASE UnmountAllDevices
  <2>1. \A v \in Volumes, pc \in {"lock", "next"} : [ctl EXCEPT !.pc = pc, !.vol = v, !.max = uid[v] - 1] \in Holders
    <3>1. \A v \in Volumes : uid[v] - 1 \in Int
      OBVIOUS
    <3>. QED  BY <3>1, UpdateType
  <2>. QED  BY <1>6, <2>1, ContinueType DEF UnmountAllDevices
<1>7. CASE TCCreateDeviceObject \/ UnmountVolume \/ UnmountAllVolumes \/ OnShutdownPending
  <2>1. \A v \in Volumes : Holder("register", "mount", System, FALSE, v, 0) \in Holders
    BY DeviceAssumption DEF Names, Holder, Holders
  <2>2. \A v \in Volumes, f \in BOOLEAN : Holder("lock", "one", System, f, v, 0) \in Holders
    BY HolderType, DeviceAssumption DEF Names, Ops
  <2>3. \A op \in {"all", "shutdown"}, u \in Users, f \in BOOLEAN : All(op, u, f) \in Holders
    BY HolderType DEF Names, Ops, All
  <2>. QED
    BY <1>7, <2>1, <2>2, <2>3, DeviceAssumption DEF TCCreateDeviceObject, UnmountVolume, UnmountAllVolumes, OnShutdownPending
<1>8. CASE BeginShutdown \/ UNCHANGED vars
  BY <1>8 DEF BeginShutdown, vars
<1>. QED
  BY <1>1, <1>2, <1>3, <1>4, <1>5, <1>6, <1>7, <1>8 DEF Next, ControlStep

Stages == {"new", "passed", "locked", "listed", "processing", "counted", "queued", "completing", "answered"}

LEMMA CountUp == ASSUME NEW f \in [Volumes -> Nat], NEW v \in Volumes PROVE [f EXCEPT ![v] = @ + 1] \in [Volumes -> Nat]
OBVIOUS

LEMMA SendType ==
    ASSUME TypeOK, NEW r \in Irps, NEW v \in Volumes, Send(r, v)
    PROVE  irp' \in [Irps -> Stages] /\ target' \in [Irps -> Names] /\ senders' = senders
BY SMTT(30) DEF Send, Answer, TypeOK, Names, Stages
(* The type invariant is preserved; that the holder of the mutex handles a device *)
(* and that requests in progress have one is part of Shape and RequestShape       *)
LEMMA TypeStep == ASSUME IInv, [Next]_vars PROVE TypeOK'
<1>. USE DeviceAssumption DEF registry, volume, worker, requests, abort, control, Names
<1>0. TypeOK /\ Shape /\ RequestShape /\ ctl' \in Holders
  BY HoldersStep DEF IInv
<1>. USE <1>0 DEF TypeOK, Stages
<1>1. CASE \E r \in Irps : Dispatch(r)
  BY <1>1 DEF Dispatch, Send, Answer
<1>2. CASE \E r \in Irps : DispatchControl(r)
  BY <1>2 DEF DispatchControl, Answer, Move
<1>3. CASE \E r \in Irps : InsertTail(r)
  <2>. PICK r \in Irps : InsertTail(r)
    BY <1>3
  <2>1. target[r] \in Volumes
    BY DEF InsertTail, RequestShape, InProgress
  <2>2. irp' \in [Irps -> Stages]
    BY DEF InsertTail, Move
  <2>3. senders' = [senders EXCEPT ![target[r]] = @ + 1]
    BY DEF InsertTail
  <2>4. senders' \in [Volumes -> Nat]
    BY <2>1, <2>3, CountUp
  <2>. QED  BY <2>2, <2>4 DEF InsertTail, Move
<1>4. CASE \E r \in Irps : FlushNothing(r)
  BY <1>4 DEF FlushNothing, Answer
<1>5. CASE \E r \in Irps : AddIrpCount(r)
  BY <1>5 DEF AddIrpCount, Answer, Move
<1>6. CASE \E r \in Irps : AddIrpLock(r)
  BY <1>6 DEF AddIrpLock, Answer, Move
<1>7. CASE \E r \in Irps : QueueCompletes(r)
  BY <1>7 DEF QueueCompletes, Answer, Move
<1>8. CASE \E v \in Volumes : ReleaseSemaphore(v)
  BY <1>8 DEF ReleaseSemaphore
<1>9. CASE \E v \in Volumes : ReadHeader(v)
  BY <1>9 DEF ReadHeader, Fail
<1>10. CASE \E v \in Volumes : HeaderRead(v)
  <2>. PICK v \in Volumes : HeaderRead(v)
    BY <1>10
  <2>1. open' = open \/ open' = [open EXCEPT ![v] = TRUE]
    BY DEF HeaderRead
  <2>2. open' \in [Volumes -> BOOLEAN]
    BY <2>1, Zenon
  <2>. QED  BY <2>2 DEF HeaderRead, Step, Fail
<1>11. CASE \E v \in Volumes : StartQueue(v)
  <2>. PICK v \in Volumes : StartQueue(v)
    BY <1>11
  <2>1. open' = open \/ open' = [open EXCEPT ![v] = FALSE]
    BY DEF StartQueue
  <2>2. open' \in [Volumes -> BOOLEAN]
    BY <2>1, Zenon
  <2>. QED  BY <2>2 DEF StartQueue, Step, Fail
<1>12. CASE \E v \in Volumes : AwaitRequest(v)
  BY <1>12 DEF AwaitRequest, Step
<1>13. CASE \E v \in Volumes : TakeRequest(v)
  BY <1>13 DEF TakeRequest, Step, Move, Listed
<1>14. CASE \E v \in Volumes : ListEmpty(v)
  BY <1>14 DEF ListEmpty, Step
<1>15. CASE \E v \in Volumes : ProcessRequest(v)
  BY <1>15 DEF ProcessRequest, Step, Answer, RequestShape, InProgress
<1>16. CASE \E v \in Volumes : ReleaseLock(v)
  BY <1>16 DEF ReleaseLock, Step
<1>17. CASE \E v \in Volumes : CheckQuit(v)
  BY <1>17 DEF CheckQuit
<1>18. CASE \E v \in Volumes : StopQueue(v)
  BY <1>18 DEF StopQueue, Step
<1>19. CASE \E v \in Volumes : QueueStopped(v)
  BY <1>19 DEF QueueStopped, Step
<1>20. CASE \E v \in Volumes : TCCloseVolume(v)
  BY <1>20 DEF TCCloseVolume, Step
<1>21. CASE \E a \in Aborters : AbortFind(a)
  BY <1>21 DEF AbortFind
<1>22. CASE \E a \in Aborters : AbortSet(a)
  <2>. PICK a \in Aborters : AbortSet(a)
    BY <1>22
  <2>1. [NoAbort EXCEPT !.pc = "done"] = [pc |-> "done", user |-> System, seq |-> 0]
    BY DEF NoAbort
  <2>2. aborter' \in [Aborters -> [pc : {"idle", "found", "done"}, user : Users, seq : Nat]]
    BY <2>1 DEF AbortSet
  <2>3. cancel' \in [active : BOOLEAN, sid : Users \cup {None}, seq : Nat, abortedBy : Users \cup {None}]
    BY ZenonT(60) DEF AbortSet
  <2>. QED  BY <2>2, <2>3 DEF AbortSet
<1>23. CASE RegisterMountCancelContext
  BY <1>23 DEF RegisterMountCancelContext
<1>24. CASE SetMountCancelContextUserSid
  BY <1>24 DEF SetMountCancelContextUserSid, Shape
<1>25. CASE UnregisterMountCancelContext
  BY <1>25 DEF UnregisterMountCancelContext
<1>26. CASE TCCreateDeviceObject
  <2>. PICK u \in Users, v \in Volumes, h \in {None} \cup {x \in devices : open[x]} :
          /\ devices' = devices \cup {v} /\ phase' = [phase EXCEPT ![v] = "initializing"]
          /\ info' = [info EXCEPT ![v] = [owner |-> u, host |-> h]]
    BY <1>26 DEF TCCreateDeviceObject
  <2>1. [owner |-> u, host |-> h] \in [owner : Users \cup {None}, host : Names]
    OBVIOUS
  <2>2. info' \in [Volumes -> [owner : Users \cup {None}, host : Names]]
    BY <2>1
  <2>3. phase' \in [Volumes -> {"none", "initializing", "mounted", "withdrawn", "shutting", "removing"}]
    OBVIOUS
  <2>4. UNCHANGED <<lastId, uid, open, stopPending, quit, sema, thread, current, result, irp, target, senders, cancel, aborter, shutdown>>
    BY <1>26 DEF TCCreateDeviceObject, MountStep
  <2>5. devices' \subseteq Volumes
    OBVIOUS
  <2>. QED  BY <2>2, <2>3, <2>4, <2>5
<1>27. CASE TCStartVolumeThread
  BY <1>27 DEF TCStartVolumeThread, MountStep, At, Shape
<1>28. CASE ThreadStarted
  BY <1>28 DEF ThreadStarted, MountStep, At
<1>29. CASE Publish
  BY <1>29 DEF Publish, MountStep, At, Shape
<1>30. CASE LetterTaken
  BY <1>30 DEF LetterTaken, MountStep, At
<1>31. CASE MountManagerMount
  <2>1. ctl.vol \in Volumes
    BY <1>31 DEF MountManagerMount, Shape
  <2>2. UNCHANGED requests \/ \E r \in Irps : Send(r, ctl.vol)
    BY <1>31 DEF MountManagerMount
  <2>. QED  BY <1>31, <2>1, <2>2, SendType DEF MountManagerMount
<1>32. CASE MountManagerMounted
  BY <1>32 DEF MountManagerMounted, MountStep
<1>33. CASE FilesOpen
  BY <1>33 DEF FilesOpen, UnmountStep, Continue
<1>34. CASE LockAndDismount
  <2>1. ctl.vol \in Volumes
    BY <1>34 DEF LockAndDismount, Shape
  <2>2. UNCHANGED requests \/ \E r \in Irps : Send(r, ctl.vol)
    BY <1>34 DEF LockAndDismount
  <2>. QED  BY ZenonT(60), <1>34, <2>1, <2>2, SendType DEF LockAndDismount, UnmountStep
<1>35. CASE Dismounted
  BY <1>35 DEF Dismounted, UnmountStep
<1>36. CASE SetShuttingDown
  BY <1>36 DEF SetShuttingDown, UnmountStep, At
<1>37. CASE ReleaseRemoveLock
  BY <1>37 DEF ReleaseRemoveLock, UnmountStep, At
<1>38. CASE RemoveLockWait
  BY <1>38 DEF RemoveLockWait, UnmountStep
<1>39. CASE SetThreadShouldQuit
  BY ZenonT(60), <1>39 DEF SetThreadShouldQuit, UnmountStep, At, Shape
<1>40. CASE WakeThread
  BY <1>40 DEF WakeThread, UnmountStep, At, Shape
<1>41. CASE ThreadExited
  BY <1>41 DEF ThreadExited, UnmountStep, At
<1>42. CASE EraseSlot
  BY <1>42 DEF EraseSlot, UnmountStep, Continue, Shape, Blank
<1>43. CASE UnmountVolume
  BY <1>43 DEF UnmountVolume, Accepts, UnmountStep, Idle, Holder
<1>44. CASE UnmountAllVolumes
  BY <1>44 DEF UnmountAllVolumes, Accepts, UnmountStep, All, Idle, Holder
<1>45. CASE UnmountAllDevices
  BY <1>45 DEF UnmountAllDevices, UnmountStep, Continue, FindVolumeWithHighestUniqueId, Candidates
<1>46. CASE BeginShutdown
  BY <1>46 DEF BeginShutdown
<1>47. CASE OnShutdownPending
  BY <1>47 DEF OnShutdownPending, UnmountStep, All, Idle, Holder
<1>48. CASE UNCHANGED vars
  BY <1>48 DEF vars
<1>. QED
  BY <1>1, <1>2, <1>3, <1>4, <1>5, <1>6, <1>7, <1>8, <1>9, <1>10, <1>11, <1>12, <1>13, <1>14, <1>15, <1>16, <1>17, <1>18, <1>19, <1>20, <1>21, <1>22, <1>23, <1>24, <1>25, <1>26, <1>27, <1>28, <1>29, <1>30, <1>31, <1>32, <1>33, <1>34, <1>35, <1>36, <1>37, <1>38, <1>39, <1>40, <1>41, <1>42, <1>43, <1>44, <1>45, <1>46, <1>47, <1>48 DEF Next, TCDispatchQueueIRP, VolumeThreadProc, AbortPendingMount, ControlStep, MountDevice, UnmountDevice

----------------------------------------------------------------------------
(* What the steps with several outcomes do to the holder of the mutex *)

Same == ctl'.vol = ctl.vol /\ ctl'.op = ctl.op /\ ctl'.user = ctl.user /\ ctl'.force = ctl.force /\ ctl'.max = ctl.max

LEMMA ContinueStep ==
    ASSUME ctl \in Holders, NEW again, Continue(again)
    PROVE  \/ ctl'.pc = "free" /\ ctl'.op = "none"
           \/ ctl'.pc = "next" /\ Same
<1>1. CASE ctl' = Idle
  BY <1>1 DEF Idle, Holder
<1>2. CASE ctl' = [ctl EXCEPT !.pc = "next", !.irp = None]
  BY <1>2 DEF Holders, Same
<1>. QED  BY <1>1, <1>2 DEF Continue

LEMMA FilesOpenStep ==
    ASSUME ctl \in Holders, FilesOpen
    PROVE  /\ ctl.pc = "lock" /\ UNCHANGED <<registry, volume, worker, requests, abort>>
           /\ \/ ctl'.pc = "free" /\ ctl'.op = "none"
              \/ ctl'.pc = "next" /\ Same
<1>1. ctl.pc = "lock" /\ UNCHANGED <<registry, volume, worker, requests, abort>> /\ Continue(TRUE)
  BY DEF FilesOpen, UnmountStep, registry, volume, worker, requests, abort
<1>. QED  BY <1>1, ContinueStep

LEMMA EraseStep ==
    ASSUME ctl \in Holders, EraseSlot
    PROVE  /\ ctl.pc = "erase" /\ UNCHANGED <<lastId, phase, open, stopPending, thread, current, requests, abort>>
           /\ devices' = devices \ {ctl.vol}
           /\ info' = [info EXCEPT ![ctl.vol] = Blank] /\ uid' = [uid EXCEPT ![ctl.vol] = 0]
           /\ quit' = [quit EXCEPT ![ctl.vol] = FALSE] /\ result' = [result EXCEPT ![ctl.vol] = "none"]
           /\ \/ ctl'.pc = "free" /\ ctl'.op = "none"
              \/ ctl'.pc = "next" /\ Same
<1>1. Continue(~ctl.triggered)
  BY DEF EraseSlot
<1>2. \/ ctl'.pc = "free" /\ ctl'.op = "none"
      \/ ctl'.pc = "next" /\ Same
  BY <1>1, ContinueStep
<1>. QED  BY <1>2 DEF EraseSlot, UnmountStep, abort

LEMMA NextVolume ==
    ASSUME ctl \in Holders, UnmountAllDevices
    PROVE  /\ ctl.pc = "next"
           /\ UNCHANGED <<registry, volume, worker, requests, abort>>
           /\ \/ ctl'.pc = "free" /\ ctl'.op = "none"
              \/ ctl'.pc = "next" /\ Same
              \/ /\ ctl'.pc \in {"lock", "next"} /\ ctl'.vol \in devices /\ ctl'.max = uid[ctl'.vol] - 1
                 /\ ctl'.op = ctl.op /\ ctl'.user = ctl.user /\ ctl'.force = ctl.force
                 /\ ctl'.pc = "next" => ctl.user # System
                 /\ FindVolumeWithHighestUniqueId(ctl'.vol)
<1>1. ctl.pc = "next" /\ UNCHANGED <<registry, volume, worker, requests, abort>>
  BY DEF UnmountAllDevices, UnmountStep, registry, volume, worker, requests, abort
<1>2. CASE Continue(FALSE)
  BY <1>1, <1>2, ContinueStep
<1>3. ASSUME NEW v \in Volumes, FindVolumeWithHighestUniqueId(v), NEW p, p = IF IsVolumeAccessibleByCurrentUser(v) THEN "lock" ELSE "next",
             ctl' = [ctl EXCEPT !.pc = p, !.vol = v, !.max = uid[v] - 1]
      PROVE  /\ ctl'.pc \in {"lock", "next"} /\ ctl'.vol \in devices /\ ctl'.max = uid[ctl'.vol] - 1
             /\ ctl'.op = ctl.op /\ ctl'.user = ctl.user /\ ctl'.force = ctl.force
             /\ ctl'.pc = "next" => ctl.user # System
             /\ FindVolumeWithHighestUniqueId(ctl'.vol)
  <2>1. ctl'.pc = p /\ ctl'.vol = v /\ ctl'.max = uid[v] - 1 /\ ctl'.op = ctl.op /\ ctl'.user = ctl.user /\ ctl'.force = ctl.force
    BY <1>3 DEF Holders
  <2>2. v \in devices
    BY <1>3 DEF FindVolumeWithHighestUniqueId, Candidates
  <2>. QED  BY <1>3, <2>1, <2>2 DEF IsVolumeAccessibleByCurrentUser
<1>. QED  BY <1>1, <1>2, <1>3 DEF UnmountAllDevices

LEMMA LetterStep ==
    ASSUME ctl \in Holders, MountManagerMount
    PROVE  /\ ctl.pc = "letter" /\ UNCHANGED <<registry, volume, worker, abort>>
           /\ \/ ctl'.pc = "free" /\ ctl'.op = "none" /\ UNCHANGED requests
              \/ /\ ctl'.pc = "notify" /\ Same
                 /\ \E r \in Controls : Send(r, ctl.vol)
<1>1. ASSUME ctl' = Idle PROVE ctl'.pc = "free" /\ ctl'.op = "none"
  BY <1>1 DEF Idle, Holder
<1>2. ASSUME NEW r \in Controls, Send(r, ctl.vol), ctl' = [ctl EXCEPT !.pc = "notify", !.irp = r]
      PROVE  ctl'.pc = "notify" /\ Same
  BY <1>2 DEF Holders, Same
<1>3. ctl.pc = "letter" /\ UNCHANGED <<registry, volume, worker, abort>>
  BY DEF MountManagerMount
<1>. QED  BY <1>1, <1>2, <1>3 DEF MountManagerMount

LEMMA LockStep ==
    ASSUME ctl \in Holders, LockAndDismount
    PROVE  /\ ctl.pc = "lock" /\ (ctl.force \/ ~HostsVolume(ctl.vol))
           /\ UNCHANGED <<registry, volume, worker, abort>>
           /\ ctl'.pc \in {"shut", "flushed"} /\ Same
           /\ UNCHANGED requests \/ \E r \in Irps \ Controls : Send(r, ctl.vol)
<1>1. ASSUME ctl' = [ctl EXCEPT !.pc = "shut"] PROVE ctl'.pc = "shut" /\ Same
  BY <1>1 DEF Holders, Same
<1>2. ASSUME NEW r \in Irps \ Controls, Send(r, ctl.vol), ctl' = [ctl EXCEPT !.pc = "flushed", !.irp = r]
      PROVE  ctl'.pc = "flushed" /\ Same
  BY <1>2 DEF Holders, Same
<1>3. ctl.pc = "lock" /\ (ctl.force \/ ~HostsVolume(ctl.vol)) /\ UNCHANGED <<registry, volume, worker, abort>>
  BY DEF LockAndDismount, UnmountStep, registry, volume, worker, abort
<1>. QED  BY <1>1, <1>2, <1>3 DEF LockAndDismount

----------------------------------------------------------------------------
(* The shape of devices and threads *)

stage == <<devices, phase, thread, result, quit, open, stopPending, ctl>>

LEMMA ShapeFrame == Shape /\ UNCHANGED stage => Shape'
BY DEF stage, Shape, DeviceShape, ThreadShape, Handled, HandledShape, Opened

LEMMA ShapeStep == ASSUME IInv, [Next]_vars PROVE Shape'
<1>. USE DeviceAssumption DEF registry, volume, worker, requests, abort, control
<1>0. Shape /\ ctl' \in Holders
  BY HoldersStep DEF IInv
<1>a. /\ ctl \in Holders /\ devices \subseteq Volumes
      /\ phase \in [Volumes -> {"none", "initializing", "mounted", "withdrawn", "shutting", "removing"}]
      /\ open \in [Volumes -> BOOLEAN] /\ stopPending \in [Volumes -> BOOLEAN] /\ quit \in [Volumes -> BOOLEAN]
      /\ thread \in [Volumes -> Opening \cup Running \cup Ending \cup {"none", "exited"}]
      /\ result \in [Volumes -> {"none", "success", "failed", "aborted"}]
  BY DEF IInv, TypeOK, Opening, Running, Ending
<1>f. ASSUME \/ \E r \in Irps : Dispatch(r) \/ DispatchControl(r) \/ InsertTail(r) \/ FlushNothing(r) \/ AddIrpCount(r)
                              \/ AddIrpLock(r) \/ QueueCompletes(r)
             \/ \E v \in Volumes : ReleaseSemaphore(v)
             \/ \E a \in Aborters : AbortFind(a) \/ AbortSet(a)
             \/ BeginShutdown \/ UNCHANGED vars
      PROVE  Shape'
  BY <1>f, <1>0, ShapeFrame DEF stage, vars, Dispatch, DispatchControl, InsertTail, FlushNothing, AddIrpCount, AddIrpLock, QueueCompletes,
     ReleaseSemaphore, AbortFind, AbortSet, BeginShutdown
<1>c. ASSUME UnmountAllDevices
      PROVE  /\ ctl.pc = "next" /\ UNCHANGED <<devices, phase, thread, result, quit, open, stopPending>>
             /\ \/ ctl'.pc \in {"free", "next"}
                \/ ctl'.pc = "lock" /\ ctl'.vol \in devices /\ ctl'.op = ctl.op
  BY <1>c, <1>a, NextVolume
<1>35. ASSUME UnmountAllDevices PROVE Shape'
  <2>1. ctl.pc = "next" /\ UNCHANGED <<devices, phase, thread, result, quit, open, stopPending>>
    BY <1>35, <1>c
  <2>2. CASE ctl'.pc \in {"free", "next"}
    BY <2>1, <2>2, <1>0 DEF Shape, DeviceShape, ThreadShape, Handled, HandledShape, Opened, Opening, Running, Ending, Deleting, Mounting, Holders
  <2>3. CASE ctl'.pc = "lock" /\ ctl'.vol \in devices /\ ctl'.op = ctl.op
    <3>1. ASSUME NEW v \in Volumes PROVE ThreadShape(v)'
      BY <2>1, <2>3, <1>0 DEF Shape, ThreadShape, Handled, Opened
    <3>2. ASSUME NEW v \in Volumes PROVE DeviceShape(v)'
      <4>1. DeviceShape(v) /\ ~Handled(v)
        BY <2>1, <1>0 DEF Shape, Handled
      <4>. QED  BY <4>1, <2>1, <2>3 DEF DeviceShape, HandledShape, Handled, Deleting
    <3>. QED  BY <3>1, <3>2, <2>3, <1>a DEF Shape, Mounting
  <2>. QED  BY <1>35, <1>c, <2>2, <2>3
<1>. USE <1>0, <1>a DEF Shape, DeviceShape, ThreadShape, Handled, HandledShape, Opened, Opening, Running, Ending, Deleting, Mounting, Holders
<1>1. ASSUME NEW v \in Volumes, ReadHeader(v) PROVE Shape'
  BY <1>1 DEF ReadHeader, Fail
<1>2. ASSUME NEW v \in Volumes, HeaderRead(v) PROVE Shape'
  BY <1>2 DEF HeaderRead, Step, Fail
<1>3. ASSUME NEW v \in Volumes, StartQueue(v) PROVE Shape'
  BY <1>3 DEF StartQueue, Step, Fail
<1>4. ASSUME NEW v \in Volumes, AwaitRequest(v) PROVE Shape'
  BY <1>4 DEF AwaitRequest, Step
<1>5. ASSUME NEW v \in Volumes, TakeRequest(v) PROVE Shape'
  BY <1>5 DEF TakeRequest, Step, Listed
<1>6. ASSUME NEW v \in Volumes, ListEmpty(v) PROVE Shape'
  BY <1>6 DEF ListEmpty, Step
<1>7. ASSUME NEW v \in Volumes, ProcessRequest(v) PROVE Shape'
  BY <1>7 DEF ProcessRequest, Step
<1>8. ASSUME NEW v \in Volumes, ReleaseLock(v) PROVE Shape'
  BY <1>8 DEF ReleaseLock, Step
<1>9. ASSUME NEW v \in Volumes, CheckQuit(v) PROVE Shape'
  BY <1>9 DEF CheckQuit
<1>10. ASSUME NEW v \in Volumes, StopQueue(v) PROVE Shape'
  BY <1>10 DEF StopQueue, Step
<1>11. ASSUME NEW v \in Volumes, QueueStopped(v) PROVE Shape'
  BY <1>11 DEF QueueStopped, Step
<1>12. ASSUME NEW v \in Volumes, TCCloseVolume(v) PROVE Shape'
  BY <1>12 DEF TCCloseVolume, Step
<1>13. CASE RegisterMountCancelContext
  BY <1>13 DEF RegisterMountCancelContext
<1>14. CASE SetMountCancelContextUserSid
  BY <1>14 DEF SetMountCancelContextUserSid
<1>15. CASE UnregisterMountCancelContext
  BY <1>15 DEF UnregisterMountCancelContext
<1>16. CASE TCCreateDeviceObject
  BY <1>16 DEF TCCreateDeviceObject, MountStep, Accepts, Idle, Holder
<1>17. CASE TCStartVolumeThread
  BY <1>17 DEF TCStartVolumeThread, MountStep, At
<1>18. CASE ThreadStarted
  BY <1>18 DEF ThreadStarted, MountStep, At
<1>19. CASE Publish
  BY <1>19 DEF Publish, MountStep, At
<1>20. CASE LetterTaken
  BY <1>20 DEF LetterTaken, MountStep, At
<1>21. CASE MountManagerMount
  BY <1>21, LetterStep DEF Same
<1>22. CASE MountManagerMounted
  BY <1>22 DEF MountManagerMounted, MountStep, Idle, Holder
<1>23. CASE FilesOpen
  BY <1>23, FilesOpenStep DEF Same
<1>24. CASE LockAndDismount
  BY <1>24, LockStep DEF Same
<1>25. CASE Dismounted
  BY <1>25 DEF Dismounted, UnmountStep
<1>26. CASE SetShuttingDown
  BY <1>26 DEF SetShuttingDown, UnmountStep, At
<1>27. CASE ReleaseRemoveLock
  BY <1>27 DEF ReleaseRemoveLock, UnmountStep, At
<1>28. CASE RemoveLockWait
  BY <1>28 DEF RemoveLockWait, UnmountStep
<1>29. CASE SetThreadShouldQuit
  BY <1>29 DEF SetThreadShouldQuit, UnmountStep, At
<1>30. CASE WakeThread
  BY <1>30 DEF WakeThread, UnmountStep, At
<1>31. CASE ThreadExited
  BY <1>31 DEF ThreadExited, UnmountStep, At
<1>32. CASE EraseSlot
  BY <1>32, EraseStep DEF Same
<1>33. CASE UnmountVolume
  BY <1>33 DEF UnmountVolume, Accepts, UnmountStep, Idle, Holder
<1>34. CASE UnmountAllVolumes
  BY <1>34 DEF UnmountAllVolumes, Accepts, UnmountStep, All, Idle, Holder
<1>36. CASE OnShutdownPending
  BY <1>36 DEF OnShutdownPending, UnmountStep, All, Idle, Holder
<1>. QED
  BY <1>1, <1>2, <1>3, <1>4, <1>5, <1>6, <1>7, <1>8, <1>9, <1>10, <1>11, <1>12, <1>13, <1>14, <1>15, <1>16, <1>17, <1>18, <1>19, <1>20, <1>21, <1>22, <1>23, <1>24, <1>25, <1>26, <1>27, <1>28, <1>29, <1>30, <1>31, <1>32, <1>33, <1>34, <1>35, <1>36, <1>f DEF Next, TCDispatchQueueIRP, VolumeThreadProc, AbortPendingMount, ControlStep,
     MountDevice, UnmountDevice

----------------------------------------------------------------------------
(* Requests *)

LEMMA RequestFrame == RequestShape /\ UNCHANGED <<irp, target, phase, thread, current>> => RequestShape'
BY DEF RequestShape, InProgress, Opened

(* A request that is sent to a published device is on its way there or answered *)
LEMMA RequestSent ==
    ASSUME TypeOK, RequestShape, NEW r \in Irps, NEW v \in Volumes, Send(r, v), Opened(v), UNCHANGED <<phase, thread, current>>
    PROVE  RequestShape'
<1>1. irp \in [Irps -> Stages] /\ target \in [Irps -> Volumes \cup {None}] /\ current \in [Volumes -> Irps \cup {None}]
  BY DEF TypeOK, Stages, Names
<1>2. CASE Answer(r)
  BY <1>1, <1>2, DeviceAssumption DEF RequestShape, InProgress, Opened, Send, Answer
<1>3. CASE irp' = [irp EXCEPT ![r] = "passed"] /\ target' = [target EXCEPT ![r] = v]
  BY <1>1, <1>3, DeviceAssumption DEF RequestShape, InProgress, Opened, Send
<1>. QED  BY <1>2, <1>3 DEF Send

LEMMA RequestStep == ASSUME IInv, [Next]_vars PROVE RequestShape'
<1>. USE DeviceAssumption DEF registry, volume, worker, requests, abort, control
<1>0. TypeOK /\ Shape /\ RequestShape
  BY DEF IInv
<1>a. /\ phase \in [Volumes -> {"none", "initializing", "mounted", "withdrawn", "shutting", "removing"}]
      /\ thread \in [Volumes -> Opening \cup Running \cup Ending \cup {"none", "exited"}]
      /\ current \in [Volumes -> Irps \cup {None}]
      /\ irp \in [Irps -> Stages] /\ target \in [Irps -> Volumes \cup {None}]
  BY <1>0 DEF TypeOK, Opening, Running, Ending, Stages, Names
<1>. USE <1>0, <1>a
<1>f. ASSUME \/ \E v \in Volumes : ReleaseSemaphore(v)
             \/ \E a \in Aborters : AbortFind(a) \/ AbortSet(a)
             \/ RegisterMountCancelContext \/ SetMountCancelContextUserSid \/ UnregisterMountCancelContext \/
                   ThreadStarted \/ MountManagerMounted \/ FilesOpen \/ Dismounted \/ RemoveLockWait \/ SetThreadShouldQuit
                   \/ WakeThread \/ ThreadExited \/ EraseSlot \/ UnmountVolume \/ UnmountAllVolumes \/ UnmountAllDevices \/
                   BeginShutdown \/ OnShutdownPending \/ UNCHANGED vars
      PROVE  RequestShape'
  BY <1>f, RequestFrame DEF vars, ReleaseSemaphore, AbortFind, AbortSet, RegisterMountCancelContext,
     SetMountCancelContextUserSid, UnregisterMountCancelContext, ThreadStarted, MountStep, MountManagerMounted, FilesOpen,
     UnmountStep, Dismounted, RemoveLockWait, SetThreadShouldQuit, WakeThread, ThreadExited, EraseSlot, UnmountVolume,
     UnmountAllVolumes, UnmountAllDevices, BeginShutdown, OnShutdownPending
<1>. USE DEF RequestShape, InProgress, Opened
<1>1. ASSUME NEW r \in Irps, Dispatch(r) PROVE RequestShape'
  BY <1>1, RequestSent DEF Dispatch
<1>2. ASSUME NEW r \in Irps, DispatchControl(r) PROVE RequestShape'
  BY <1>2 DEF DispatchControl, Answer, Move
<1>3. ASSUME NEW r \in Irps, InsertTail(r) PROVE RequestShape'
  BY <1>3 DEF InsertTail, Move
<1>4. ASSUME NEW r \in Irps, FlushNothing(r) PROVE RequestShape'
  BY <1>4 DEF FlushNothing, Answer
<1>5. ASSUME NEW r \in Irps, AddIrpCount(r) PROVE RequestShape'
  BY <1>5 DEF AddIrpCount, Answer, Move
<1>6. ASSUME NEW r \in Irps, AddIrpLock(r) PROVE RequestShape'
  BY <1>6 DEF AddIrpLock, Answer, Move
<1>7. ASSUME NEW r \in Irps, QueueCompletes(r) PROVE RequestShape'
  BY <1>7 DEF QueueCompletes, Answer, Move
<1>8. ASSUME NEW v \in Volumes, ReadHeader(v) PROVE RequestShape'
  BY <1>8 DEF ReadHeader, Fail
<1>9. ASSUME NEW v \in Volumes, HeaderRead(v) PROVE RequestShape'
  BY <1>9 DEF HeaderRead, Step, Fail
<1>10. ASSUME NEW v \in Volumes, StartQueue(v) PROVE RequestShape'
  BY <1>10 DEF StartQueue, Step, Fail
<1>11. ASSUME NEW v \in Volumes, AwaitRequest(v) PROVE RequestShape'
  BY <1>11 DEF AwaitRequest, Step
<1>12. ASSUME NEW v \in Volumes, TakeRequest(v) PROVE RequestShape'
  BY <1>12 DEF TakeRequest, Step, Move, Listed
<1>13. ASSUME NEW v \in Volumes, ListEmpty(v) PROVE RequestShape'
  BY <1>13 DEF ListEmpty, Step
<1>14. ASSUME NEW v \in Volumes, ProcessRequest(v) PROVE RequestShape'
  BY <1>14 DEF ProcessRequest, Step, Answer
<1>15. ASSUME NEW v \in Volumes, ReleaseLock(v) PROVE RequestShape'
  BY <1>15 DEF ReleaseLock, Step
<1>16. ASSUME NEW v \in Volumes, CheckQuit(v) PROVE RequestShape'
  BY <1>16 DEF CheckQuit
<1>17. ASSUME NEW v \in Volumes, StopQueue(v) PROVE RequestShape'
  BY <1>17 DEF StopQueue, Step
<1>18. ASSUME NEW v \in Volumes, QueueStopped(v) PROVE RequestShape'
  BY <1>18 DEF QueueStopped, Step
<1>19. ASSUME NEW v \in Volumes, TCCloseVolume(v) PROVE RequestShape'
  BY <1>19 DEF TCCloseVolume, Step
<1>20. CASE TCCreateDeviceObject
  BY <1>20 DEF TCCreateDeviceObject, MountStep
<1>21. CASE TCStartVolumeThread
  <2>1. ctl.vol \in Volumes
    BY <1>21 DEF TCStartVolumeThread, At, Shape
  <2>. QED  BY <1>21, <2>1 DEF TCStartVolumeThread, MountStep
<1>22. CASE Publish
  <2>1. ctl.vol \in Volumes
    BY <1>22 DEF Publish, At, Shape
  <2>. QED  BY <1>22, <2>1 DEF Publish, MountStep
<1>23. CASE LetterTaken
  <2>1. ctl.vol \in Volumes
    BY <1>23 DEF LetterTaken, At, Shape
  <2>. QED  BY <1>23, <2>1 DEF LetterTaken, MountStep
<1>24. CASE MountManagerMount
  <2>1. CASE UNCHANGED requests
    BY <2>1, <1>24, RequestFrame DEF MountManagerMount
  <2>2. ctl.vol \in Volumes /\ Opened(ctl.vol)
    BY <1>24 DEF MountManagerMount, Shape, DeviceShape, Handled, HandledShape
  <2>. QED  BY <1>24, <2>1, <2>2, RequestSent DEF MountManagerMount
<1>25. CASE LockAndDismount
  <2>1. CASE UNCHANGED requests
    BY <2>1, <1>25, RequestFrame DEF LockAndDismount, UnmountStep
  <2>2. ctl.vol \in Volumes /\ Opened(ctl.vol)
    BY <1>25 DEF LockAndDismount, Shape, DeviceShape, Handled, HandledShape
  <2>. QED  BY <1>25, <2>1, <2>2, RequestSent DEF LockAndDismount, UnmountStep
<1>26. CASE SetShuttingDown
  <2>1. ctl.vol \in Volumes
    BY <1>26 DEF SetShuttingDown, At, Shape
  <2>. QED  BY <1>26, <2>1 DEF SetShuttingDown, UnmountStep
<1>27. CASE ReleaseRemoveLock
  <2>1. ctl.vol \in Volumes
    BY <1>27 DEF ReleaseRemoveLock, At, Shape
  <2>. QED  BY <1>27, <2>1 DEF ReleaseRemoveLock, UnmountStep
<1>. QED  BY <1>1, <1>2, <1>3, <1>4, <1>5, <1>6, <1>7, <1>8, <1>9, <1>10, <1>11, <1>12, <1>13, <1>14, <1>15, <1>16, <1>17,
     <1>18, <1>19, <1>20, <1>21, <1>22, <1>23, <1>24, <1>25, <1>26, <1>27, <1>f DEF Next, TCDispatchQueueIRP,
     VolumeThreadProc, AbortPendingMount, ControlStep, MountDevice, UnmountDevice

----------------------------------------------------------------------------
(* Quiet, element by element *)

Queued(r) == irp[r] \in {"counted", "queued", "completing"}
Locks(r) == irp[r] \in {"locked", "listed", "processing", "queued"}
Unlocked(v) == thread[v] # "release" /\ \A r \in Irps : target[r] = v => ~Locks(r)
Silent(v) ==
    /\ thread[v] \in {"close", "exited"} => \A r \in Irps : target[r] = v => ~Queued(r)
    /\ phase[v] = "removing" /\ ~(ctl.vol = v /\ ctl.pc = "removing") => Unlocked(v)

LEMMA QuietSilent == (Quiet <=> \A v \in Volumes : Silent(v)) /\ (Quiet <=> \A v \in Volumes : Silent(v))'
BY DEF Quiet, Silent, Unlocked, Queued, Locks, InQueue, LockHolders

LEMMA QuietFrame == Quiet /\ UNCHANGED <<irp, target, phase, thread, current>> /\ (ctl.pc # "removing" \/ UNCHANGED ctl) => Quiet'
BY DEF Quiet, InQueue, LockHolders

(* A request that is sent is neither queued nor does it hold a lock *)
LEMMA QuietSent ==
    ASSUME TypeOK, Quiet, NEW r \in Irps, NEW v \in Volumes, Send(r, v), UNCHANGED <<phase, thread, current>>,
           ctl.pc # "removing" \/ UNCHANGED ctl
    PROVE  Quiet'
<1>1. irp \in [Irps -> Stages] /\ target \in [Irps -> Volumes \cup {None}]
  BY DEF TypeOK, Stages, Names
<1>2. ASSUME NEW w \in Volumes PROVE Silent(w)'
  <2>1. \A x \in Irps : x # r => irp'[x] = irp[x] /\ target'[x] = target[x]
    BY <1>1 DEF Send, Answer
  <2>2. irp'[r] \in {"passed", "answered"}
    BY <1>1 DEF Send, Answer
  <2>. QED  BY <2>1, <2>2, QuietSilent DEF Silent, Unlocked, Queued, Locks
<1>. QED  BY <1>2, QuietSilent

LEMMA QuietStep == ASSUME IInv, [Next]_vars PROVE Quiet'
<1>. USE DeviceAssumption DEF registry, volume, worker, requests, abort, control
<1>0. TypeOK /\ Shape /\ RequestShape /\ Quiet
  BY DEF IInv
<1>a. /\ phase \in [Volumes -> {"none", "initializing", "mounted", "withdrawn", "shutting", "removing"}]
      /\ thread \in [Volumes -> Opening \cup Running \cup Ending \cup {"none", "exited"}]
      /\ current \in [Volumes -> Irps \cup {None}]
      /\ irp \in [Irps -> Stages] /\ target \in [Irps -> Volumes \cup {None}] /\ ctl \in Holders
  BY <1>0 DEF TypeOK, Opening, Running, Ending, Stages, Names
<1>. USE <1>0, <1>a
(* A request in progress is with a published device, and where its queue has not been stopped the thread runs *)
<1>b. \A r \in Irps : InProgress(r) => /\ target[r] \in Volumes /\ Opened(target[r])
                                       /\ thread[target[r]] \in {"close", "exited"} => stopPending[target[r]]
  BY DEF RequestShape, Shape, ThreadShape
(* A thread that opens a volume has none of them *)
<1>c. \A v \in Volumes : thread[v] \in Opening =>
         phase[v] = "initializing" /\ ctl.pc = "await" /\ \A r \in Irps : target[r] # v
  BY <1>b DEF Shape, DeviceShape, ThreadShape, Handled, HandledShape, RequestShape, Opened, InProgress
<1>d. \A v \in Volumes : Silent(v)
  BY QuietSilent
<1>h. ctl.pc \notin {"free", "next"} => ctl.vol \in Volumes
  BY DEF Shape
<1>f. ASSUME \/ \E v \in Volumes : ReleaseSemaphore(v)
             \/ \E a \in Aborters : AbortFind(a) \/ AbortSet(a)
             \/ RegisterMountCancelContext \/ SetMountCancelContextUserSid \/ UnregisterMountCancelContext \/
                   ThreadStarted \/ MountManagerMounted \/ Dismounted \/ SetThreadShouldQuit \/ WakeThread \/ ThreadExited
                   \/ UnmountVolume \/ UnmountAllVolumes \/ BeginShutdown \/ OnShutdownPending \/ UNCHANGED vars
      PROVE  Quiet'
  <2>1. UNCHANGED <<irp, target, phase, thread, current>>
    BY <1>f DEF vars, ReleaseSemaphore, AbortFind, AbortSet, RegisterMountCancelContext, SetMountCancelContextUserSid,
       UnregisterMountCancelContext, ThreadStarted, MountStep, MountManagerMounted, Dismounted, UnmountStep,
       SetThreadShouldQuit, WakeThread, ThreadExited, UnmountVolume, UnmountAllVolumes, BeginShutdown, OnShutdownPending
  <2>2. Idle.pc = "free"
    BY DEF Idle, Holder
  <2>3. ctl.pc # "removing" \/ UNCHANGED ctl
    BY <1>f, <2>2 DEF At, Accepts, vars, ReleaseSemaphore, AbortFind, AbortSet, RegisterMountCancelContext,
       SetMountCancelContextUserSid, UnregisterMountCancelContext, ThreadStarted, MountStep, MountManagerMounted, Dismounted,
       UnmountStep, SetThreadShouldQuit, WakeThread, ThreadExited, UnmountVolume, UnmountAllVolumes, BeginShutdown,
       OnShutdownPending
  <2>. QED  BY <2>1, <2>3, QuietFrame
<1>1. ASSUME NEW r \in Irps, Dispatch(r) PROVE Quiet'
  BY <1>1, QuietSent DEF Dispatch
<1>2. ASSUME NEW r \in Irps, DispatchControl(r) PROVE Quiet'
  <2>1. ASSUME NEW w \in Volumes PROVE Silent(w)'
    BY <1>2, <1>d DEF DispatchControl, Answer, Move, Silent, Unlocked, Queued, Locks
  <2>. QED  BY <2>1, QuietSilent
<1>3. ASSUME NEW r \in Irps, InsertTail(r) PROVE Quiet'
  <2>1. ASSUME NEW w \in Volumes PROVE Silent(w)'
    BY <1>3, <1>d DEF InsertTail, Move, Silent, Unlocked, Queued, Locks
  <2>. QED  BY <2>1, QuietSilent
<1>4. ASSUME NEW r \in Irps, FlushNothing(r) PROVE Quiet'
  <2>1. ASSUME NEW w \in Volumes PROVE Silent(w)'
    BY <1>4, <1>d DEF FlushNothing, Answer, Silent, Unlocked, Queued, Locks
  <2>. QED  BY <2>1, QuietSilent
<1>5. ASSUME NEW r \in Irps, AddIrpCount(r) PROVE Quiet'
  <2>1. ASSUME NEW w \in Volumes PROVE Silent(w)'
    BY <1>5, <1>d, <1>b DEF AddIrpCount, Answer, Move, InProgress, Silent, Unlocked, Queued, Locks
  <2>. QED  BY <2>1, QuietSilent
<1>6. ASSUME NEW r \in Irps, AddIrpLock(r) PROVE Quiet'
  <2>1. ASSUME NEW w \in Volumes PROVE Silent(w)'
    BY <1>6, <1>d DEF AddIrpLock, Answer, Move, Silent, Unlocked, Queued, Locks
  <2>. QED  BY <2>1, QuietSilent
<1>7. ASSUME NEW r \in Irps, QueueCompletes(r) PROVE Quiet'
  <2>1. ASSUME NEW w \in Volumes PROVE Silent(w)'
    BY <1>7, <1>d DEF QueueCompletes, Answer, Move, Silent, Unlocked, Queued, Locks
  <2>. QED  BY <2>1, QuietSilent
<1>8. ASSUME NEW v \in Volumes, ReadHeader(v) PROVE Quiet'
  <2>1. ASSUME NEW w \in Volumes PROVE Silent(w)'
    BY <1>8, <1>d, <1>c DEF ReadHeader, Fail, Opening, Silent, Unlocked, Queued, Locks
  <2>. QED  BY <2>1, QuietSilent
<1>9. ASSUME NEW v \in Volumes, HeaderRead(v) PROVE Quiet'
  <2>1. ASSUME NEW w \in Volumes PROVE Silent(w)'
    BY <1>9, <1>d, <1>c DEF HeaderRead, Step, Fail, Opening, Silent, Unlocked, Queued, Locks
  <2>. QED  BY <2>1, QuietSilent
<1>10. ASSUME NEW v \in Volumes, StartQueue(v) PROVE Quiet'
  <2>1. ASSUME NEW w \in Volumes PROVE Silent(w)'
    BY <1>10, <1>d, <1>c DEF StartQueue, Step, Fail, Opening, Silent, Unlocked, Queued, Locks
  <2>. QED  BY <2>1, QuietSilent
<1>11. ASSUME NEW v \in Volumes, AwaitRequest(v) PROVE Quiet'
  <2>1. ASSUME NEW w \in Volumes PROVE Silent(w)'
    BY <1>11, <1>d DEF AwaitRequest, Step, Silent, Unlocked, Queued, Locks
  <2>. QED  BY <2>1, QuietSilent
<1>12. ASSUME NEW v \in Volumes, TakeRequest(v) PROVE Quiet'
  <2>1. ASSUME NEW w \in Volumes PROVE Silent(w)'
    BY <1>12, <1>d DEF TakeRequest, Step, Move, Listed, Silent, Unlocked, Queued, Locks
  <2>. QED  BY <2>1, QuietSilent
<1>13. ASSUME NEW v \in Volumes, ListEmpty(v) PROVE Quiet'
  <2>1. ASSUME NEW w \in Volumes PROVE Silent(w)'
    BY <1>13, <1>d DEF ListEmpty, Step, Silent, Unlocked, Queued, Locks
  <2>. QED  BY <2>1, QuietSilent
<1>14. ASSUME NEW v \in Volumes, ProcessRequest(v) PROVE Quiet'
  <2>1. current[v] \in Irps /\ irp[current[v]] = "processing" /\ target[current[v]] = v
    BY <1>14 DEF ProcessRequest, Step, RequestShape
  <2>2. ASSUME NEW w \in Volumes PROVE Silent(w)'
    BY <1>14, <2>1, <1>d DEF ProcessRequest, Step, Answer, Silent, Unlocked, Queued, Locks
  <2>. QED  BY <2>2, QuietSilent
<1>15. ASSUME NEW v \in Volumes, ReleaseLock(v) PROVE Quiet'
  <2>1. ASSUME NEW w \in Volumes PROVE Silent(w)'
    BY <1>15, <1>d DEF ReleaseLock, Step, Silent, Unlocked, Queued, Locks
  <2>. QED  BY <2>1, QuietSilent
<1>16. ASSUME NEW v \in Volumes, CheckQuit(v) PROVE Quiet'
  <2>1. ASSUME NEW w \in Volumes PROVE Silent(w)'
    BY <1>16, <1>d DEF CheckQuit, Silent, Unlocked, Queued, Locks
  <2>. QED  BY <2>1, QuietSilent
<1>17. ASSUME NEW v \in Volumes, StopQueue(v) PROVE Quiet'
  <2>1. ASSUME NEW w \in Volumes PROVE Silent(w)'
    BY <1>17, <1>d DEF StopQueue, Step, Silent, Unlocked, Queued, Locks
  <2>. QED  BY <2>1, QuietSilent
<1>18. ASSUME NEW v \in Volumes, QueueStopped(v) PROVE Quiet'
  <2>1. \A r \in Irps : target[r] = v => ~Queued(r)
    BY <1>18 DEF QueueStopped, InQueue, Queued
  <2>2. ASSUME NEW w \in Volumes PROVE Silent(w)'
    BY <1>18, <2>1, <1>d DEF QueueStopped, Step, Silent, Unlocked, Queued, Locks
  <2>. QED  BY <2>2, QuietSilent
<1>19. ASSUME NEW v \in Volumes, TCCloseVolume(v) PROVE Quiet'
  <2>1. ASSUME NEW w \in Volumes PROVE Silent(w)'
    BY <1>19, <1>d DEF TCCloseVolume, Step, Silent, Unlocked, Queued, Locks
  <2>. QED  BY <2>1, QuietSilent
<1>20. CASE TCCreateDeviceObject
  <2>. PICK v \in Volumes : phase' = [phase EXCEPT ![v] = "initializing"]
    BY <1>20 DEF TCCreateDeviceObject
  <2>1. ctl.pc = "free" /\ UNCHANGED <<irp, target, thread, current>>
    BY <1>20 DEF TCCreateDeviceObject, MountStep, Accepts, Idle, Holder
  <2>2. ASSUME NEW w \in Volumes PROVE Silent(w)'
    BY <2>1, <1>d DEF Silent, Unlocked, Queued, Locks
  <2>. QED  BY <2>2, QuietSilent
<1>21. CASE TCStartVolumeThread
  <2>1. ASSUME NEW w \in Volumes PROVE Silent(w)'
    BY <1>21, <1>d, <1>h DEF TCStartVolumeThread, MountStep, At, Silent, Unlocked, Queued, Locks
  <2>. QED  BY <2>1, QuietSilent
<1>22. CASE Publish
  <2>1. ASSUME NEW w \in Volumes PROVE Silent(w)'
    BY <1>22, <1>d, <1>h DEF Publish, MountStep, At, Silent, Unlocked, Queued, Locks
  <2>. QED  BY <2>1, QuietSilent
<1>23. CASE LetterTaken
  <2>1. ASSUME NEW w \in Volumes PROVE Silent(w)'
    BY <1>23, <1>d, <1>h DEF LetterTaken, MountStep, At, Silent, Unlocked, Queued, Locks
  <2>. QED  BY <2>1, QuietSilent
<1>24. CASE MountManagerMount
  <2>1. CASE UNCHANGED requests
    BY <2>1, <1>24, LetterStep, QuietFrame
  <2>. QED  BY <1>24, <2>1, <1>h, LetterStep, QuietSent
<1>25. CASE FilesOpen
  BY <1>25, FilesOpenStep, QuietFrame
<1>26. CASE LockAndDismount
  <2>1. CASE UNCHANGED requests
    BY <2>1, <1>26, LockStep, QuietFrame
  <2>. QED  BY <1>26, <2>1, <1>h, LockStep, QuietSent
<1>27. CASE SetShuttingDown
  <2>1. ASSUME NEW w \in Volumes PROVE Silent(w)'
    BY <1>27, <1>d, <1>h DEF SetShuttingDown, UnmountStep, At, Silent, Unlocked, Queued, Locks
  <2>. QED  BY <2>1, QuietSilent
<1>28. CASE ReleaseRemoveLock
  <2>1. ASSUME NEW w \in Volumes PROVE Silent(w)'
    BY <1>28, <1>d, <1>h DEF ReleaseRemoveLock, UnmountStep, At, Silent, Unlocked, Queued, Locks
  <2>. QED  BY <2>1, QuietSilent
<1>29. CASE RemoveLockWait
  <2>1. Unlocked(ctl.vol)
    BY <1>29 DEF RemoveLockWait, LockHolders, Unlocked, Locks
  <2>2. ASSUME NEW w \in Volumes PROVE Silent(w)'
    BY <1>29, <2>1, <1>d DEF RemoveLockWait, UnmountStep, Silent, Unlocked, Queued, Locks
  <2>. QED  BY <2>2, QuietSilent
<1>30. CASE EraseSlot
  BY <1>30, EraseStep, QuietFrame
<1>31. CASE UnmountAllDevices
  BY <1>31, NextVolume, QuietFrame
<1>. QED  BY <1>1, <1>2, <1>3, <1>4, <1>5, <1>6, <1>7, <1>8, <1>9, <1>10, <1>11, <1>12, <1>13, <1>14, <1>15, <1>16, <1>17,
     <1>18, <1>19, <1>20, <1>21, <1>22, <1>23, <1>24, <1>25, <1>26, <1>27, <1>28, <1>29, <1>30, <1>31, <1>f DEF Next,
     TCDispatchQueueIRP, VolumeThreadProc, AbortPendingMount, ControlStep, MountDevice, UnmountDevice

----------------------------------------------------------------------------
(* The aborts of mounts *)

LEMMA AbortFrame ==
    ASSUME AbortShape, UNCHANGED <<cancel, aborter, info, result>>,
           ctl'.pc \in Mounting <=> ctl.pc \in Mounting, ctl.pc \in Mounting => ctl'.vol = ctl.vol
    PROVE  AbortShape'
BY DEF AbortShape, AbortsAreAuthorised, Owner

LEMMA AbortStep == ASSUME IInv, [Next]_vars PROVE AbortShape'
<1>. USE DeviceAssumption DEF registry, volume, worker, requests, abort, control
<1>0. TypeOK /\ Shape /\ AbortShape /\ ctl' \in Holders
  BY HoldersStep DEF IInv
<1>a. /\ thread \in [Volumes -> Opening \cup Running \cup Ending \cup {"none", "exited"}]
      /\ result \in [Volumes -> {"none", "success", "failed", "aborted"}]
      /\ info \in [Volumes -> [owner : Users \cup {None}, host : Names]]
      /\ cancel \in [active : BOOLEAN, sid : Users \cup {None}, seq : Nat, abortedBy : Users \cup {None}]
      /\ aborter \in [Aborters -> [pc : {"idle", "found", "done"}, user : Users, seq : Nat]]
      /\ ctl \in Holders
  BY <1>0 DEF TypeOK, Opening, Running, Ending
<1>. USE <1>0, <1>a
<1>b. /\ \A v \in Volumes : thread[v] \in Opening => ctl.pc = "await" /\ ctl.vol = v
      /\ \A v \in Volumes : result[v] = "aborted" => ctl.pc \in {"await", "unregister"} \cup Deleting /\ ctl.vol = v
  BY DEF Shape, ThreadShape, Handled
<1>h. ctl.pc \notin {"free", "next"} => ctl.vol \in Volumes
  BY DEF Shape
<1>f. ASSUME \/ \E r \in Irps : Dispatch(r) \/ DispatchControl(r) \/ InsertTail(r) \/ FlushNothing(r) \/ AddIrpCount(r)
                   \/ AddIrpLock(r) \/ QueueCompletes(r)
             \/ \E v \in Volumes : ReleaseSemaphore(v) \/ AwaitRequest(v) \/ TakeRequest(v) \/ ListEmpty(v) \/
                   ProcessRequest(v) \/ ReleaseLock(v) \/ CheckQuit(v) \/ StopQueue(v) \/ QueueStopped(v) \/
                   TCCloseVolume(v)
             \/ BeginShutdown \/ UNCHANGED vars
      PROVE  AbortShape'
  BY <1>f, AbortFrame DEF vars, Dispatch, DispatchControl, InsertTail, FlushNothing, AddIrpCount, AddIrpLock, QueueCompletes,
     ReleaseSemaphore, AwaitRequest, TakeRequest, ListEmpty, ProcessRequest, ReleaseLock, CheckQuit, StopQueue, QueueStopped,
     TCCloseVolume, BeginShutdown
<1>1. ASSUME NEW v \in Volumes, ReadHeader(v) PROVE AbortShape'
  BY <1>1, <1>b DEF ReadHeader, Fail, AbortShape, AbortsAreAuthorised, Owner, Mounting, Deleting, Opening, MountCancelRequested
<1>2. ASSUME NEW v \in Volumes, HeaderRead(v) PROVE AbortShape'
  BY <1>2, <1>b DEF HeaderRead, Step, Fail, AbortShape, AbortsAreAuthorised, Owner, Mounting, Deleting, Opening, MountCancelRequested
<1>3. ASSUME NEW v \in Volumes, StartQueue(v) PROVE AbortShape'
  BY <1>3, <1>b DEF StartQueue, Step, Fail, AbortShape, AbortsAreAuthorised, Owner, Mounting, Deleting, Opening, MountCancelRequested
<1>4. ASSUME NEW a \in Aborters, AbortFind(a) PROVE AbortShape'
  BY <1>4, <1>b, <1>h DEF AbortFind, NoAbort, AbortShape, AbortsAreAuthorised, Owner, Mounting, Deleting, Opening, MountCancelRequested
<1>5. ASSUME NEW a \in Aborters, AbortSet(a) PROVE AbortShape'
  BY <1>5, <1>b, <1>h DEF AbortSet, NoAbort, AbortShape, AbortsAreAuthorised, Owner, Mounting, Deleting, Opening, MountCancelRequested
<1>6. CASE RegisterMountCancelContext
  BY <1>6, <1>b, <1>h DEF RegisterMountCancelContext, NoAbort, AbortShape, AbortsAreAuthorised, Owner, Mounting, Deleting, Opening, MountCancelRequested
<1>7. CASE SetMountCancelContextUserSid
  <2>1. /\ ctl.pc = "sid" /\ ctl'.pc \in {"start", "unregister"} /\ ctl'.vol = ctl.vol /\ UNCHANGED <<info, result, aborter>>
        /\ cancel'.active = cancel.active /\ cancel'.seq = cancel.seq /\ cancel'.abortedBy = cancel.abortedBy
        /\ cancel'.sid \in {cancel.sid, Owner}
    BY <1>7 DEF SetMountCancelContextUserSid, Holders, Owner
  <2>. QED  BY <2>1, <1>b, <1>h DEF AbortShape, AbortsAreAuthorised, Owner, Mounting, Deleting, Opening, MountCancelRequested
<1>8. CASE UnregisterMountCancelContext
  BY <1>8, <1>b, <1>h DEF UnregisterMountCancelContext, NoAbort, AbortShape, AbortsAreAuthorised, Owner, Mounting, Deleting, Opening, MountCancelRequested
<1>9. CASE TCCreateDeviceObject
  <2>. PICK v : \E i : info' = [info EXCEPT ![v] = i]
    BY <1>9 DEF TCCreateDeviceObject
  <2>. PICK i : info' = [info EXCEPT ![v] = i]
    OBVIOUS
  <2>1. ctl.pc = "free" /\ ctl'.pc = "register" /\ UNCHANGED <<cancel, aborter, result>>
    BY <1>9 DEF TCCreateDeviceObject, MountStep, Accepts, Idle, Holder
  <2>. QED  BY <2>1, <1>b DEF AbortShape, AbortsAreAuthorised, Owner, Mounting, Deleting, Opening, MountCancelRequested
<1>10. CASE TCStartVolumeThread
  BY <1>10, AbortFrame DEF TCStartVolumeThread, MountStep, At, Mounting, Holders
<1>11. CASE ThreadStarted
  BY <1>11, AbortFrame DEF ThreadStarted, MountStep, At, Mounting, Holders
<1>12. CASE Publish
  BY <1>12, AbortFrame DEF Publish, MountStep, At, Mounting, Holders
<1>13. CASE LetterTaken
  BY <1>13, AbortFrame DEF LetterTaken, MountStep, At, Mounting, Holders
<1>14. CASE MountManagerMount
  BY <1>14, LetterStep, AbortFrame DEF Same, Mounting
<1>15. CASE MountManagerMounted
  BY <1>15, AbortFrame DEF MountManagerMounted, MountStep, Idle, Holder, Mounting, Holders
<1>16. CASE FilesOpen
  BY <1>16, FilesOpenStep, AbortFrame DEF Same, Mounting
<1>17. CASE LockAndDismount
  BY <1>17, LockStep, AbortFrame DEF Same, Mounting
<1>18. CASE Dismounted
  BY <1>18, AbortFrame DEF Dismounted, UnmountStep, Mounting, Holders
<1>19. CASE SetShuttingDown
  BY <1>19, AbortFrame DEF SetShuttingDown, UnmountStep, At, Mounting, Holders
<1>20. CASE ReleaseRemoveLock
  BY <1>20, AbortFrame DEF ReleaseRemoveLock, UnmountStep, At, Mounting, Holders
<1>21. CASE RemoveLockWait
  BY <1>21, AbortFrame DEF RemoveLockWait, UnmountStep, Mounting, Holders
<1>22. CASE SetThreadShouldQuit
  BY <1>22, AbortFrame DEF SetThreadShouldQuit, UnmountStep, At, Mounting, Holders
<1>23. CASE WakeThread
  BY <1>23, AbortFrame DEF WakeThread, UnmountStep, At, Mounting, Holders
<1>24. CASE ThreadExited
  BY <1>24, AbortFrame DEF ThreadExited, UnmountStep, At, Mounting, Holders
<1>25. CASE EraseSlot
  <2>1. /\ ctl.pc = "erase" /\ ctl'.pc \in {"free", "next"} /\ UNCHANGED <<cancel, aborter>>
        /\ result' = [result EXCEPT ![ctl.vol] = "none"]
    BY <1>25, EraseStep
  <2>. QED  BY <2>1, <1>b, <1>h DEF AbortShape, AbortsAreAuthorised, Owner, Mounting, Deleting, Opening, MountCancelRequested
<1>26. CASE UnmountVolume
  BY <1>26, AbortFrame DEF UnmountVolume, Accepts, UnmountStep, Idle, Holder, Mounting, Holders
<1>27. CASE UnmountAllVolumes
  BY <1>27, AbortFrame DEF UnmountAllVolumes, Accepts, UnmountStep, All, Idle, Holder, Mounting, Holders
<1>28. CASE UnmountAllDevices
  BY <1>28, NextVolume, AbortFrame DEF Same, Mounting
<1>29. CASE OnShutdownPending
  BY <1>29, AbortFrame DEF OnShutdownPending, UnmountStep, All, Idle, Holder, Mounting, Holders
<1>. QED  BY <1>1, <1>2, <1>3, <1>4, <1>5, <1>6, <1>7, <1>8, <1>9, <1>10, <1>11, <1>12, <1>13, <1>14, <1>15, <1>16, <1>17,
     <1>18, <1>19, <1>20, <1>21, <1>22, <1>23, <1>24, <1>25, <1>26, <1>27, <1>28, <1>29, <1>f DEF Next, TCDispatchQueueIRP,
     VolumeThreadProc, AbortPendingMount, ControlStep, MountDevice, UnmountDevice

----------------------------------------------------------------------------
(* Volumes and the numbers they get *)

LEMMA NumberedFrame == Numbered /\ UNCHANGED <<devices, phase, uid, lastId, info>> => Numbered'
BY DEF Numbered, Opened

LEMMA NumberedStep == ASSUME IInv, [Next]_vars PROVE Numbered'
<1>. USE DeviceAssumption DEF registry, volume, worker, requests, abort, control
<1>0. TypeOK /\ Shape /\ Numbered
  BY DEF IInv
<1>a. /\ phase \in [Volumes -> {"none", "initializing", "mounted", "withdrawn", "shutting", "removing"}]
      /\ info \in [Volumes -> [owner : Users \cup {None}, host : Names]]
      /\ uid \in [Volumes -> Nat] /\ lastId \in Nat /\ devices \subseteq Volumes /\ ctl \in Holders
  BY <1>0 DEF TypeOK
<1>. USE <1>0, <1>a
<1>b. ctl.pc \notin {"free", "next"} =>
         ctl.vol \in Volumes /\ HandledShape(ctl.vol) /\ \A v \in devices : v # ctl.vol => phase[v] = "mounted"
  BY DEF Shape, DeviceShape, Handled
<1>f. ASSUME \/ \E r \in Irps : Dispatch(r) \/ DispatchControl(r) \/ InsertTail(r) \/ FlushNothing(r) \/ AddIrpCount(r)
                   \/ AddIrpLock(r) \/ QueueCompletes(r)
             \/ \E v \in Volumes : ReleaseSemaphore(v) \/ ReadHeader(v) \/ HeaderRead(v) \/ StartQueue(v) \/
                   AwaitRequest(v) \/ TakeRequest(v) \/ ListEmpty(v) \/ ProcessRequest(v) \/ ReleaseLock(v) \/ CheckQuit(v)
                   \/ StopQueue(v) \/ QueueStopped(v) \/ TCCloseVolume(v)
             \/ \E a \in Aborters : AbortFind(a) \/ AbortSet(a)
             \/ BeginShutdown \/ UNCHANGED vars
      PROVE  Numbered'
  BY <1>f, NumberedFrame DEF vars, Dispatch, DispatchControl, InsertTail, FlushNothing, AddIrpCount, AddIrpLock,
     QueueCompletes, ReleaseSemaphore, ReadHeader, HeaderRead, StartQueue, AwaitRequest, TakeRequest, ListEmpty,
     ProcessRequest, ReleaseLock, CheckQuit, StopQueue, QueueStopped, TCCloseVolume, AbortFind, AbortSet, BeginShutdown
<1>1. CASE RegisterMountCancelContext
  BY <1>1, NumberedFrame DEF RegisterMountCancelContext
<1>2. CASE SetMountCancelContextUserSid
  BY <1>2, NumberedFrame DEF SetMountCancelContextUserSid
<1>3. CASE UnregisterMountCancelContext
  BY <1>3, NumberedFrame DEF UnregisterMountCancelContext
<1>4. CASE TCCreateDeviceObject
  <2>. PICK u \in Users, v \in Volumes, h \in {None} \cup devices :
          /\ phase[v] = "none"
          /\ devices' = devices \cup {v} /\ phase' = [phase EXCEPT ![v] = "initializing"]
          /\ info' = [info EXCEPT ![v] = [owner |-> u, host |-> h]]
    BY <1>4 DEF TCCreateDeviceObject
  <2>1. ctl.pc = "free" /\ UNCHANGED <<uid, lastId>>
    BY <1>4 DEF TCCreateDeviceObject, Accepts, Idle, Holder
  <2>2. \A x \in devices : phase[x] = "mounted"
    BY <2>1 DEF Shape, DeviceShape, Handled
  <2>3. info'[v].host = h /\ \A x \in devices : x # v /\ info'[x] = info[x]
    BY <2>2
  <2>4. phase'[v] = "initializing" /\ \A x \in Volumes : x # v => phase'[x] = phase[x]
    OBVIOUS
  <2>5. \A n \in devices : info[n].host # v
    BY DEF Numbered
  <2>6. h \in devices => h # v
    BY <2>2
  <2>7. h = None \/ h \in devices
    OBVIOUS
  <2>8. /\ \A n \in devices' : Opened(n)' => n # v /\ n \in devices /\ Opened(n)
        /\ \A n \in Volumes : Opened(n) => Opened(n)'
    BY <2>4 DEF Opened
  <2>9. \A n \in devices' : info'[n].host \in devices' => info'[n].host \in devices
    BY <2>3, <2>5, <2>6, <2>7
  <2>10. \A n \in devices' : info'[n].host \in devices' =>
           /\ info'[n].host # n /\ Opened(info'[n].host)
           /\ Opened(n)' => uid[info'[n].host] < uid[n]
    <3>1. CASE h \in devices
      BY <3>1, <2>2, <2>3, <2>6, <2>8, <2>9 DEF Numbered, Opened
    <3>. QED  BY <3>1, <2>3, <2>7, <2>8, <2>9 DEF Numbered
  <2>11. \A n \in devices' : info'[n].host \in Volumes => phase'[info'[n].host] # "none"
    <3>1. ASSUME NEW n \in devices, info[n].host \in Volumes PROVE phase'[info[n].host] # "none"
      BY <3>1, <2>4 DEF Numbered
    <3>2. h \in Volumes => phase'[h] # "none"
      BY <2>4, <2>6, <2>7, <2>2
    <3>. QED  BY <2>3, <3>1, <3>2
  <2>12. \A n \in devices' : info'[n].host \in devices' => phase'[info'[n].host] \notin {"none", "initializing"}
    BY <2>8, <2>9, <2>10 DEF Opened
  <2>. QED  BY <2>1, <2>8, <2>10, <2>11, <2>12 DEF Numbered, Opened
<1>5. CASE TCStartVolumeThread
  BY <1>5, NumberedFrame DEF TCStartVolumeThread, MountStep, At
<1>6. CASE ThreadStarted
  BY <1>6, NumberedFrame DEF ThreadStarted, MountStep, At
<1>7. CASE Publish
  <2>1. ctl.vol \in Volumes /\ phase[ctl.vol] = "initializing"
    BY <1>7, <1>b DEF Publish, At, HandledShape
  <2>2. /\ phase' = [phase EXCEPT ![ctl.vol] = "mounted"] /\ uid' = [uid EXCEPT ![ctl.vol] = lastId]
        /\ lastId' = lastId + 1 /\ UNCHANGED <<devices, info>>
    BY <1>7 DEF Publish, MountStep
  <2>3. \A v \in Volumes : v # ctl.vol => (Opened(v) <=> Opened(v)') /\ uid'[v] = uid[v] /\ phase'[v] = phase[v]
    BY <2>1, <2>2 DEF Opened
  <2>4. uid'[ctl.vol] = lastId /\ phase'[ctl.vol] = "mounted"
    BY <2>1, <2>2
  <2>5. phase[ctl.vol] \in {"none", "initializing"}
    BY <2>1
  <2>6. \A n \in devices : n = ctl.vol \/ (Opened(n) /\ phase'[n] # "none" /\ uid[n] < lastId /\ uid'[n] = uid[n])
    BY <1>7, <1>b, <2>3 DEF Publish, At, Numbered, Opened
  <2>7. \A n \in devices : uid'[n] < lastId'
    BY <2>2, <2>4, <2>6
  <2>8. \A n, m \in devices : n # m => uid'[n] # uid'[m]
    BY <2>4, <2>6 DEF Numbered
  <2>9. \A n \in devices : info[n].host \in Volumes => phase'[info[n].host] # "none"
    BY <2>3, <2>4 DEF Numbered
  <2>10. ASSUME NEW n \in devices, info[n].host \in devices
         PROVE  info[n].host # n /\ phase'[info[n].host] \notin {"none", "initializing"} /\ uid'[info[n].host] < uid'[n]
    <3>1. info[n].host # n /\ Opened(info[n].host) /\ info[n].host # ctl.vol
      BY <2>10, <2>5 DEF Numbered, Opened
    <3>2. phase'[info[n].host] = phase[info[n].host] /\ uid'[info[n].host] = uid[info[n].host] /\ uid[info[n].host] < lastId
      BY <2>10, <3>1, <2>3, <2>6
    <3>3. CASE n = ctl.vol
      BY <3>1, <3>2, <3>3, <2>4 DEF Opened
    <3>4. CASE n # ctl.vol
      BY <3>1, <3>2, <3>4, <2>6, <2>10 DEF Numbered, Opened
    <3>. QED  BY <3>3, <3>4
  <2>. QED  BY <2>2, <2>7, <2>8, <2>9, <2>10 DEF Numbered, Opened
<1>8. CASE LetterTaken
  <2>1. Opened(ctl.vol) /\ ctl.vol \in Volumes
    BY <1>8, <1>b DEF LetterTaken, At, HandledShape, Opened
  <2>2. phase' = [phase EXCEPT ![ctl.vol] = "withdrawn"] /\ UNCHANGED <<devices, uid, lastId, info>>
    BY <1>8 DEF LetterTaken, MountStep, At
  <2>3. phase[ctl.vol] \notin {"none", "initializing"} /\ phase'[ctl.vol] = "withdrawn"
    BY <2>1, <2>2 DEF Opened
  <2>4. \A v \in Volumes : v # ctl.vol => phase'[v] = phase[v]
    BY <2>2
  <2>5. \A v \in Volumes : /\ phase[v] \notin {"none", "initializing"} <=> phase'[v] \notin {"none", "initializing"}
                           /\ phase[v] = "none" <=> phase'[v] = "none"
    BY <2>3, <2>4
  <2>. QED  BY <2>2, <2>5 DEF Numbered, Opened
<1>9. CASE MountManagerMount
  BY <1>9, LetterStep, NumberedFrame
<1>10. CASE MountManagerMounted
  BY <1>10, NumberedFrame DEF MountManagerMounted, MountStep, Idle, Holder
<1>11. CASE FilesOpen
  BY <1>11, FilesOpenStep, NumberedFrame
<1>12. CASE LockAndDismount
  BY <1>12, LockStep, NumberedFrame
<1>13. CASE Dismounted
  BY <1>13, NumberedFrame DEF Dismounted, UnmountStep
<1>14. CASE SetShuttingDown
  <2>1. Opened(ctl.vol) /\ ctl.vol \in Volumes
    BY <1>14, <1>b DEF SetShuttingDown, At, HandledShape, Opened
  <2>2. phase' = [phase EXCEPT ![ctl.vol] = "shutting"] /\ UNCHANGED <<devices, uid, lastId, info>>
    BY <1>14 DEF SetShuttingDown, UnmountStep, At
  <2>3. phase[ctl.vol] \notin {"none", "initializing"} /\ phase'[ctl.vol] = "shutting"
    BY <2>1, <2>2 DEF Opened
  <2>4. \A v \in Volumes : v # ctl.vol => phase'[v] = phase[v]
    BY <2>2
  <2>5. \A v \in Volumes : /\ phase[v] \notin {"none", "initializing"} <=> phase'[v] \notin {"none", "initializing"}
                           /\ phase[v] = "none" <=> phase'[v] = "none"
    BY <2>3, <2>4
  <2>. QED  BY <2>2, <2>5 DEF Numbered, Opened
<1>15. CASE ReleaseRemoveLock
  <2>1. Opened(ctl.vol) /\ ctl.vol \in Volumes
    BY <1>15, <1>b DEF ReleaseRemoveLock, At, HandledShape, Opened
  <2>2. phase' = [phase EXCEPT ![ctl.vol] = "removing"] /\ UNCHANGED <<devices, uid, lastId, info>>
    BY <1>15 DEF ReleaseRemoveLock, UnmountStep, At
  <2>3. phase[ctl.vol] \notin {"none", "initializing"} /\ phase'[ctl.vol] = "removing"
    BY <2>1, <2>2 DEF Opened
  <2>4. \A v \in Volumes : v # ctl.vol => phase'[v] = phase[v]
    BY <2>2
  <2>5. \A v \in Volumes : /\ phase[v] \notin {"none", "initializing"} <=> phase'[v] \notin {"none", "initializing"}
                           /\ phase[v] = "none" <=> phase'[v] = "none"
    BY <2>3, <2>4
  <2>. QED  BY <2>2, <2>5 DEF Numbered, Opened
<1>16. CASE RemoveLockWait
  BY <1>16, NumberedFrame DEF RemoveLockWait, UnmountStep
<1>17. CASE SetThreadShouldQuit
  BY <1>17, NumberedFrame DEF SetThreadShouldQuit, UnmountStep, At
<1>18. CASE WakeThread
  BY <1>18, NumberedFrame DEF WakeThread, UnmountStep, At
<1>19. CASE ThreadExited
  BY <1>19, NumberedFrame DEF ThreadExited, UnmountStep, At
<1>20. CASE EraseSlot
  <2>1. /\ ctl.pc = "erase" /\ UNCHANGED <<lastId, phase>> /\ devices' = devices \ {ctl.vol}
        /\ info' = [info EXCEPT ![ctl.vol] = Blank] /\ uid' = [uid EXCEPT ![ctl.vol] = 0]
    BY <1>20, EraseStep
  <2>2. \A n \in devices' : n \in devices /\ info'[n] = info[n] /\ uid'[n] = uid[n]
    BY <2>1
  <2>. QED  BY <2>1, <2>2 DEF Numbered, Opened
<1>21. CASE UnmountVolume
  BY <1>21, NumberedFrame DEF UnmountVolume, Accepts, UnmountStep, Idle, Holder
<1>22. CASE UnmountAllVolumes
  BY <1>22, NumberedFrame DEF UnmountAllVolumes, Accepts, UnmountStep, All, Idle, Holder
<1>23. CASE UnmountAllDevices
  BY <1>23, NextVolume, NumberedFrame
<1>24. CASE OnShutdownPending
  BY <1>24, NumberedFrame DEF OnShutdownPending, UnmountStep, All, Idle, Holder
<1>. QED  BY <1>1, <1>2, <1>3, <1>4, <1>5, <1>6, <1>7, <1>8, <1>9, <1>10, <1>11, <1>12, <1>13, <1>14, <1>15, <1>16, <1>17,
     <1>18, <1>19, <1>20, <1>21, <1>22, <1>23, <1>24, <1>f DEF Next, TCDispatchQueueIRP, VolumeThreadProc, AbortPendingMount,
     ControlStep, MountDevice, UnmountDevice

----------------------------------------------------------------------------
(* The order of an unmount of all volumes *)

Ordered == Descending /\ Nested

LEMMA OrderedFrame == Ordered /\ UNCHANGED <<ctl, devices, uid, info>> => Ordered'
BY DEF Ordered, Descending, Nested, UnmountsAll, HostsVolume

(* Other requests have no order *)
LEMMA OrderedOther == ctl'.op \notin {"all", "shutdown"} => Ordered'
BY DEF Ordered, Descending, Nested, UnmountsAll

(* From the moment its file system is dismounted until it is gone, a volume stays the one that is handled *)
LEMMA OrderedKept ==
    ASSUME Ordered, Same, UNCHANGED <<devices, uid, info>>, ctl.pc \in Unmounting \ {"lock"}, ctl'.pc \in Unmounting \ {"lock"}
    PROVE  Ordered'
<1>1. (UnmountsAll <=> UnmountsAll') /\ "next" \notin Unmounting
  BY DEF UnmountsAll, Same, Unmounting, Deleting
<1>2. Descending'
  BY <1>1 DEF Ordered, Descending, Same
<1>3. Nested'
  BY <1>1 DEF Ordered, Nested, Same, HostsVolume
<1>. QED  BY <1>2, <1>3 DEF Ordered

LEMMA OrderedStep == ASSUME IInv, [Next]_vars PROVE Ordered'
<1>. USE DeviceAssumption DEF registry, volume, worker, requests, abort, control
<1>0. TypeOK /\ Shape /\ Numbered /\ Ordered
  BY DEF IInv, Ordered
<1>a. /\ uid \in [Volumes -> Nat] /\ lastId \in Nat /\ devices \subseteq Volumes /\ ctl \in Holders
      /\ info \in [Volumes -> [owner : Users \cup {None}, host : Names]]
  BY <1>0 DEF TypeOK
<1>. USE <1>0, <1>a
<1>b. /\ ctl.pc \notin {"free", "next"} => ctl.vol \in devices
      /\ ctl.pc \in {"register", "publish", "letter", "notify"} \cup Mounting => ctl.op = "mount"
      /\ \A v \in devices : (ctl.pc \notin {"free", "next"} => v # ctl.vol) => Opened(v)
      /\ ctl.pc \in {"lock", "flushed", "shut", "remove", "removing"} => Opened(ctl.vol)
  BY DEF Shape, DeviceShape, Handled, HandledShape, Opened
(* All volumes are unmounted when the next has the highest number *)
<1>c. ASSUME ctl.pc = "free", ctl'.pc = "next", ctl'.max = lastId, UNCHANGED <<devices, uid, info>> PROVE Ordered'
  <2>1. \A v \in devices : uid[v] <= lastId
    BY <1>b, <1>c DEF Numbered
  <2>2. ctl'.pc \notin Unmounting
    BY <1>c DEF Unmounting, Deleting
  <2>. QED  BY <1>c, <2>1, <2>2 DEF Ordered, Descending, Nested
<1>f. ASSUME \/ \E r \in Irps : Dispatch(r) \/ DispatchControl(r) \/ InsertTail(r) \/ FlushNothing(r) \/ AddIrpCount(r)
                   \/ AddIrpLock(r) \/ QueueCompletes(r)
             \/ \E v \in Volumes : ReleaseSemaphore(v) \/ ReadHeader(v) \/ HeaderRead(v) \/ StartQueue(v) \/
                   AwaitRequest(v) \/ TakeRequest(v) \/ ListEmpty(v) \/ ProcessRequest(v) \/ ReleaseLock(v) \/ CheckQuit(v)
                   \/ StopQueue(v) \/ QueueStopped(v) \/ TCCloseVolume(v)
             \/ \E a \in Aborters : AbortFind(a) \/ AbortSet(a)
             \/ BeginShutdown \/ UNCHANGED vars
      PROVE  Ordered'
  BY <1>f, OrderedFrame DEF vars, Dispatch, DispatchControl, InsertTail, FlushNothing, AddIrpCount, AddIrpLock,
     QueueCompletes, ReleaseSemaphore, ReadHeader, HeaderRead, StartQueue, AwaitRequest, TakeRequest, ListEmpty,
     ProcessRequest, ReleaseLock, CheckQuit, StopQueue, QueueStopped, TCCloseVolume, AbortFind, AbortSet, BeginShutdown
<1>1. CASE RegisterMountCancelContext
  BY <1>1, <1>b, OrderedOther DEF RegisterMountCancelContext, Holders, Mounting
<1>2. CASE SetMountCancelContextUserSid
  BY <1>2, <1>b, OrderedOther DEF SetMountCancelContextUserSid, Holders, Mounting
<1>3. CASE UnregisterMountCancelContext
  BY <1>3, <1>b, OrderedOther DEF UnregisterMountCancelContext, Holders, Mounting
<1>4. CASE TCCreateDeviceObject
  BY <1>4, <1>b, OrderedOther DEF TCCreateDeviceObject, Accepts, Idle, Holder, Holders, Mounting
<1>5. CASE TCStartVolumeThread
  BY <1>5, <1>b, OrderedOther DEF TCStartVolumeThread, At, Holders, Mounting
<1>6. CASE ThreadStarted
  BY <1>6, <1>b, OrderedOther DEF ThreadStarted, At, Holders, Mounting
<1>7. CASE Publish
  BY <1>7, <1>b, OrderedOther DEF Publish, At, Holders, Mounting
<1>8. CASE LetterTaken
  BY <1>8, <1>b, OrderedOther DEF LetterTaken, At, Holders, Mounting
<1>9. CASE MountManagerMount
  <2>1. ctl'.op \notin {"all", "shutdown"}
    BY <1>9, <1>b, LetterStep DEF Same
  <2>. QED  BY <2>1, OrderedOther
<1>10. CASE MountManagerMounted
  BY <1>10, <1>b, OrderedOther DEF MountManagerMounted, Idle, Holder, Holders, Mounting
<1>11. CASE FilesOpen
  <2>1. ~ctl.force /\ "next" \notin Unmounting
    BY <1>11 DEF FilesOpen, Unmounting, Deleting
  <2>2. CASE ctl'.op = "none"
    BY <2>2, OrderedOther
  <2>3. CASE ctl'.pc = "next" /\ Same
    BY <2>1, <2>3 DEF Ordered, Descending, Nested, Same
  <2>. QED  BY <1>11, <2>2, <2>3, FilesOpenStep
<1>12. CASE LockAndDismount
  <2>1. /\ ctl.pc = "lock" /\ (ctl.force \/ ~HostsVolume(ctl.vol)) /\ UNCHANGED <<devices, uid, info>>
        /\ ctl'.pc \in Unmounting \ {"lock"} /\ Same /\ ctl.vol \in devices /\ "lock" \in Unmounting /\ "next" \notin Unmounting
    BY <1>12, <1>b, LockStep DEF Unmounting, Deleting
  <2>2. UnmountsAll' => UnmountsAll
    BY <2>1 DEF UnmountsAll, Same
  <2>3. Descending'
    BY <2>1, <2>2 DEF Ordered, Descending, Same
  <2>4. ASSUME UnmountsAll, ctl.force, NEW n \in devices, info[n].host = ctl.vol PROVE FALSE
    <3>1. n # ctl.vol /\ Opened(n) /\ uid[ctl.vol] < uid[n]
      BY <2>1, <2>4, <1>b DEF Numbered
    <3>2. uid[n] < uid[ctl.vol]
      BY <2>1, <2>4, <3>1 DEF Ordered, Descending
    <3>3. uid[n] \in Nat /\ uid[ctl.vol] \in Nat
      BY <2>1
    <3>. QED  BY <3>1, <3>2, <3>3
  <2>5. UnmountsAll => ~HostsVolume(ctl.vol)
    BY <2>1, <2>4 DEF HostsVolume
  <2>6. Nested'
    BY <2>1, <2>2, <2>5 DEF Nested, Same, HostsVolume
  <2>. QED  BY <2>3, <2>6 DEF Ordered
<1>13. CASE Dismounted
  BY <1>13, OrderedKept DEF Dismounted, UnmountStep, Same, Holders, Unmounting, Deleting
<1>14. CASE SetShuttingDown
  BY <1>14, OrderedKept DEF SetShuttingDown, UnmountStep, At, Same, Holders, Unmounting, Deleting
<1>15. CASE ReleaseRemoveLock
  BY <1>15, OrderedKept DEF ReleaseRemoveLock, UnmountStep, At, Same, Holders, Unmounting, Deleting
<1>16. CASE RemoveLockWait
  BY <1>16, OrderedKept DEF RemoveLockWait, UnmountStep, Same, Holders, Unmounting, Deleting
<1>17. CASE SetThreadShouldQuit
  BY <1>17, OrderedKept DEF SetThreadShouldQuit, UnmountStep, At, Same, Holders, Unmounting, Deleting
<1>18. CASE WakeThread
  BY <1>18, OrderedKept DEF WakeThread, UnmountStep, At, Same, Holders, Unmounting, Deleting
<1>19. CASE ThreadExited
  BY <1>19, OrderedKept DEF ThreadExited, UnmountStep, At, Same, Holders, Unmounting, Deleting
<1>20. CASE EraseSlot
  <2>1. /\ ctl.pc = "erase" /\ devices' = devices \ {ctl.vol} /\ uid' = [uid EXCEPT ![ctl.vol] = 0]
        /\ ctl.vol \in Volumes /\ ctl.pc \in Unmounting /\ "next" \notin Unmounting
    BY <1>20, <1>b, EraseStep DEF Unmounting, Deleting
  <2>2. CASE ctl'.op = "none"
    BY <2>2, OrderedOther
  <2>3. CASE ctl'.pc = "next" /\ Same
    <3>1. UnmountsAll' => UnmountsAll
      BY <2>3 DEF UnmountsAll, Same
    <3>2. ASSUME UnmountsAll, ctl.force, NEW n \in devices' PROVE uid'[n] <= ctl'.max
      <4>1. n \in devices \ {ctl.vol} /\ uid'[n] = uid[n]
        BY <2>1, <3>2
      <4>2. ctl'.max = uid[ctl.vol] - 1 /\ uid[n] < uid[ctl.vol]
        BY <2>1, <2>3, <3>2, <4>1 DEF Ordered, Descending, Same
      <4>3. uid[n] \in Nat /\ uid[ctl.vol] \in Nat
        BY <2>1, <4>1
      <4>. QED  BY <4>1, <4>2, <4>3
    <3>. QED  BY <2>1, <2>3, <3>1, <3>2 DEF Ordered, Descending, Nested, Same
  <2>. QED  BY <1>20, <2>2, <2>3, EraseStep
<1>21. CASE UnmountVolume
  BY <1>21, <1>b, OrderedOther DEF UnmountVolume, Accepts, Idle, Holder, Holders, Mounting
<1>22. CASE UnmountAllVolumes
  BY <1>22, <1>c DEF UnmountAllVolumes, Accepts, UnmountStep, All, Idle, Holder
<1>23. CASE UnmountAllDevices
  <2>1. ctl.pc = "next" /\ UNCHANGED <<devices, uid, info>> /\ "next" \notin Unmounting
    BY <1>23, NextVolume DEF Unmounting, Deleting
  <2>2. CASE ctl'.op = "none"
    BY <2>2, OrderedOther
  <2>3. CASE ctl'.pc = "next" /\ Same
    BY <2>1, <2>3 DEF Ordered, Descending, Nested, Same, UnmountsAll
  <2>4. CASE ctl'.pc = "next" /\ ctl'.user # System
    BY <2>1, <2>4 DEF Ordered, Descending, Nested, UnmountsAll
  <2>5. ASSUME ctl'.pc = "lock", ctl'.vol \in devices, ctl'.max = uid[ctl'.vol] - 1, ctl'.op = ctl.op, ctl'.user = ctl.user,
               ctl'.force = ctl.force, FindVolumeWithHighestUniqueId(ctl'.vol)
        PROVE  Ordered'
    <3>1. ASSUME UnmountsAll, ctl.force, NEW n \in devices, n # ctl'.vol PROVE uid[n] < uid[ctl'.vol]
      <4>1. n \in Candidates
        BY <2>1, <3>1 DEF Ordered, Descending, Candidates
      <4>2. uid[n] <= uid[ctl'.vol]
        BY <4>1, <2>5 DEF FindVolumeWithHighestUniqueId
      <4>3. uid[n] # uid[ctl'.vol]
        BY <2>1, <2>5, <3>1, <1>b DEF Numbered
      <4>4. uid[n] \in Nat /\ uid[ctl'.vol] \in Nat
        BY <2>5, <3>1
      <4>. QED  BY <4>2, <4>3, <4>4
    <3>2. UnmountsAll' => UnmountsAll
      BY <2>5 DEF UnmountsAll
    <3>. QED  BY <2>1, <2>5, <3>1, <3>2 DEF Ordered, Descending, Nested
  <2>. QED  BY <1>23, <2>2, <2>3, <2>4, <2>5, NextVolume
<1>24. CASE OnShutdownPending
  BY <1>24, <1>c DEF OnShutdownPending, Accepts, UnmountStep, All, Idle, Holder
<1>. QED  BY <1>1, <1>2, <1>3, <1>4, <1>5, <1>6, <1>7, <1>8, <1>9, <1>10, <1>11, <1>12, <1>13, <1>14, <1>15, <1>16, <1>17,
     <1>18, <1>19, <1>20, <1>21, <1>22, <1>23, <1>24, <1>f DEF Next, TCDispatchQueueIRP, VolumeThreadProc, AbortPendingMount,
     ControlStep, MountDevice, UnmountDevice

----------------------------------------------------------------------------
(* The invariant, and what follows from it *)

LEMMA IInvInit == Init => IInv
<1>. SUFFICES ASSUME Init PROVE IInv
  OBVIOUS
<1>. USE DeviceAssumption
<1>1. Idle.pc = "free" /\ Idle.op = "none" /\ Idle.vol = None
  BY DEF Idle, Holder
<1>2. Blank \in [owner : Users \cup {None}, host : Names] /\ NoAbort \in [pc : {"idle", "found", "done"}, user : Users, seq : Nat]
  BY DEF Blank, NoAbort, Names
<1>3. NoMount \in [active : BOOLEAN, sid : Users \cup {None}, seq : Nat, abortedBy : Users \cup {None}]
  BY DEF NoMount
<1>4. TypeOK
  BY <1>2, <1>3, IdleType DEF Init, TypeOK, Names
<1>5. Shape
  BY <1>1 DEF Init, Shape, DeviceShape, ThreadShape, HandledShape, Handled, Opened, Opening, Running, Ending, Deleting, Mounting
<1>6. RequestShape
  BY DEF Init, RequestShape, InProgress
<1>7. Quiet
  <2>1. \A v \in Volumes : Silent(v)
    BY DEF Init, Silent
  <2>. QED  BY <2>1, QuietSilent
<1>8. AbortShape
  BY <1>1 DEF Init, AbortShape, AbortsAreAuthorised, NoMount, NoAbort, Mounting
<1>9. Numbered
  BY DEF Init, Numbered
<1>10. Descending /\ Nested
  BY <1>1 DEF Init, Descending, Nested, UnmountsAll
<1>. QED  BY <1>4, <1>5, <1>6, <1>7, <1>8, <1>9, <1>10 DEF IInv

LEMMA IInvNext == IInv /\ [Next]_vars => IInv'
BY TypeStep, ShapeStep, RequestStep, QuietStep, AbortStep, NumberedStep, OrderedStep DEF IInv, Ordered

LEMMA Invariance == Spec => []IInv
BY IInvInit, IInvNext, PTL DEF Spec

(* Every variable keeps its type: what the driver does with the devices, the *)
(* threads, the requests and the mutex never leaves the states it provides   *)
(* for, whatever the number of devices, requests and callers                 *)
THEOREM TypeCorrect == Spec => []TypeOK
<1>1. IInv => TypeOK
  BY DEF IInv
<1>. QED  BY <1>1, Invariance, PTL

(* EncryptedIoQueueStop and the remove lock: a volume is closed only when no *)
(* transfer is in progress and no device control request is processed or     *)
(* waits; an unmount reads cryptoInfo while it is there.  The volume is open *)
(* while its thread runs, and its thread runs until the unmount has told it  *)
(* to quit, after that reading.                                              *)
THEOREM ClosedIsQuiet == Spec => []ClosedMeansQuiet
<1>1. IInv => ClosedMeansQuiet
  <2>. SUFFICES ASSUME IInv PROVE ClosedMeansQuiet
    OBVIOUS
  <2>0. Shape /\ RequestShape /\ Quiet /\ \A v \in Volumes : Silent(v)
    BY QuietSilent DEF IInv
  <2>1. ASSUME NEW v \in Volumes, thread[v] \in {"close", "exited"} PROVE InQueue(v) = {}
    BY <2>0, <2>1 DEF Quiet
  <2>2. ASSUME NEW v \in Volumes, thread[v] \in {"close", "exited"}, phase[v] # "withdrawn" PROVE LockHolders(v) = {}
    <3>0. ctl.pc \in ControlPcs
      BY DEF IInv, TypeOK, Holders
    <3>1. phase[v] \in {"none", "initializing", "removing"}
      BY <2>0, <2>2, <3>0 DEF Shape, DeviceShape, HandledShape, Handled, Running, Deleting, ControlPcs
    <3>2. CASE phase[v] = "removing"
      BY <2>0, <2>2, <3>2 DEF Quiet, Shape, DeviceShape, HandledShape, Handled, Running
    <3>3. CASE phase[v] \in {"none", "initializing"}
      <4>1. \A r \in Irps : target[r] # v
        BY <2>0, <3>3, DeviceAssumption DEF RequestShape, InProgress, Opened
      <4>. QED  BY <2>2, <4>1 DEF LockHolders
    <3>. QED  BY <3>1, <3>2, <3>3
  <2>3. ctl.pc = "removing" => open[ctl.vol]
    BY <2>0 DEF Shape, DeviceShape, ThreadShape, HandledShape, Handled, Running
  <2>. QED  BY <2>1, <2>2, <2>3 DEF ClosedMeansQuiet
<1>. QED  BY <1>1, Invariance, PTL

(* AbortPendingMount: whoever it was that made a mount end as aborted had been *)
(* allowed to abort this mount, and not one that had the context before it     *)
THEOREM AbortsAuthorised == Spec => []AbortsAreAuthorised
<1>1. IInv => AbortsAreAuthorised
  BY DEF IInv, AbortShape
<1>. QED  BY <1>1, Invariance, PTL

(* UnmountAllDevices: with FindVolumeWithHighestUniqueId and a descending bound, *)
(* an unmount of all volumes that ignores open files never reaches a volume      *)
(* before those whose host files lie on it; one that respects them cannot lock   *)
(* such a volume                                                                 *)
THEOREM NestedFirst == Spec => []NestedUnmountedFirst
<1>1. IInv => NestedUnmountedFirst
  BY DEF IInv, Nested, NestedUnmountedFirst, UnmountsAll, Unmounting, Deleting
<1>. QED  BY <1>1, Invariance, PTL
=============================================================================
