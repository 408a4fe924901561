---------------------------- MODULE VolumeDevice ----------------------------
(***************************************************************************)
(* Virtual volumes of the Windows driver (Driver/Ntdriver.c, Ntvol.c): how *)
(* they are mounted, take requests and are unmounted.  Control requests to *)
(* the root device hold RootDeviceControlMutex; a request to abort a mount *)
(* bypasses it.  Every volume has a thread that opens it, answers device   *)
(* control requests and closes it, and a queue for transfers, of which     *)
(* only admission, completion and stop are seen here (EncryptedIoQueue has *)
(* the rest).  Requests reach a volume through handles, which outlive it.  *)
(*                                                                         *)
(* Requests that change nothing (refused at the first test) are left out.  *)
(***************************************************************************)
EXTENDS Integers, FiniteSets

CONSTANTS
    Volumes,    \* device objects, one for each mount, numbered in the order of their creation
    Users,      \* who sends control requests,
    System,     \* the one of them that may access every volume
    Irps,       \* requests to volumes:
    Controls,   \* those for the thread,
    Flushes,    \* and flushes; the others are transfers
    Aborters,   \* threads in AbortPendingMount, one for each call
    MaxCalls,   \* a bound on requests sent and calls begun, for TLC
    None

ASSUME DeviceAssumption ==
    /\ System \in Users /\ Volumes \subseteq Nat
    /\ Controls \subseteq Irps /\ Flushes \subseteq Irps \ Controls
    /\ None \notin Volumes \cup Users \cup Irps

VARIABLES
    devices,      \* those in VirtualVolumeDeviceObjects, one for each drive letter in use
    lastId,       \* LastUniqueVolumeId
    info,         \* UserSid and host volume of each device
    phase,        \* DO_DEVICE_INITIALIZING, bShuttingDown and the remove lock of each device
    uid,          \* UniqueVolumeId
    open,         \* whether hDeviceFile and cryptoInfo are set
    stopPending,  \* Queue.StopPending
    quit,         \* bThreadShouldQuit
    sema,         \* RequestSemaphore
    thread,       \* where VolumeThreadProc of each volume is,
    current,      \* the request it processes
    result,       \* and what became of opening the volume
    irp,          \* where each request is,
    target,       \* the device it was sent to,
    senders,      \* and how many have listed one and have yet to release RequestSemaphore of each device
    ctl,          \* the holder of RootDeviceControlMutex
    cancel,       \* ActiveMountCancelContext; abortedBy is UserAbortRequested, with who set it
    aborter,      \* the threads in AbortPendingMount
    shutdown      \* the handler of IRP_MJ_SHUTDOWN

registry == <<devices, lastId, info, phase, uid>>
volume == <<open, stopPending, quit, sema>>
worker == <<thread, current, result>>
requests == <<irp, target, senders>>
abort == <<cancel, aborter>>
control == <<ctl, shutdown>>
vars == <<registry, volume, worker, requests, abort, control>>

(* What the holder of the mutex is doing *)
Holder(pc, op, user, force, vol, max) ==
    [pc |-> pc, op |-> op, user |-> user, force |-> force, vol |-> vol, max |-> max, irp |-> None, triggered |-> FALSE]
Idle == Holder("free", "none", System, FALSE, None, 0)

Blank == [owner |-> None, host |-> None]
NoMount == [active |-> FALSE, sid |-> None, seq |-> 0, abortedBy |-> None]
NoAbort == [pc |-> "idle", user |-> System, seq |-> 0]

Init ==
    /\ devices = {} /\ lastId = 0
    /\ info = [v \in Volumes |-> Blank]
    /\ phase = [v \in Volumes |-> "none"] /\ uid = [v \in Volumes |-> 0]
    /\ open = [v \in Volumes |-> FALSE] /\ stopPending = [v \in Volumes |-> FALSE]
    /\ quit = [v \in Volumes |-> FALSE] /\ sema = [v \in Volumes |-> 0]
    /\ thread = [v \in Volumes |-> "none"] /\ current = [v \in Volumes |-> None]
    /\ result = [v \in Volumes |-> "none"]
    /\ irp = [r \in Irps |-> "new"]
    /\ target = [r \in Irps |-> None] /\ senders = [v \in Volumes |-> 0]
    /\ ctl = Idle /\ shutdown = "up"
    /\ cancel = NoMount /\ aborter = [a \in Aborters |-> NoAbort]

----------------------------------------------------------------------------
(* TCDispatchQueueIRP on a volume device.  It can be opened from the moment *)
(* it is initialised; a handle keeps the device object, even deleted.       *)

Opened(v) == phase[v] \notin {"none", "initializing"}

CallsLeft == Cardinality({r \in Irps : irp[r] # "new"}) + Cardinality({a \in Aborters : aborter[a].pc # "idle"}) < MaxCalls

Move(r, to) == irp' = [irp EXCEPT ![r] = to] /\ UNCHANGED target
Answer(r) == irp' = [irp EXCEPT ![r] = "answered"] /\ target' = [target EXCEPT ![r] = None]

(* A request is sent and finds bShuttingDown set or not *)
Send(r, v) ==
    /\ CallsLeft /\ irp[r] = "new"
    /\ IF phase[v] \in {"shutting", "removing"} THEN Answer(r)
       ELSE irp' = [irp EXCEPT ![r] = "passed"] /\ target' = [target EXCEPT ![r] = v]
    /\ UNCHANGED senders

Dispatch(r) ==
    /\ \E v \in Volumes : Opened(v) /\ Send(r, v)
    /\ UNCHANGED <<registry, volume, worker, abort, control>>

(* IoAcquireRemoveLock fails once IoReleaseRemoveLockAndWait was called *)
DispatchControl(r) ==
    /\ irp[r] = "passed" /\ r \in Controls
    /\ IF phase[target[r]] = "removing" THEN Answer(r) ELSE Move(r, "locked")
    /\ UNCHANGED <<registry, volume, worker, senders, abort, control>>

InsertTail_SignalFirst(r) ==
    /\ \/ /\ irp[r] = "locked" /\ Move(r, "signalled")
          /\ sema' = [sema EXCEPT ![target[r]] = @ + 1]
       \/ irp[r] = "signalled" /\ Move(r, "listed") /\ UNCHANGED sema
    /\ UNCHANGED <<registry, open, stopPending, quit, worker, senders, abort, control>>

(* The thread takes the requests in any order here; their order matters to no property *)
InsertTail(r) ==
    /\ irp[r] = "locked"
    /\ Move(r, "listed") /\ senders' = [senders EXCEPT ![target[r]] = @ + 1]
    /\ UNCHANGED <<registry, volume, worker, abort, control>>

ReleaseSemaphore(v) ==
    /\ senders[v] > 0
    /\ senders' = [senders EXCEPT ![v] = @ - 1] /\ sema' = [sema EXCEPT ![v] = @ + 1]
    /\ UNCHANGED <<registry, open, stopPending, quit, worker, irp, target, abort, control>>

(* A flush of a volume that is read-only, closed or stopping *)
FlushNothing(r) ==
    /\ irp[r] = "passed" /\ r \in Flushes
    /\ Answer(r)
    /\ UNCHANGED <<registry, volume, worker, senders, abort, control>>

(* EncryptedIoQueueAddIrp: count and look at StopPending, then lock *)
AddIrpCount(r) ==
    /\ irp[r] = "passed" /\ r \notin Controls
    /\ IF stopPending[target[r]] THEN Answer(r) ELSE Move(r, "counted")
    /\ UNCHANGED <<registry, volume, worker, senders, abort, control>>

AddIrpLock(r) ==
    /\ irp[r] = "counted"
    /\ IF phase[target[r]] = "removing" THEN Answer(r) ELSE Move(r, "queued")
    /\ UNCHANGED <<registry, volume, worker, senders, abort, control>>

(* The queue has transferred it: uncounted and unlocked, then answered *)
QueueCompletes(r) ==
    /\ \/ irp[r] = "queued" /\ Move(r, "completing")
       \/ irp[r] = "completing" /\ Answer(r)
    /\ UNCHANGED <<registry, volume, worker, senders, abort, control>>

TCDispatchQueueIRP(r) ==
    \/ DispatchControl(r) \/ InsertTail(r)
    \/ FlushNothing(r) \/ AddIrpCount(r) \/ AddIrpLock(r)

----------------------------------------------------------------------------
(* VolumeThreadProc and TCOpenVolume.  Opening fails, or the user aborted   *)
(* the mount; a wrong password leads to the second header, that of a hidden *)
(* volume.  What the two abort flags do to a header that is being read is   *)
(* in ReadVolumeHeader.                                                     *)

Step(v, from, to) == thread[v] = from /\ thread' = [thread EXCEPT ![v] = to]
Fail(v, outcome) == thread' = [thread EXCEPT ![v] = "exited"] /\ result' = [result EXCEPT ![v] = outcome]

(* Before each header the thread looks whether the user has aborted the mount *)
MountCancelRequested == cancel.abortedBy # None

ReadHeader(v) ==
    /\ thread[v] \in {"normal", "hidden"}
    /\ IF MountCancelRequested THEN Fail(v, "aborted")
       ELSE \/ thread' = [thread EXCEPT ![v] = IF @ = "normal" THEN "readNormal" ELSE "readHidden"] /\ UNCHANGED result
            \/ Fail(v, "failed")
    /\ UNCHANGED <<registry, volume, current, requests, abort, control>>

HeaderRead(v) ==
    /\ thread[v] \in {"readNormal", "readHidden"}
    /\ \/ thread' = [thread EXCEPT ![v] = "startQueue"] /\ open' = [open EXCEPT ![v] = TRUE] /\ UNCHANGED result
       \/ Step(v, "readNormal", "hidden") /\ UNCHANGED <<open, result>>
       \/ Fail(v, "failed") /\ UNCHANGED open
       \/ MountCancelRequested /\ Fail(v, "aborted") /\ UNCHANGED open
    /\ UNCHANGED <<registry, stopPending, quit, sema, current, requests, abort, control>>

(* A start of the queue that fails closes the volume *)
StartQueue(v) ==
    /\ thread[v] = "startQueue"
    /\ \/ Step(v, "startQueue", "wait") /\ result' = [result EXCEPT ![v] = "success"] /\ UNCHANGED open
       \/ Fail(v, "failed") /\ open' = [open EXCEPT ![v] = FALSE]
    /\ UNCHANGED <<registry, stopPending, quit, sema, current, requests, abort, control>>

AwaitRequest(v) ==
    /\ sema[v] > 0 /\ Step(v, "wait", "drain")
    /\ sema' = [sema EXCEPT ![v] = @ - 1]
    /\ UNCHANGED <<registry, open, stopPending, quit, current, result, requests, abort, control>>

Listed(v) == {r \in Irps : irp[r] = "listed" /\ target[r] = v}

TakeRequest(v) ==
    /\ Step(v, "drain", "process")
    /\ \E r \in Listed(v) : Move(r, "processing") /\ current' = [current EXCEPT ![v] = r]
    /\ UNCHANGED <<registry, volume, result, senders, abort, control>>

ListEmpty(v) ==
    /\ Listed(v) = {} /\ Step(v, "drain", "check")
    /\ UNCHANGED <<registry, volume, current, result, requests, abort, control>>

(* ProcessVolumeDeviceControlIrp completes the request, then the lock is released *)
ProcessRequest(v) ==
    /\ Step(v, "process", "release") /\ Answer(current[v])
    /\ UNCHANGED <<registry, volume, current, result, senders, abort, control>>

ReleaseLock(v) ==
    /\ Step(v, "release", "drain") /\ current' = [current EXCEPT ![v] = None]
    /\ UNCHANGED <<registry, volume, result, requests, abort, control>>

CheckQuit(v) ==
    /\ thread[v] = "check"
    /\ thread' = [thread EXCEPT ![v] = IF quit[v] THEN "stop" ELSE "wait"]
    /\ UNCHANGED <<registry, volume, current, result, requests, abort, control>>

(* EncryptedIoQueueStop *)
StopQueue(v) ==
    /\ Step(v, "stop", "stopping") /\ stopPending' = [stopPending EXCEPT ![v] = TRUE]
    /\ UNCHANGED <<registry, open, quit, sema, current, result, requests, abort, control>>

InQueue(v) == {r \in Irps : target[r] = v /\ irp[r] \in {"counted", "queued", "completing"}}

QueueStopped(v) ==
    /\ InQueue(v) = {} /\ Step(v, "stopping", "close")
    /\ UNCHANGED <<registry, volume, current, result, requests, abort, control>>

TCCloseVolume(v) ==
    /\ Step(v, "close", "exited") /\ open' = [open EXCEPT ![v] = FALSE]
    /\ UNCHANGED <<registry, stopPending, quit, sema, current, result, requests, abort, control>>

VolumeThreadProc(v) ==
    \/ ReadHeader(v) \/ HeaderRead(v) \/ StartQueue(v)
    \/ AwaitRequest(v) \/ TakeRequest(v) \/ ListEmpty(v) \/ ProcessRequest(v) \/ ReleaseLock(v) \/ CheckQuit(v)
    \/ StopQueue(v) \/ QueueStopped(v) \/ TCCloseVolume(v)

----------------------------------------------------------------------------
(* The context of the mount that can be aborted, under MountCancelContextMutex *)

RegisterMountCancelContext ==
    /\ ctl.pc = "register" /\ ctl' = [ctl EXCEPT !.pc = "sid"]
    /\ cancel' = [active |-> TRUE, sid |-> None, seq |-> cancel.seq + 1, abortedBy |-> None]
    /\ UNCHANGED <<registry, volume, worker, requests, aborter, shutdown>>

(* The mount fails if the user cannot be determined, or not be copied to UserSid *)
SetMountCancelContextUserSid ==
    /\ ctl.pc = "sid"
    /\ \/ ctl' = [ctl EXCEPT !.pc = "unregister"] /\ UNCHANGED cancel
       \/ /\ \E next \in {"start", "unregister"} : ctl' = [ctl EXCEPT !.pc = next]
          /\ cancel' = [cancel EXCEPT !.sid = info[ctl.vol].owner]
    /\ UNCHANGED <<registry, volume, worker, requests, aborter, shutdown>>

UnregisterMountCancelContext ==
    /\ ctl.pc = "unregister"
    /\ ctl' = [ctl EXCEPT !.pc = IF result[ctl.vol] = "success" THEN "publish" ELSE "delete"]
    /\ cancel' = [cancel EXCEPT !.active = FALSE, !.sid = None]
    /\ UNCHANGED <<registry, volume, worker, requests, aborter, shutdown>>

(* AbortPendingMount: find the active mount and see whether the user may abort *)
(* it (CurrentUserCanAbortPendingMount; others are refused) ...                *)
AbortFind(a) ==
    /\ CallsLeft /\ aborter[a].pc = "idle" /\ cancel.active
    /\ \E u \in Users \cap {System, cancel.sid} :
          aborter' = [aborter EXCEPT ![a] = [pc |-> "found", user |-> u, seq |-> cancel.seq]]
    /\ UNCHANGED <<registry, volume, worker, requests, cancel, control>>

AbortSet_AnyMount(a) ==
    /\ aborter[a].pc = "found" /\ aborter' = [aborter EXCEPT ![a] = [NoAbort EXCEPT !.pc = "done"]]
    /\ IF cancel.active
       THEN cancel' = [cancel EXCEPT !.abortedBy = aborter[a].user]
       ELSE UNCHANGED cancel
    /\ UNCHANGED <<registry, volume, worker, requests, control>>

(* ... and abort it if it is still the same *)
AbortSet(a) ==
    /\ aborter[a].pc = "found" /\ aborter' = [aborter EXCEPT ![a] = [NoAbort EXCEPT !.pc = "done"]]
    /\ IF cancel.active /\ cancel.seq = aborter[a].seq
       THEN cancel' = [cancel EXCEPT !.abortedBy = aborter[a].user]
       ELSE UNCHANGED cancel
    /\ UNCHANGED <<registry, volume, worker, requests, control>>

AbortPendingMount(a) == AbortFind(a) \/ AbortSet(a)

----------------------------------------------------------------------------
(* MountDevice *)

(* The mutex is free, and there are programs that send requests *)
Accepts == ctl = Idle /\ shutdown # "down"
At(from, to) == ctl.pc = from /\ ctl' = [ctl EXCEPT !.pc = to]
MountStep == UNCHANGED <<volume, requests, abort, shutdown>>

(* The drive letter is free and the device object can be created.  The host *)
(* file may lie on another volume.                                          *)
TCCreateDeviceObject ==
    /\ Accepts
    /\ \E u \in Users, v \in Volumes, h \in {None} \cup {x \in devices : open[x]} :
          /\ phase[v] = "none" /\ \A x \in Volumes : x < v => phase[x] # "none"
          /\ devices' = devices \cup {v} /\ phase' = [phase EXCEPT ![v] = "initializing"]
          /\ info' = [info EXCEPT ![v] = [owner |-> u, host |-> h]]
          /\ ctl' = Holder("register", "mount", System, FALSE, v, 0)
    /\ UNCHANGED <<lastId, uid, worker>> /\ MountStep

TCStartVolumeThread ==
    /\ \/ At("start", "await") /\ thread' = [thread EXCEPT ![ctl.vol] = "normal"]
       \/ At("start", "unregister") /\ UNCHANGED thread
    /\ UNCHANGED <<registry, current, result>> /\ MountStep

(* keCreateEvent *)
ThreadStarted ==
    /\ At("await", "unregister") /\ result[ctl.vol] # "none"
    /\ UNCHANGED <<registry, worker>> /\ MountStep

Publish ==
    /\ At("publish", "letter")
    /\ phase' = [phase EXCEPT ![ctl.vol] = "mounted"]
    /\ uid' = [uid EXCEPT ![ctl.vol] = lastId] /\ lastId' = lastId + 1
    /\ UNCHANGED <<devices, info, worker>> /\ MountStep

(* Someone else has taken the drive letter in the meantime: the device, *)
(* which can be opened by now, is deleted at once                       *)
LetterTaken ==
    /\ At("letter", "delete") /\ phase' = [phase EXCEPT ![ctl.vol] = "withdrawn"]
    /\ UNCHANGED <<devices, lastId, info, uid, worker>> /\ MountStep

(* The mount manager asks the new volume what it is before it returns *)
MountManagerMount ==
    /\ ctl.pc = "letter"
    /\ \/ ctl' = Idle /\ UNCHANGED requests
       \/ \E r \in Controls : Send(r, ctl.vol) /\ ctl' = [ctl EXCEPT !.pc = "notify", !.irp = r]
    /\ UNCHANGED <<registry, volume, worker, abort, shutdown>>

MountManagerMounted ==
    /\ ctl.pc = "notify" /\ irp[ctl.irp] = "answered" /\ ctl' = Idle
    /\ UNCHANGED <<registry, worker>> /\ MountStep

MountDevice ==
    \/ RegisterMountCancelContext \/ SetMountCancelContextUserSid \/ TCStartVolumeThread \/ ThreadStarted
    \/ UnregisterMountCancelContext \/ Publish \/ LetterTaken \/ MountManagerMount \/ MountManagerMounted

----------------------------------------------------------------------------
(* UnmountDevice, and TCDeleteDeviceObject with TCStopVolumeThread *)

UnmountStep ==
    /\ UNCHANGED <<lastId, open, stopPending, thread, current, cancel, aborter>>
    /\ ctl.pc # "erase" => UNCHANGED <<info, uid, result>>

(* The end of one volume is the end of the request, unless it is to go on with the next *)
Continue(again) ==
    IF ctl.op \in {"all", "shutdown"} /\ again
    THEN ctl' = [ctl EXCEPT !.pc = "next", !.irp = None] /\ UNCHANGED shutdown
    ELSE /\ ctl' = Idle
         /\ shutdown' = IF ctl.op # "shutdown" THEN shutdown ELSE IF ctl.triggered THEN "pending" ELSE "down"

(* Open files: a volume whose file system holds another volume cannot be locked *)
HostsVolume(v) == \E n \in Volumes : info[n].host = v /\ n \in devices

FilesOpen ==
    /\ ctl.pc = "lock" /\ ~ctl.force /\ Continue(TRUE)
    /\ UNCHANGED <<devices, phase, quit, sema, requests>> /\ UnmountStep

(* FSCTL_LOCK_VOLUME, and FSCTL_DISMOUNT_VOLUME until it succeeds or was    *)
(* tried often enough; the file system may write what it has kept before it *)
LockAndDismount ==
    /\ ctl.pc = "lock" /\ (ctl.force \/ ~HostsVolume(ctl.vol))
    /\ \/ ctl' = [ctl EXCEPT !.pc = "shut"] /\ UNCHANGED requests
       \/ \E r \in Irps \ Controls : Send(r, ctl.vol) /\ ctl' = [ctl EXCEPT !.pc = "flushed", !.irp = r]
    /\ UNCHANGED <<devices, phase, quit, sema, shutdown>> /\ UnmountStep

Dismounted ==
    /\ ctl.pc = "flushed" /\ irp[ctl.irp] = "answered"
    /\ ctl' = [ctl EXCEPT !.pc = "shut", !.irp = None]
    /\ UNCHANGED <<devices, phase, quit, sema, requests, shutdown>> /\ UnmountStep

SetShuttingDown ==
    /\ At("shut", "remove") /\ phase' = [phase EXCEPT ![ctl.vol] = "shutting"]
    /\ UNCHANGED <<devices, quit, sema, requests, shutdown>> /\ UnmountStep

(* IoReleaseRemoveLockAndWait *)
LockHolders(v) ==
    {r \in Irps : target[r] = v /\ irp[r] \in {"locked", "listed", "processing", "queued"}}
        \cup (IF thread[v] = "release" THEN {current[v]} ELSE {})

ReleaseRemoveLock ==
    /\ At("remove", "removing") /\ phase' = [phase EXCEPT ![ctl.vol] = "removing"]
    /\ UNCHANGED <<devices, quit, sema, requests, shutdown>> /\ UnmountStep

RemoveLockWait_Never ==
    /\ ctl.pc = "removing"
    /\ \E hit \in BOOLEAN : ctl' = [ctl EXCEPT !.pc = "delete", !.triggered = hit]
    /\ UNCHANGED <<devices, phase, quit, sema, requests, shutdown>> /\ UnmountStep

(* Nobody holds it: read from cryptoInfo whether hidden volume protection was triggered *)
RemoveLockWait ==
    /\ ctl.pc = "removing" /\ LockHolders(ctl.vol) = {}
    /\ \E hit \in BOOLEAN : ctl' = [ctl EXCEPT !.pc = "delete", !.triggered = hit]
    /\ UNCHANGED <<devices, phase, quit, sema, requests, shutdown>> /\ UnmountStep

(* Without a thread there is nothing to stop *)
SetThreadShouldQuit ==
    /\ ctl.pc = "delete"
    /\ IF thread[ctl.vol] = "none"
       THEN At("delete", "erase") /\ UNCHANGED quit
       ELSE At("delete", "wake") /\ quit' = [quit EXCEPT ![ctl.vol] = TRUE]
    /\ UNCHANGED <<devices, phase, sema, requests, shutdown>> /\ UnmountStep

WakeThread ==
    /\ At("wake", "join") /\ sema' = [sema EXCEPT ![ctl.vol] = @ + 1]
    /\ UNCHANGED <<devices, phase, quit, requests, shutdown>> /\ UnmountStep

ThreadExited ==
    /\ At("join", "erase") /\ thread[ctl.vol] = "exited"
    /\ UNCHANGED <<devices, phase, quit, sema, requests, shutdown>> /\ UnmountStep

EraseSlot ==
    /\ ctl.pc = "erase"
    /\ devices' = devices \ {ctl.vol}
    /\ info' = [info EXCEPT ![ctl.vol] = Blank] /\ uid' = [uid EXCEPT ![ctl.vol] = 0]
    /\ quit' = [quit EXCEPT ![ctl.vol] = FALSE] /\ sema' = [sema EXCEPT ![ctl.vol] = 0]
    /\ result' = [result EXCEPT ![ctl.vol] = "none"]
    /\ Continue(~ctl.triggered)
    /\ UNCHANGED <<phase, requests>> /\ UnmountStep

UnmountDevice ==
    \/ FilesOpen \/ LockAndDismount \/ Dismounted \/ SetShuttingDown \/ ReleaseRemoveLock
    \/ RemoveLockWait \/ SetThreadShouldQuit \/ WakeThread \/ ThreadExited \/ EraseSlot

----------------------------------------------------------------------------
(* The requests: unmount one volume, all volumes, or all until none is left *)

IsVolumeAccessibleByCurrentUser(v) == ctl.user \in {System, info[v].owner}

UnmountVolume ==
    /\ Accepts
    /\ \E v \in devices, f \in BOOLEAN : ctl' = Holder("lock", "one", System, f, v, 0)
    /\ UNCHANGED <<devices, phase, quit, sema, requests, shutdown>> /\ UnmountStep

All(op, u, f) == Holder("next", op, u, f, None, lastId)

UnmountAllVolumes ==
    /\ Accepts
    /\ \E u \in Users, f \in BOOLEAN : ctl' = All("all", u, f)
    /\ UNCHANGED <<devices, phase, quit, sema, requests, shutdown>> /\ UnmountStep

Candidates == {v \in Volumes : v \in devices /\ uid[v] <= ctl.max}

FindVolumeWithHighestUniqueId_ByDrive(v) == v \in Candidates

FindVolumeWithHighestUniqueId(v) == v \in Candidates /\ \A x \in Candidates : uid[x] <= uid[v]

UnmountAllDevices ==
    /\ ctl.pc = "next"
    /\ \/ Candidates = {} /\ Continue(FALSE)
       \/ \E v \in Volumes :
             /\ FindVolumeWithHighestUniqueId(v)
             /\ ctl' = [ctl EXCEPT !.pc = IF IsVolumeAccessibleByCurrentUser(v) THEN "lock" ELSE "next",
                                   !.vol = v, !.max = uid[v] - 1]
             /\ UNCHANGED shutdown
    /\ UNCHANGED <<devices, phase, quit, sema, requests>> /\ UnmountStep

BeginShutdown ==
    /\ shutdown = "up" /\ shutdown' = "pending"
    /\ UNCHANGED <<registry, volume, worker, requests, abort, ctl>>

OnShutdownPending_Once ==
    /\ shutdown = "pending" /\ ctl = Idle
    /\ ctl' = All("all", System, TRUE) /\ shutdown' = "down"
    /\ UNCHANGED <<devices, phase, quit, sema, requests>> /\ UnmountStep

(* OnShutdownPending repeats its request while it ends with the trigger *)
OnShutdownPending ==
    /\ shutdown = "pending" /\ ctl = Idle
    /\ ctl' = All("shutdown", System, TRUE) /\ shutdown' = "requested"
    /\ UNCHANGED <<devices, phase, quit, sema, requests>> /\ UnmountStep

ControlStep == MountDevice \/ UnmountDevice \/ UnmountAllDevices

Next ==
    \/ \E r \in Irps : Dispatch(r) \/ TCDispatchQueueIRP(r) \/ QueueCompletes(r)
    \/ \E v \in Volumes : ReleaseSemaphore(v) \/ VolumeThreadProc(v)
    \/ \E a \in Aborters : AbortPendingMount(a)
    \/ TCCreateDeviceObject \/ UnmountVolume \/ UnmountAllVolumes \/ BeginShutdown \/ OnShutdownPending
    \/ ControlStep

Spec == Init /\ [][Next]_vars

(* Threads in the driver run on, some of them and the holder of the mutex;   *)
(* it is given to its waiters in turn.  Nothing is assumed of those who send *)
(* requests.                                                                 *)
DriverStep ==
    \/ \E r \in Irps : TCDispatchQueueIRP(r) \/ QueueCompletes(r)
    \/ \E v \in Volumes : ReleaseSemaphore(v) \/ VolumeThreadProc(v)

FairSpec == Spec /\ WF_vars(DriverStep) /\ WF_vars(ControlStep) /\ SF_vars(OnShutdownPending)

----------------------------------------------------------------------------
(* Properties *)

Names == Volumes \cup {None}

ControlPcs ==
    {"free", "register", "sid", "start", "await", "unregister", "publish", "letter", "notify", "next", "lock", "flushed", "shut",
     "remove", "removing", "delete", "wake", "join", "erase"}
Holders ==
    [pc : ControlPcs, op : {"none", "mount", "one", "all", "shutdown"}, user : Users, force : BOOLEAN, vol : Names, max : Int,
     irp : Irps \cup {None}, triggered : BOOLEAN]

(* The type invariant *)
TypeOK ==
    /\ devices \subseteq Volumes /\ lastId \in Nat /\ uid \in [Volumes -> Nat]
    /\ info \in [Volumes -> [owner : Users \cup {None}, host : Names]]
    /\ phase \in [Volumes -> {"none", "initializing", "mounted", "withdrawn", "shutting", "removing"}]
    /\ open \in [Volumes -> BOOLEAN] /\ stopPending \in [Volumes -> BOOLEAN]
    /\ quit \in [Volumes -> BOOLEAN] /\ sema \in [Volumes -> Nat]
    /\ thread \in [Volumes -> {"none", "normal", "readNormal", "hidden", "readHidden", "startQueue", "wait", "drain",
                               "process", "release", "check", "stop", "stopping", "close", "exited"}]
    /\ current \in [Volumes -> Irps \cup {None}]
    /\ result \in [Volumes -> {"none", "success", "failed", "aborted"}]
    /\ irp \in [Irps -> {"new", "passed", "locked", "listed", "processing", "counted", "queued", "completing", "answered"}]
    /\ target \in [Irps -> Names]
    /\ senders \in [Volumes -> Nat]
    /\ ctl \in Holders
    /\ cancel \in [active : BOOLEAN, sid : Users \cup {None}, seq : Nat, abortedBy : Users \cup {None}]
    /\ aborter \in [Aborters -> [pc : {"idle", "found", "done"}, user : Users, seq : Nat]]
    /\ shutdown \in {"up", "pending", "requested", "down"}

(* Once the thread of a volume has drained its queue to close it, no request *)
(* is transferred or processed, nor on its way to be; and an unmount looks   *)
(* into cryptoInfo before it is freed.  Only a device that was withdrawn may *)
(* keep a control request, which nobody answers.                             *)
ClosedMeansQuiet ==
    /\ \A v \in Volumes : thread[v] \in {"close", "exited"} =>
          /\ InQueue(v) = {}
          /\ phase[v] # "withdrawn" => LockHolders(v) = {}
    /\ ctl.pc = "removing" => open[ctl.vol]

(* A mount ends as aborted only if its own user or one who may access every  *)
(* volume wanted that: an abort that was checked against one mount never     *)
(* hits the next one, however late it comes.                                 *)
AbortsAreAuthorised ==
    \A v \in Volumes : result[v] = "aborted" => cancel.abortedBy \in {System, info[v].owner}

(* "Dismount volumes in the reverse order they were mounted to properly      *)
(* dismount nested volumes": when one who may access all volumes unmounts    *)
(* them, no volume loses the one its host file lies on.                      *)
NestedUnmountedFirst ==
    ctl.op \in {"all", "shutdown"} /\ ctl.user = System
        /\ ctl.pc \in {"shut", "remove", "removing", "delete", "wake", "join", "erase"} => ~HostsVolume(ctl.vol)

(* Every request is answered, to a volume (unless it was withdrawn) and to   *)
(* the root device: nobody waits for a wakeup that does not come, and the    *)
(* mutex is given back.  When the handler of the shutdown is done, the       *)
(* volumes mounted by then are closed, also one whose hidden volume was      *)
(* protected against a write, which ends an unmount of all early.            *)
EveryRequestAnswered ==
    /\ \A r \in Irps : irp[r] # "new" ~> irp[r] = "answered" \/ \E v \in Volumes : target[r] = v /\ phase[v] = "withdrawn"
    /\ ctl # Idle ~> ctl = Idle
    /\ shutdown = "pending" ~> shutdown = "down" /\ devices = {} /\ \A v \in Volumes : ~open[v]
=============================================================================
