-------------------------- MODULE SystemEncryption --------------------------
(***************************************************************************)
(* Encryption and decryption of the system drive while it is in use        *)
(* (Driver/DriveFilter.c).  The setup thread transforms the configured     *)
(* area block by block, each block while it holds the queue of the drive,  *)
(* moves EncryptedAreaEnd, and now and then writes the length of the       *)
(* encrypted area to the volume header.  Requests may start and abort the  *)
(* setup, reopen the header and erase all keys; the system may shut down   *)
(* or lose power, and then starts from the header.                         *)
(*                                                                         *)
(* Covered failures: the device may fail any read or write, a failed or    *)
(* interrupted write may have reached any of its sectors, power may fail   *)
(* at every step.  The queue is represented by what EncryptedIoQueue       *)
(* promises: between EncryptedIoQueueHoldWhenIdle and                      *)
(* EncryptedIoQueueResumeFromHold no other transfer is in progress.        *)
(* Positions count encryption data units ("sectors"); -1 is the code's -1. *)
(*                                                                         *)
(* A definition Name_Defect is a faulty variant of the definition Name     *)
(* below it, which no specification uses.                                  *)
(***************************************************************************)
EXTENDS Integers, FiniteSets

CONSTANTS
    DiskLength,       \* sectors of the system drive
    ConfiguredStart,  \* the area to encrypt, from the volume header
    ConfiguredEnd,
    BlockSize,        \* TC_ENCRYPTION_SETUP_IO_BLOCK_SIZE
    UpdateThreshold,  \* TC_ENCRYPTION_SETUP_HEADER_UPDATE_THRESHOLD
    WipePasses,       \* the pass counts of the wipe algorithms (0: none)
    WrittenSectors,   \* where the file system writes during the setup
    InitialLengths,   \* lengths of the encrypted area when the system starts first
    MaxFaults, MaxCrashes, MaxStarts, MaxWrites,  \* bounds of failures and requests
    MaxEvents         \* bound of failures, crashes and writes together

Sectors == 0 .. (DiskLength - 1)

ASSUME SetupAssumption ==
    /\ DiskLength \in Nat \ {0} /\ BlockSize \in Nat \ {0} /\ UpdateThreshold \in Nat \ {0}
    /\ ConfiguredStart \in Sectors /\ ConfiguredEnd \in Sectors /\ ConfiguredStart <= ConfiguredEnd
    /\ WipePasses \subseteq Nat /\ WrittenSectors \subseteq Sectors
    /\ InitialLengths \subseteq 0 .. (ConfiguredEnd + 1 - ConfiguredStart)
    /\ MaxFaults \in Nat /\ MaxCrashes \in Nat /\ MaxStarts \in Nat /\ MaxWrites \in Nat
    /\ MaxEvents \in Nat

VARIABLES
    disk,     \* [Sectors -> what the sector holds]
    header,   \* the volume header on the drive: present, length of the encrypted area
    drive,    \* DriveFilterExtension: mounted, areas, keys; suspension of its queue
    setup,    \* SetupThreadProc, its request, its locals, and the words that control it
    system,   \* power state, load of the drive, request that holds RootDeviceControlMutex
    stored,   \* [Sectors -> what the file system last wrote there]
    lost,     \* [Sectors -> why its data is given up, "no" if it is not]
    count     \* faults, crashes, starts and writes so far; whether the last save failed

vars == <<disk, header, drive, setup, system, stored, lost, count>>

----------------------------------------------------------------------------
(* Data: a sector holds version v of its data under some layers of         *)
(* encryption, or junk: a wipe pattern, or the result of an erased key     *)

Cell(v, n) == [data |-> v, layers |-> n]
Junk == Cell(-1, 0)

Area == IF drive.start = -1 \/ drive.end = -1 THEN {} ELSE drive.start .. drive.end
Form(s, area) == Cell(stored[s], IF s \in area THEN 1 ELSE 0)

(* EncryptDataUnits (n = 1) and DecryptDataUnits (n = -1) of the buffer *)
Transform(buf, n) ==
    [s \in DOMAIN buf |-> IF buf[s] = Junk \/ drive.dataKey # "open" THEN Junk ELSE Cell(buf[s].data, buf[s].layers + n)]

Direction == IF setup.mode = "encrypt" THEN 1 ELSE -1
Block == setup.offset .. (setup.offset + setup.size - 1)

(* What a write leaves on the disk that reached the sectors in W *)
Overwrite(W, new) == [s \in Sectors |-> IF s \in W THEN new[s] ELSE disk[s]]

(* Ghost: sectors among S whose data is given up for the reason why *)
GiveUp(S, why) == [s \in Sectors |-> IF s \in S /\ lost[s] = "no" THEN why ELSE lost[s]]

MoreEvents == count.faults + count.crashes + count.writes < MaxEvents
CanFail == count.faults < MaxFaults /\ MoreEvents
Fault == count' = [count EXCEPT !.faults = @ + 1]

----------------------------------------------------------------------------
(* Start of the system: DriveFilterAddDevice, then MountDrive if there is a *)
(* header that the password opens                                          *)

Unmounted == [mounted |-> FALSE, start |-> -1, end |-> -1, confStart |-> -1, confEnd |-> -1,
              headerKey |-> "closed", dataKey |-> "closed", suspended |-> FALSE, blocked |-> FALSE]

MountDrive(h) ==
    [mounted |-> TRUE, confStart |-> ConfiguredStart, confEnd |-> ConfiguredEnd,
     start |-> IF h.length = 0 THEN -1 ELSE ConfiguredStart,
     end |-> IF h.length = 0 THEN -1 ELSE ConfiguredStart + h.length - 1,
     headerKey |-> "open", dataKey |-> "open", suspended |-> FALSE, blocked |-> FALSE]

StartDrive(h) == IF h.present THEN MountDrive(h) ELSE Unmounted
AreaOf(d) == IF d.start = -1 THEN {} ELSE d.start .. d.end

NoSetup == [pc |-> "exited", thread |-> FALSE, mode |-> "encrypt", wipe |-> 0, skip |-> FALSE, offset |-> 0, size |-> 0,
            buf |-> <<>>, pass |-> 0, dirty |-> FALSE, since |-> 0, result |-> "none", abort |-> FALSE]

Idle == [power |-> "on", busy |-> FALSE, request |-> "none"]

Init ==
    \E n \in InitialLengths :
        /\ header = [present |-> TRUE, length |-> n]
        /\ drive = MountDrive(header)
        /\ stored = [s \in Sectors |-> 0]
        /\ disk = [s \in Sectors |-> Form(s, Area)]
        /\ lost = [s \in Sectors |-> "no"]
        /\ setup = NoSetup
        /\ system = Idle
        /\ count = [faults |-> 0, crashes |-> 0, starts |-> 0, writes |-> 0, saveFailed |-> FALSE]

(* The system starts again with the disk d: what the header does not describe is lost *)
Restart(d, why) ==
    /\ disk' = d
    /\ drive' = StartDrive(header)
    /\ lost' = GiveUp({s \in Sectors : d[s] # Form(s, AreaOf(StartDrive(header)))}, IF count.saveFailed THEN "unsaved" ELSE why)
    /\ setup' = NoSetup
    /\ system' = Idle
    /\ UNCHANGED <<header, stored>>

----------------------------------------------------------------------------
(* Other users of the drive *)

(* A write by the file system, which the queue admits unless it is suspended *)
Write(s) ==
    /\ count.writes < MaxWrites /\ MoreEvents /\ ~drive.suspended /\ ~drive.blocked
    /\ stored' = [stored EXCEPT ![s] = @ + 1]
    /\ disk' = [disk EXCEPT ![s] = Cell(stored[s] + 1, IF s \in Area THEN 1 ELSE 0)]
    /\ lost' = [lost EXCEPT ![s] = "no"]
    /\ count' = [count EXCEPT !.writes = @ + 1]
    /\ UNCHANGED <<header, drive, setup, system>>

(* The load of the drive rises and falls; under load a hold is not granted, *)
(* and it matters only then                                                *)
Holding == setup.pc \in {"firstHold", "hold", "lastHold"}
Load ==
    /\ Holding
    /\ system' = [system EXCEPT !.busy = ~@]
    /\ UNCHANGED <<disk, header, drive, setup, stored, lost, count>>

----------------------------------------------------------------------------
(* Requests to the driver.  All but the setup thread pass through          *)
(* ProcessMainDeviceControlIrp, which holds RootDeviceControlMutex         *)

InProgress == setup.pc # "exited"

StartBootEncryptionSetup(mode, wipe, skip) ==
    /\ system.request = "none" /\ system.power = "on"
    /\ ~InProgress /\ drive.mounted
    /\ count.starts < MaxStarts
    /\ setup' = [NoSetup EXCEPT !.pc = "begin", !.thread = TRUE, !.mode = mode, !.wipe = wipe, !.skip = skip, !.size = BlockSize]
    /\ count' = [count EXCEPT !.starts = @ + 1]
    /\ UNCHANGED <<disk, header, drive, system, stored, lost>>

(* By a user, on hibernation, or on shutdown: waits for the thread to end *)
AbortBegin(power) ==
    /\ system.request = "none" /\ setup.thread
    /\ setup' = [setup EXCEPT !.abort = TRUE]
    /\ system' = [system EXCEPT !.request = "abort", !.power = power]
    /\ UNCHANGED <<disk, header, drive, stored, lost, count>>

AbortEnd ==
    /\ system.request = "abort" /\ ~InProgress
    /\ setup' = [setup EXCEPT !.thread = FALSE]
    /\ system' = [system EXCEPT !.request = "none"]
    /\ UNCHANGED <<disk, header, drive, stored, lost, count>>

AbortBootEncryptionSetup == AbortBegin(system.power) \/ AbortEnd

(* After a change of the password, which the program refuses during the    *)
(* setup; a password that does not open the header closes it               *)
ReopenBootVolumeHeader ==
    /\ system.request = "none" /\ system.power = "on"
    /\ ~InProgress /\ drive.mounted /\ drive.headerKey # "closed"
    /\ drive' = [drive EXCEPT !.headerKey = "closed"]
    /\ UNCHANGED <<disk, header, setup, system, stored, lost, count>>

(* Erases the keys and blocks the queue, whatever the setup thread is doing *)
EmergencyClearAllKeys ==
    /\ system.request = "none" /\ system.power = "on"
    /\ drive.mounted /\ drive.dataKey = "open"
    /\ drive' = [drive EXCEPT !.blocked = TRUE, !.dataKey = "erased",
                              !.headerKey = IF @ = "closed" THEN @ ELSE "erased"]
    /\ UNCHANGED <<disk, header, setup, system, stored, lost, count>>

(* IRP_MJ_SHUTDOWN; user programs, which start the setup, have ended by then *)
Shutdown ==
    /\ system.power = "on"
    /\ \/ AbortBegin("shutdown")
       \/ /\ ~setup.thread
          /\ system' = [system EXCEPT !.power = "shutdown"]
          /\ UNCHANGED <<disk, header, drive, setup, stored, lost, count>>

(* The power request that follows dismounts the drive; later it starts again *)
PowerOff ==
    /\ system.power = "shutdown" /\ system.request = "none"
    /\ Restart(disk, "clean")
    /\ count' = [count EXCEPT !.saveFailed = FALSE]

(* Power fails; a write in progress has reached some of its sectors *)
Writing == setup.pc \in {"wipe", "write", "undo"}
Written(pc, W) == IF pc = "wipe" THEN Overwrite(W, [s \in W |-> Junk]) ELSE Overwrite(W, setup.buf)

Crash ==
    /\ count.crashes < MaxCrashes /\ MoreEvents
    /\ count' = [count EXCEPT !.crashes = @ + 1, !.saveFailed = FALSE]
    /\ \E W \in SUBSET Block : (W # {} => Writing) /\ Restart(Written(setup.pc, W), "crash")

----------------------------------------------------------------------------
(* SetupThreadProc *)

At(pc) == setup.pc = pc
Goto(pc) == setup' = [setup EXCEPT !.pc = pc]
Fail(pc) == setup' = [setup EXCEPT !.pc = pc, !.result = "failed"]

(* goto err and goto abort: the block is done with *)
Leave(pc, result) ==
    setup' = [setup EXCEPT !.pc = pc, !.result = result, !.buf = <<>>, !.offset = 0, !.size = 0, !.since = 0, !.pass = 0]
Finish(result) == Leave("finish", result)

Begin ==
    /\ At("begin")
    /\ IF drive.headerKey = "closed" THEN Fail("ret")
       ELSE setup' = [setup EXCEPT !.pc = "firstHold", !.result = "failed"]
    /\ UNCHANGED <<disk, header, drive, system, stored, lost, count>>

HoldGiveUp_Defect ==
    /\ setup.pc = "firstHold" /\ system.busy /\ setup.abort
    /\ Finish("success")
    /\ system' = [system EXCEPT !.busy = FALSE]
    /\ UNCHANGED <<disk, header, drive, stored, lost, count>>

(* A hold that times out is retried unless the setup is to be aborted *)
HoldGiveUp ==
    /\ setup.pc \in {"firstHold", "hold"} /\ system.busy /\ setup.abort
    /\ Finish("success")
    /\ system' = [system EXCEPT !.busy = FALSE]
    /\ UNCHANGED <<disk, header, drive, stored, lost, count>>

Hold(pc) == At(pc) /\ ~system.busy /\ UNCHANGED <<disk, header, system, stored, lost, count>>
Encrypted == drive.start # -1 /\ drive.end # -1

(* The switch under the first hold: where to start, or to resume *)
FirstHold ==
    /\ Hold("firstHold")
    /\ \/ /\ setup.mode = "encrypt" /\ ~Encrypted
          /\ drive' = [drive EXCEPT !.start = drive.confStart, !.end = -1]
          /\ setup' = [setup EXCEPT !.pc = "loop", !.offset = drive.confStart]
       \/ /\ setup.mode = "encrypt" /\ Encrypted /\ drive.end = drive.confEnd
          /\ drive' = [drive EXCEPT !.suspended = TRUE]
          /\ Finish("failed")
       \/ /\ Encrypted /\ (setup.mode = "encrypt" => drive.end # drive.confEnd)
          /\ setup' = [setup EXCEPT !.pc = "loop", !.offset = drive.end + 1]
          /\ UNCHANGED drive
       \/ /\ setup.mode = "decrypt" /\ ~Encrypted
          /\ drive' = [drive EXCEPT !.suspended = TRUE]
          /\ Finish("success")

Smaller(a, b) == IF a < b THEN a ELSE b

(* The head of the loop: the next block *)
NextBlock ==
    /\ At("loop")
    /\ IF setup.mode = "encrypt"
       THEN LET size == Smaller(setup.size, drive.confEnd + 1 - setup.offset)
            IN IF setup.abort \/ setup.offset > drive.confEnd THEN Finish("success")
               ELSE setup' = [setup EXCEPT !.pc = "hold", !.size = size]
       ELSE LET size == Smaller(setup.size, setup.offset - drive.start)
            IN IF setup.abort \/ size <= 0 THEN Finish("success")
               ELSE setup' = [setup EXCEPT !.pc = "hold", !.size = size, !.offset = @ - size]
    /\ UNCHANGED <<disk, header, drive, system, stored, lost, count>>

HoldBlock ==
    /\ Hold("hold")
    /\ drive' = [drive EXCEPT !.suspended = TRUE]
    /\ Goto("read")

(* The block that was read, encrypted or decrypted; then it is wiped or written *)
Transformed(data) ==
    setup' = [setup EXCEPT !.pc = IF setup.mode = "encrypt" /\ setup.wipe > 0 THEN "wipe" ELSE "write",
                           !.pass = 1, !.buf = Transform([s \in Block |-> data[s]], Direction)]

ReadBlock ==
    /\ At("read")
    /\ Transformed(disk)
    /\ UNCHANGED <<disk, header, drive, system, stored, lost, count>>

(* ZeroUnreadableSectors, then the read is retried *)
ReadZeroed(bad) ==
    /\ setup.mode = "encrypt" /\ setup.skip
    /\ disk' = Overwrite({bad}, [s \in {bad} |-> Junk])
    /\ lost' = GiveUp({bad}, "discarded")
    /\ Transformed(disk')

(* ReadDeviceSkipUnreadableSectors: zeroes in place of what is not readable *)
ReadSkipped(bad) ==
    /\ setup.mode = "decrypt" /\ setup.skip
    /\ lost' = GiveUp({bad}, "discarded")
    /\ Transformed([disk EXCEPT ![bad] = Junk])
    /\ UNCHANGED disk

(* Nothing to be done about the read error, or a sector that cannot be zeroed *)
ReadError ==
    /\ setup.skip => setup.mode = "encrypt"
    /\ Finish("failed")
    /\ UNCHANGED <<disk, lost>>

ReadFails ==
    /\ At("read") /\ CanFail
    /\ Fault
    /\ ReadError \/ \E bad \in Block : ReadZeroed(bad) \/ ReadSkipped(bad)
    /\ UNCHANGED <<header, drive, system, stored>>

WipePass ==
    /\ At("wipe")
    /\ disk' = Written("wipe", Block)
    /\ setup' = [setup EXCEPT !.pc = IF setup.pass = setup.wipe THEN "write" ELSE "wipe", !.pass = @ + 1]
    /\ UNCHANGED <<header, drive, system, stored, lost, count>>

WriteBlock ==
    /\ At("write")
    /\ disk' = Written("write", Block)
    /\ lost' = GiveUp({s \in Block : setup.buf[s] = Junk}, "cleared")
    /\ Goto("moveEnd")
    /\ UNCHANGED <<header, drive, system, stored, count>>

WriteFails_Defect ==
    /\ setup.pc \in {"wipe", "write"} /\ CanFail
    /\ Fault
    /\ \E W \in SUBSET Block : disk' = Written(setup.pc, W)
    /\ setup' = [setup EXCEPT !.pc = "undo", !.result = "failed"]
    /\ UNCHANGED <<header, drive, system, stored, lost>>

(* A pass or the block could not be written: the data is put back as it was *)
WriteFails ==
    /\ setup.pc \in {"wipe", "write"} /\ CanFail
    /\ Fault
    /\ \E W \in SUBSET Block : disk' = Written(setup.pc, W)
    /\ setup' = [setup EXCEPT !.pc = "undo", !.result = "failed", !.buf = Transform(@, -Direction)]
    /\ UNCHANGED <<header, drive, system, stored, lost>>

(* The result of the write that undoes is not looked at *)
UndoWrite ==
    /\ At("undo")
    /\ \/ disk' = Written("undo", Block) /\ lost' = GiveUp({s \in Block : setup.buf[s] = Junk}, "cleared") /\ UNCHANGED count
       \/ /\ CanFail /\ Fault
          /\ \E W \in SUBSET Block : disk' = Written("undo", W)
          /\ lost' = GiveUp({s \in Block : disk'[s] # Form(s, Area)}, "fault")
    /\ Finish("failed")
    /\ UNCHANGED <<header, drive, system, stored>>

MoveEnd_Defect ==
    /\ At("moveEnd")
    /\ LET offset == IF setup.mode = "encrypt" THEN setup.offset + setup.size ELSE setup.offset
       IN /\ drive' = [drive EXCEPT !.end = offset - 1, !.suspended = FALSE]
          /\ setup' = [setup EXCEPT !.pc = IF setup.size >= UpdateThreshold THEN "save" ELSE "loop",
                                    !.offset = offset, !.since = setup.size, !.dirty = TRUE, !.buf = <<>>, !.pass = 0]
    /\ UNCHANGED <<disk, header, system, stored, lost, count>>

(* EncryptedAreaEnd, and the end of the hold *)
MoveEnd ==
    /\ At("moveEnd")
    /\ LET offset == IF setup.mode = "encrypt" THEN setup.offset + setup.size ELSE setup.offset
           since == setup.since + setup.size
       IN /\ drive' = [drive EXCEPT !.end = offset - 1, !.suspended = FALSE]
          /\ setup' = [setup EXCEPT !.pc = IF since >= UpdateThreshold THEN "save" ELSE "loop",
                                    !.offset = offset, !.since = since, !.dirty = TRUE, !.buf = <<>>, !.pass = 0]
    /\ UNCHANGED <<disk, header, system, stored, lost, count>>

(* SaveDriveVolumeHeader: the length of the area, or no header at all      *)
(* when everything is decrypted.  It needs the key of the header unless    *)
(* the area is empty.                                                      *)
AreaEmpty == ~Encrypted \/ drive.end < drive.start
HeaderOfArea ==
    IF ~AreaEmpty THEN [present |-> TRUE, length |-> drive.end + 1 - drive.start]
    ELSE IF setup.mode = "decrypt" THEN [present |-> FALSE, length |-> 0] ELSE header

SaveSucceeds ==
    /\ AreaEmpty \/ drive.headerKey = "open"
    /\ header' = HeaderOfArea
    /\ count' = [count EXCEPT !.saveFailed = FALSE]

SaveFails ==
    /\ \/ CanFail /\ count' = [count EXCEPT !.saveFailed = TRUE, !.faults = @ + 1]
       \/ ~AreaEmpty /\ drive.headerKey # "open" /\ count' = [count EXCEPT !.saveFailed = TRUE]
    /\ UNCHANGED header

SaveHeader_Defect ==
    /\ At("save")
    /\ \/ SaveSucceeds /\ setup' = [setup EXCEPT !.pc = "loop", !.dirty = FALSE, !.since = 0]
       \/ SaveFails /\ UNCHANGED setup
    /\ UNCHANGED <<disk, drive, system, stored, lost>>

(* Between two blocks *)
SaveHeader ==
    /\ At("save")
    /\ \/ SaveSucceeds /\ setup' = [setup EXCEPT !.pc = "loop", !.dirty = FALSE, !.since = 0]
       \/ SaveFails /\ Goto("loop")
    /\ UNCHANGED <<disk, drive, system, stored, lost>>

EndHold_Defect ==
    /\ At("finish")
    /\ drive' = [drive EXCEPT !.start = IF drive.end = -1 THEN -1 ELSE @, !.suspended = FALSE]
    /\ Goto(IF setup.mode = "decrypt" /\ drive.end = -1 THEN "lastHold" ELSE "lastSave")
    /\ UNCHANGED <<disk, header, system, stored, lost, count>>

(* err: the hold ends; a decryption that has nothing left goes on to forget the area *)
EndHold ==
    /\ At("finish")
    /\ drive' = [drive EXCEPT !.start = IF drive.end = -1 THEN -1 ELSE @, !.suspended = FALSE]
    /\ Goto(IF setup.mode = "decrypt" /\ AreaEmpty THEN "lastHold" ELSE "lastSave")
    /\ UNCHANGED <<disk, header, system, stored, lost, count>>

LastHold ==
    /\ Hold("lastHold")
    /\ drive' = [drive EXCEPT !.start = -1, !.end = -1, !.confStart = -1, !.confEnd = -1]
    /\ setup' = [setup EXCEPT !.pc = "lastSave", !.dirty = TRUE]

LastSave_Defect ==
    /\ At("lastSave")
    /\ \/ (~setup.dirty \/ setup.abort) /\ Goto("dismount") /\ UNCHANGED <<header, count>>
       \/ setup.dirty /\ ~setup.abort /\ SaveSucceeds /\ Goto("dismount")
       \/ setup.dirty /\ ~setup.abort /\ SaveFails /\ Fail("dismount")
    /\ UNCHANGED <<disk, drive, system, stored, lost>>

LastSave ==
    /\ At("lastSave")
    /\ \/ ~setup.dirty /\ Goto("dismount") /\ UNCHANGED <<header, count>>
       \/ setup.dirty /\ SaveSucceeds /\ Goto("dismount")
       \/ setup.dirty /\ SaveFails /\ Fail("dismount")
    /\ UNCHANGED <<disk, drive, system, stored, lost>>

(* DismountDrive after a decryption, under RootDeviceControlMutex or in the *)
(* place of the thread that holds it and waits for this one                *)
Dismount ==
    /\ At("dismount")
    /\ IF setup.mode = "decrypt" /\ drive.confEnd = -1 /\ drive.mounted
       THEN /\ system.request = "none" \/ setup.abort
            /\ drive' = [drive EXCEPT !.mounted = FALSE, !.headerKey = "closed", !.dataKey = "closed"]
       ELSE UNCHANGED drive
    /\ Goto("ret")
    /\ UNCHANGED <<disk, header, system, stored, lost, count>>

Return ==
    /\ At("ret")
    /\ setup' = [NoSetup EXCEPT !.thread = TRUE, !.result = setup.result]
    /\ UNCHANGED <<disk, header, drive, system, stored, lost, count>>

SetupThreadProc ==
    \/ Begin \/ HoldGiveUp \/ FirstHold \/ NextBlock \/ HoldBlock \/ ReadBlock \/ ReadFails
    \/ WipePass \/ WriteBlock \/ WriteFails \/ UndoWrite \/ MoveEnd
    \/ SaveHeader \/ EndHold \/ LastHold \/ LastSave \/ Dismount \/ Return

Next ==
    \/ \E s \in WrittenSectors : Write(s)
    \/ Load
    \/ \E wipe \in WipePasses, skip \in BOOLEAN : StartBootEncryptionSetup("encrypt", wipe, skip)
    \/ \E skip \in BOOLEAN : StartBootEncryptionSetup("decrypt", 0, skip)
    \/ AbortBootEncryptionSetup \/ ReopenBootVolumeHeader \/ EmergencyClearAllKeys
    \/ Shutdown \/ PowerOff \/ Crash
    \/ SetupThreadProc

Spec == Init /\ [][Next]_vars

(* The thread runs, and a hold of an idle drive is granted; the request    *)
(* that waits for the thread returns when it has ended.  No fairness for   *)
(* the load, for requests or for the power.                                *)
Fairness == WF_vars(SetupThreadProc) /\ WF_vars(AbortEnd)
FairSpec == Spec /\ Fairness

----------------------------------------------------------------------------
(* Properties *)

Cells == [data : Int, layers : Int]
Reasons == {"no", "clean", "crash", "unsaved", "discarded", "fault", "cleared"}
Steps == {"begin", "firstHold", "loop", "hold", "read", "wipe", "write", "undo", "moveEnd", "save",
          "finish", "lastHold", "lastSave", "dismount", "ret", "exited"}

(* Everything the extension, the header and the setup thread hold is in    *)
(* range; from the read of a block until its end is moved the buffer holds *)
(* that block, and the block lies within the configured area.              *)
TypeOK ==
    /\ disk \in [Sectors -> Cells] /\ stored \in [Sectors -> Nat] /\ lost \in [Sectors -> Reasons]
    /\ header \in [present : BOOLEAN, length : 0 .. (ConfiguredEnd + 1 - ConfiguredStart)]
    /\ drive.start \in {-1, ConfiguredStart} /\ drive.end \in -1 .. ConfiguredEnd
    /\ drive.suspended \in BOOLEAN /\ setup.pc \in Steps
    /\ setup.pc \in {"hold", "read", "wipe", "write", "undo", "moveEnd"} =>
          Block \subseteq ConfiguredStart .. ConfiguredEnd /\ setup.size > 0
    /\ setup.pc \in {"wipe", "write", "undo", "moveEnd"} => setup.buf \in [Block -> Cells]

(* Whatever the setup thread has done, whenever requests are admitted a    *)
(* sector holds what the file system last wrote, encrypted if and only if  *)
(* the area says so.  Given up are only sectors that the request allowed   *)
(* to discard, whose undo failed too, that were rewritten with erased      *)
(* keys, or that the header did not describe at a restart                  *)
(* (EncryptedIoQueueHoldWhenIdle, the undo of failed writes, the order of  *)
(* write and EncryptedAreaEnd in SetupThreadProc).                         *)
SeesItsData ==
    ~drive.suspended => \A s \in Sectors : lost[s] = "no" => disk[s] = Form(s, Area)

(* A power failure costs at most the blocks transformed since the header   *)
(* was written and the block in progress, as long as the header could be   *)
(* written (TC_ENCRYPTION_SETUP_HEADER_UPDATE_THRESHOLD).                  *)
CrashLossBounded ==
    Cardinality({s \in Sectors : lost[s] = "crash"}) <= count.crashes * (UpdateThreshold + BlockSize - 1)

(* A shutdown, even in the middle of the setup, loses nothing: it aborts   *)
(* the setup, which writes the header before it ends (IRP_MJ_SHUTDOWN,     *)
(* headerUpdateRequired), unless the header could not be written.          *)
CleanRestartLosesNothing == \A s \in Sectors : lost[s] # "clean"

(* A setup that has ended with success, also one that was aborted, leaves  *)
(* a header that says where the encrypted area ends, or no header if there *)
(* is none left (SetupResult, SaveDriveVolumeHeader).  An earlier save     *)
(* that failed is not made up for by a later setup that does nothing.      *)
SuccessIsRecorded ==
    ~InProgress /\ setup.result = "success" /\ ~count.saveFailed =>
        Area = AreaOf(StartDrive(header)) /\ header.present = drive.mounted

(* A request to abort returns although the drive is busy and although it   *)
(* holds the mutex that the thread needs to dismount the drive, unless the *)
(* end of a decryption waits for its last hold (line 1888).                *)
AbortReturns == system.request = "abort" ~> system.request = "none" \/ At("lastHold")

(* If the drive is idle from some time on every setup ends. *)
SetupEnds == <>[]~system.busy => (InProgress ~> ~InProgress)
=============================================================================
