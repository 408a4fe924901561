# VeraCrypt: TLA+ models of the concurrent core

VeraCrypt encrypts volumes and system drives transparently.  Below its user
interface the program is a set of cooperating threads: a queue that turns I/O
requests into device operations and encryption, a pool of threads that encrypts
and derives keys, a reader that finds out how a header is encrypted, a setup
thread that encrypts a drive while it is in use, a wizard that encrypts a
partition in its place, and a file system service that serves a mounted volume
from several threads.  This directory models those parts, model-checks them with TLC on small instances, and proves theorems about
them with TLAPS.  Paths in this text are relative to the repository root, where
the program is under `src/` and its documents under `docs/`.

## 1. The system

| part | state it keeps | operations | talks to |
|---|---|---|---|
| Encrypted I/O queue (`src/Driver/EncryptedIoQueue.c`) | three lists, their threads, pools of items, requests and work items, two fragment buffers, a read-ahead buffer, the bounds of the encrypted area, an outstanding I/O counter | start, stop, add an IRP, hold when idle, resume | device below; thread pool; setup thread (hold); file system (IRPs) |
| Encryption thread pool (`src/Common/EncryptionThreadPool.c`) | a ring of work items, two mutexes, two auto-reset events | start, stop, DoWork, BeginKeyDerivation | queue, header reader, format programs |
| Header reader (`src/Common/Volumes.c`) | its work items, the abort flag, the event and the counter derivations report to | read a header with abort, with or without a hardware factor | thread pool; the thread that aborts a mount |
| Password cache and mount control (`src/Common/Cache.c`, `src/Driver/Ntdriver.c`) | cached passwords, the context of a mount that may be cancelled | mount with the cache, abort | header reader |
| System encryption (`src/Driver/DriveFilter.c`) | the configured and the actual encrypted area, the header on disk, the state of the setup | encrypt, decrypt, abort, save the header, dismount, power requests | queue (hold, bounds), device, boot loader |
| Volume device (`src/Driver/Ntdriver.c`, `Ntvol.c`) | the table of volumes, for each its thread, its list of control requests, its remove lock, its host file; the context of the mount in progress; the mutex of control requests | mount, abort a mount, unmount one or all, dispatch a request, shut down | header reader, queue, file systems, mount manager |
| Volume and dump filters (`src/Driver/VolumeFilter.c`, `DumpFilter.c`) | none of interest | forward, encrypt a dump write | device |
| Keyslots (`src/Common/Keyslot*.c`, `AfSplit.c`) | a table of wrapped keys with expiry and attempt counters | add, open, revoke, shred, check | header reader, volume file |
| Atomic header, header backup (`src/Common/AtomicHeader.c`, `HeaderBackup.c`) | two copies with generation and tag | build, select, restore | keyslot area |
| In-place encryption (`src/Format/InPlace.c`) | progress in two headers, moved data | encrypt, pause, resume, decrypt | device |
| Portable volume, header, cache (`src/Volume/`) | open volume, protection flag, sector tags | read and write sectors, re-encrypt the header | thread pool, host file |
| Portable thread pool (`src/Volume/EncryptionThreadPool.cpp`) | as its C sibling, and exceptions of fragments | as its C sibling | portable volume |
| FUSE service (`src/Driver/Fuse/FuseService.cpp`) | mounted volume, device information | read, write, unmount | portable volume |
| Core service (`src/Core/Unix/`) | request and response pipes, admin process | mount, dismount, elevate | FUSE service, operating system |
| Key scrubbing, hardware factor, sharing, sector tags, random numbers, creation | see `PROJECT.json` | | |
| User interface, setup, boot loader, primitives | out of scope | | |

What is hard in each, and what makes it correct:

* **Queue.**  Three threads, a pool of system worker threads and any number of
  callers share it; pools and buffers run out; a hold has to be exclusive although
  IRPs keep arriving; the setup thread changes what is encrypted; the device fails.
  Correct means: whoever issues IRPs sees a plain block device, whatever runs
  below; a hold excludes all transfers; nothing read ahead is stale; every IRP is
  answered; a stop drains and returns; protected sectors are never written.
* **Thread pool.**  Slots are reused while threads still refer to them; one
  auto-reset event wakes a set of threads.  Correct means every unit is transformed
  exactly once, calls return, a stop returns.
* **Header reader.**  It runs more derivations than there are threads, tests keys as
  they come, cancels the rest, and may be aborted or fail.  Correct means the
  password is called wrong only if everything was tried, the header is answered, and
  nothing it freed is written to.
* **Volume devices.**  A request to a volume may be at any point of its way when the volume
  is unmounted; a mount may be aborted by a thread that checked it a moment ago; volumes lie
  in files on other volumes.  Correct means that a volume is closed only when nothing uses
  it, that everybody is answered, that an abort hits the mount it was meant for, and that
  nested volumes are unmounted first.
* **System encryption** and **in-place encryption.**  A crash may come between the
  write of a block and the write of the header that says so; failed writes are
  undone.  Correct means that a restart finds every sector in the form the header
  says.
* **Portable volume and FUSE service.**  Requests of several threads run side by side
  without a lock; the data and the tag of a sector are written apart and neither is
  flushed; whether there are tags at all is found out from sector 0.  Correct means that
  what was written is read back, a tag that does not fit refuses the read, and a protected
  hidden volume is not written to.
* **Keyslots**, **atomic header.**  Torn writes, and counters kept beside the records.

`PROJECT.json` lists all hazards met while reading, with the line where each bites
and the properties that cover it.

## 2. The modules

```
BlockDevice            what a drive or volume promises          (abstract)
  ^ refinement
EncryptedIoQueue       the queue, its threads, hold, stop       MC_EncryptedIoQueue
  ^ EXTENDS
EncryptedIoQueue_proof   types, the counter, the hold, the stop, fragments, denied writes
  ^ EXTENDS
EncryptedIoQueue_refinement  it implements BlockDevice; success means transferred
EncryptionThreadPool   the pool                                 MC_EncryptionThreadPool
  ^ EXTENDS
EncryptionThreadPool_proof  types, every unit once, fragments belong to calls in progress
  ^ EXTENDS (of EncryptionThreadPool)
ReadVolumeHeader       the reader over the pool, mount abort    MC_ReadVolumeHeader
  ^ EXTENDS (with EncryptionThreadPool_proof)
ReadVolumeHeader_proof   types, wrong means all tried, the pool still serves others
SystemEncryption       setup thread, requests, power, header    MC_SystemEncryption
  (uses the queue through what HoldExclusive and BlockDevice promise)
  ^ EXTENDS
SystemEncryption_proof   types, data and area agree, shutdown, the saved header, cost of a crash
InPlace                the in-place wizard, crash and resume    MC_InPlace
  ^ EXTENDS
InPlace_proof            types, nothing lost, recognised or primary means whole, cost of a failure
VolumeDevice           mount, abort, requests, unmount, shutdown MC_VolumeDevice
  ^ EXTENDS
VolumeDevice_proof       types, quiet close, authorised aborts, nested volumes first
VolumeIo               a mounted volume under FUSE requests     MC_VolumeIo
  ^ EXTENDS
VolumeIo_proof           acknowledged sectors, what is read, tags, hidden volume, mounts
```

A definition named `Name_Defect` stands before `Name` and is a faulty variant of it
that no specification uses.  It records which mistake the properties of the runs
detect.

Each module has one type invariant.  Where it is proved no run repeats it; that of the pool
is part of `HeaderTypeOK`.

### EncryptedIoQueue

| variable | code |
|---|---|
| `irp` | what became of each IRP: not issued, counted by AddIrp, queued, active (taken by the main thread with an item), completed; its operation and status; the sectors still to transfer; the data a read has so far |
| `queue` | `OutstandingIoCount`, `SuspendPending`, `Suspended`, `StopPending`, `ThreadExitRequested`, `NoOutstandingIoEvent`, `QueueResumedEvent` |
| `list` | `MainThreadQueue`, `IoThreadQueue`, `CompletionThreadQueue`, their events, `IoThreadPendingRequestCount` |
| `pool` | free items and requests of the buffer pool, `PoolBufferFreeEvent`, free work items, `ActiveWorkItems` |
| `buffer` | the two fragment buffers and their events; the read-ahead buffer |
| `store` | the disk below, `EncryptedAreaStart` and `EncryptedAreaEnd`, `bHiddenVolProtectionAction` |
| `main`, `io`, `comp` | where `MainThreadProc`, `IoThreadProc`, `CompletionThreadProc` are |
| `worker` | the routine of the completion work item of each IRP |
| `hold`, `stop` | the thread in `EncryptedIoQueueHoldWhenIdle` (the setup thread), and the one in `EncryptedIoQueueStop` |

A step of the model ends where the code can be preempted with effect: at a wait,
between an interlocked operation and the event it leads to, between the parts of
`EncryptedIoQueueHoldWhenIdle` that look at the counter and set flags.  Code that
only one thread can see is joined to the next visible operation.

Data are abstracted to cells: a cell knows who wrote it (`format`, an IRP, ...), for
which sector, and how many layers of encryption it carries.  Encrypting adds a
layer, decrypting removes one, so decrypting plaintext, encrypting twice, and
decrypting for the wrong sector are all visible.  A sector stands for the unit in
which the encrypted area, the remapped area and fragments can be cut.

The setup thread appears only as the user of the hold: when the queue is held it may
encrypt or decrypt the next block in place and move `EncryptedAreaEnd`
(`HeldRead`, `HeldWrite`, from `SetupThreadProc`).

`BlockDevice` is the abstract promise: an IRP transfers the sectors it asked for
in pieces and in any order, and is answered with success only after all of them.  The
refinement mapping decrypts the disk according to the encrypted area, and removes the
layer from data that has been read and not yet decrypted.  A device is one behaviour
of plain reads and writes although the queue encrypts, splits, reads ahead, and has
its disk re-encrypted under it.

### EncryptionThreadPool and ReadVolumeHeader

`pool` holds positions, mutex owners and events of the ring, `slot` the ring,
`thread` and `caller` the program counters, `data` how often each unit of a caller's
data was transformed, `report` what key derivations write to (ready flags, results,
completion event, counter, event of the last one, abort flag).  The slot is freed, the
fragment counter is decremented and the event is set in three steps, as in the code.

`ReadVolumeHeader` EXTENDS the pool: its `reader` is one of the callers and queues
derivations through `EncryptionThreadPoolBeginKeyDerivation`.  The loop over the
functions, the step back when every thread is busy, the scan for a ready key, the
retry with the older mix of a hardware factor, the sequential branch, abort, error and
clean-up labels are actions of their own.  `AbortPendingMount` sets its two flags in
two steps.  A key is right, or cut short by an abort, or missing because a memory-hard
function failed.

### SystemEncryption

| variable | code |
|---|---|
| `disk`, `stored` | what each sector of the drive holds; what the file system last wrote there |
| `header` | the volume header on the drive: whether there is one, and the length of the encrypted area |
| `drive` | `DriveFilterExtension`: `DriveMounted`, `EncryptedAreaStart` and `End`, `ConfiguredEncryptedAreaStart` and `End`, the two keys, whether its queue is suspended, the flag that blocks it |
| `setup` | the request, the locals of `SetupThreadProc` (offset, size, buffer, wipe pass, `headerUpdateRequired`, the distance since the last update), `SetupResult`, `EncryptionSetupThreadAbortRequested` |
| `system` | power state, whether the drive is under load, the request that holds `RootDeviceControlMutex` |
| `lost` | history: why the data of a sector is given up |
| `count` | the bounded numbers of failures, and whether the last header update failed |

The setup thread is one action per part of its loop: the first hold and the choice of
where to resume, the choice of the block, the hold of the block, read, wipe pass, write,
`EncryptedAreaEnd` and the end of the hold, the header update, the last hold of a
decryption, the last update, the dismount.  Failures are those the code handles: a read
error with or without permission to zero the sector, a failed or partial write and its undo
(which may fail too), a failed header update.  A hold is refused while the drive is busy
and retried as the code retries it.  Requests may start and abort the setup, reopen the
header, erase the keys, shut down.  `Restart` is the only place where what was in memory
is forgotten: the drive is then described by its header alone, and any sector that is not
in the form the header says is entered in `lost` with the reason.  The properties are about
these reasons: a crash may cost a bounded part, a shutdown nothing.

The queue is represented by what `EncryptedIoQueue` is checked and proved to promise: while
it is held no other transfer is in progress (`HoldExclusive`, proved), and outside a hold a
request transfers the data of its sectors as if unencrypted (`BlockDevice`).

Two facts of the code the model takes over: `ReopenBootVolumeHeader` never runs during a
setup (the program refuses to change the password then), and the header is a single
512-byte sector, so a write of it is atomic.

### InPlace

| variable | code |
|---|---|
| `disk` | what each position of the partition holds: a sector of the file system, concealed or not, in the clear or encrypted for some position, or junk |
| `backup`, `primary` | the backup header with its `EncryptedAreaStart`; the primary header |
| `session` | the open wizard and its direction |
| `pc`, `area`, `buf`, `wipe`, `since`, `dirty`, `cancel` | the transformation thread: `masterCryptoInfo->EncryptedAreaStart`, the chunk, `lastHeaderUpdateDistance`, `bEncryptedAreaSizeChanged`, `bVolTransformThreadCancel` |
| `lost`, `faults`, `crashes` | history and bounded counters |

Encryption moves the file system up by `TC_VOLUME_DATA_OFFSET` to make room for the primary
header, from its end to its start; decryption moves it back.  A chunk is larger than that
distance, so each write overwrites sectors that only the buffer holds, and a failed one has
to be undone from the buffer.  The first sectors are concealed while the work is under way.
`Forget` ends every run, whether it was paused, failed or lost its power, and enters in
`lost` the sectors that are not where a run that starts from the backup header looks for
them, or not concealed as that run expects.

### VolumeDevice

| variable | code |
|---|---|
| `devices`, `lastId` | `VirtualVolumeDeviceObjects`, `LastUniqueVolumeId` |
| `info`, `uid` | of each device `UserSid` and the volume its host file lies on; `UniqueVolumeId` |
| `phase` | `DO_DEVICE_INITIALIZING`, `bShuttingDown`, and whether `IoReleaseRemoveLockAndWait` was called |
| `open`, `stopPending`, `quit`, `sema` | whether `hDeviceFile` and `cryptoInfo` are set; `Queue.StopPending`, `bThreadShouldQuit`, `RequestSemaphore` |
| `thread`, `current`, `result` | where `VolumeThreadProc` is, the request it processes, what became of opening the volume |
| `irp`, `target`, `senders` | where each request is and the device it went to; threads between the insertion of a request and the release of the semaphore |
| `ctl` | the holder of `RootDeviceControlMutex`: its request and its place in `MountDevice`, `UnmountDevice` or `UnmountAllDevices` |
| `cancel`, `aborter` | `ActiveMountCancelContext`, with who set `UserAbortRequested`; the threads in `AbortPendingMount` |
| `shutdown` | the handler of `IRP_MJ_SHUTDOWN` |

A device is the object of one mount: handles outlive it, so a request may reach a device that
was deleted.  Requests to the root device run one at a time, under the mutex, except the one
to abort a mount, which is why it has a context of its own.  Each step of the holder is one
action up to the next thing somebody else can see or change.  A transfer is followed from the
counter and the remove lock it takes in `EncryptedIoQueueAddIrp` to the end of its completion;
what happens in between is `EncryptedIoQueue`, and what an abort does to a header that is being
read is `ReadVolumeHeader`.  Locking and dismounting the file system may send requests to the
volume itself, from the thread that holds the mutex, and fails if another volume lies on it,
unless open files are to be ignored.

External, and modelled from how the code uses them: the file systems and the mount manager,
which may or may not send a request and wait for its answer; the semaphore and the remove lock.

### VolumeIo

| variable | code |
|---|---|
| `volume` | what the layout and the header say of the volume: V2 or not, offset and size of its data, the hidden volume, and for a partition of a system drive the encrypted area of the drive |
| `data`, `tags` | the data area and the MAC table, as the operating system shows them |
| `mediaData`, `mediaTags` | the same as they are on the device: a power failure falls back to them (external) |
| `mounted`, `protection`, `triggered` | `MountedVolume`, `Protection`, `HiddenVolumeProtectionTriggered` |
| `v2Active`, `ignoreTags`, `ignoredCount`, `firstIgnored` | `V2SectorMacIo` |
| `pc`, `req`, `buf`, `todo`, `count`, `reply` | each FUSE thread: where it is in `ReadSectors`, `WriteSectors` or `VerifyRange`, its request, the ciphertext it read, the bad sectors it has yet to count, the count it loaded, its answer |
| `expected`, `alone`, `calm`, `bad`, `ignored` | history, below |

A cell is a content and the number it was encrypted with, so that decryption with another
number gives garbage; a tag is the pair of sector and ciphertext it was computed from.
Requests are in units of which a sector has several, so that they can be misaligned.  Every
access to the host file is a step of its own: the data and the tags of a read, the data and
the tags of a write, a call that fails after any part.  So are the test of the trigger, the
check of the protected range, and the test, the load and the store of the counters, which
the code leaves to whatever order the threads run in.  `Open` is one step because no thread
serves requests yet; it covers the options (protection, ignoring tags, requiring tags) and
the read error the code turns into "no tags".

`expected` remembers what a sector must hold: it is *settled* once a write that overlapped
no other was answered with success and wrote its tags, until the next write of it starts or
a power failure undoes it.  `SettledIntact` says that a settled sector stays readable
through everything that happens to its neighbours; `SettledReads` that a read of settled
sectors returns exactly the part asked for; `FailsClosed` that a tag that was bad before
the read is never answered with data; `OverrideLeavesTrace` that the racing counters leave
at least a trace of every ignored tag; `ProtectedIntact` that the hidden volume is not
written to between a test and a write; `OpensAuthenticated` that a mount finds the tags if
sector 0 is settled.

External, and modelled from how the code uses it: write-back in any order, power failures,
the death of the service, and the kernel, which sends no read that starts at or after the
end of the file.

## 3. The runs

Each property of a passing run has a variant of the model that violates it
(`mutants` in `PROJECT.json`).

| run | instance | shows |
|---|---|---|
| `Queue_Hold` | 2 IRPs (reads, writes of two fragments, a misaligned read, which may fail and touches a substituted sector), 3 sectors, one hold; the encrypted area may grow or shrink; read-ahead | `CountIsOutstanding`; `HoldExclusive`; `FragmentOwnership`; `NoFragmentOutlivesIrp`; the queue implements `BlockDevice` although its disk is re-encrypted |
| `Queue_Volume` | 2 IRPs (reads beyond the end, writes, flushes) on a volume with a protected sector, stop, cancelled IRPs, faults, one item and one request | `ProtectedIntact`; `NoWriteAfterTrigger`; `StopDrains`; `StopTerminates`; `EveryIrpAnswered` |
| `Queue_Remap_Fault` | one IRP across both ends of a remapped area, 4 sectors; the device may fail any part | **violation** of `SuccessMeansTransferred` |
| `Queue_Stop_Held` | one IRP on a drive that is removed, and a hold | **violation** of `StopTerminates` |
| `Pool_Work` | 2 threads, 4 slots, 2 callers with 2 calls and 1, of either kind, pool started twice | `WorkDone`; `FragmentOfLiveCall`; `EveryCallReturns`; `StopReturns` |
| `Header_Abort` | 2 functions on 2 threads, all or one selected, 2 attempts, failures, user abort | `HeaderTypeOK`; `WrongMeansAllTried`; `HeaderIsRead` |
| `Header_Lingers` | 2 functions on 2 threads | **violation** of `NoDerivationLingers` |
| `Setup` | 6 sectors of which 4 are configured, blocks of 2, a header update every 3, one wipe pass, 2 starts, and 2 of: a device fault, a power failure, a write | `SeesItsData`; `CrashLossBounded`; `CleanRestartLosesNothing`; `SuccessIsRecorded`; `AbortReturns`; `SetupEnds` |
| `InPlace` | 8 sectors moved by 2, 2 of them concealed, chunks of 3, a header update every 4, any 2 failures | `CleanRunsLoseNothing`; `RecognisedMeansWhole`; `PrimaryMeansWhole`; `LossBounded`; `EncryptionUndoesFault` |
| `InPlace_Unaligned` | 7 sectors instead of 8, so that a pause can leave one sector of the concealed portion to move, no failure | **violation** of `OnlyInitialPortionConcealed` |
| `Device` | 2 volumes, 2 users, of which one may access everything; one control request or one flush or one request to abort, besides those the driver sends itself | `ClosedMeansQuiet`; `AbortsAreAuthorised`; `NestedUnmountedFirst`; `EveryRequestAnswered` |
| `VolumeIo` | 2 threads, 2 values, sectors of 2 units; a V2 volume at two offsets, the host of a hidden volume, a partition of a drive encrypted wholly or in part | `SettledIntact`; `SettledReads`; `FailsClosed`; `OverrideLeavesTrace`; `ProtectedIntact`; `OpensAuthenticated` |

### What the violations show

* `Queue_Remap_Fault`: a request that crosses the bounds of a remapped area is up to
  three device operations, each of which overwrites the status of the item.  The error
  of the first is lost when the last succeeds.
* `Queue_Stop_Held`: hold and stop wait for the same auto-reset event; if the hold
  takes the signal the stop sleeps forever.  The two meet when a drive is removed
  (`IRP_MN_REMOVE_DEVICE`, `src/Driver/DriveFilter.c:1027`): the IRPs that have the remove lock
  are waited for and the queue is stopped, but the setup thread goes on, and an IRP that was
  counted and then refused gives the signal to one of the two.  A drive that is dismounted on
  shutdown (`:1077`) is not affected, since the setup thread was aborted and waited for when
  `DriverShuttingDown` was set (`src/Driver/Ntdriver.c:549`); neither is one that hibernates
  (`:1062`).  `StopBegin` has both cases: no hold is in progress and none will begin, or the drive is removed.
* `Header_Lingers`: the worker that ends the last derivation decrements the counter
  and sets the event in two steps; a derivation queued in between is not waited for.
* `InPlace_Unaligned`: an in-place encryption that is paused with less than the concealed portion
  left, and then decrypted, begins with a chunk inside that portion.  The loop that conceals
  (`src/Format/InPlace.c:1619`) counts from the start of the chunk and not of the file system,
  so it inverts sectors behind the portion, and the end of the decryption does not invert them
  back.  It takes a partition whose data area modulo 2 MB is less than 8 KB.  With such a size
  `CleanRunsLoseNothing` and `RecognisedMeansWhole` fail too (with `FsSize = 7` in
  `MC_InPlace.cfg`): the run `InPlace`, and the safety theorems but one, are about sizes without such a
  chunk (`AlignedSize`).  How far the concealment can reach is proved for every size (`ConcealmentIsNear`).

### Seen, and no property of a run

* A mount whose drive letter was taken meanwhile deletes a device that can already be opened,
  without waiting for its users (`src/Driver/Ntdriver.c:4277`); a control request that reaches it
  after its thread has quit is never answered.  `ClosedMeansQuiet` and `EveryRequestAnswered`
  except such a device (phase `withdrawn`).
* A setup that ends with a failed header update is not made up for by a later setup that
  finds nothing to do; `SuccessIsRecorded` and `CleanRestartLosesNothing` except this.
* Keys that are erased during a setup: the block in work is written back as junk
  (reason `cleared` in `lost`).
* Concealment is an XOR, so whoever repeats it must know whether it was done.  A power
  failure between the backup header and the concealment, or between the final
  concealment and the erasure of the header, makes a later run do the opposite
  (`src/Format/InPlace.c:680`, `:1697`).  `lost` records these sectors;
  `LossBounded` leaves the concealed portion out.
* A pause noticed after the last chunk of an encryption leaves a volume whose backup header
  says that it is encrypted, without a primary header.  The wizard that is open goes on; one
  that is opened later to resume refuses the volume, although it can still be decrypted.
* A failed write of a decryption is not undone.
* The path for misaligned reads (`src/Driver/EncryptedIoQueue.c:933`) reads at the original
  offset, although the queue may remap a part of the drive: on a remapped drive such a read
  returns other data.  `Queue_Hold`, where nothing is remapped, has these reads.
* A write of sector 0 of a V2 volume that is torn between data and tag makes the next mount
  take the volume for V1: nothing is verified and no tags are written, and when a later
  mount verifies again, what was written in between fails.  `src/Volume/V2SectorMacIo.h:41`
  says "Either way the affected sectors fail closed"; only the option to require tags
  (`--v2-require`) refuses such a mount.  This is why a sector written without tags does not
  become settled, and why `FailsClosed` and `OpensAuthenticated` have their conditions.
* Nothing is flushed between data and tags.  A power failure may keep a new tag over old
  data, the state the order of the two writes is meant to exclude
  (`src/Volume/V2SectorMacIo.h:46`).
* Two overlapping writes that the kernel sends at once may leave the data of one under the
  tag of the other, without any crash; a read between the two steps of a write is refused.
* Increments of the count of ignored tags are lost when threads race
  (`src/Volume/V2SectorMacIo.h:143`); only that it is not zero is certain.

### Bounds, and why they suffice

* Two IRPs: every interaction in the queue is between two requests (the order of the
  lists, overtaking in the read-ahead buffer, contention for a single item) or between
  one request and the hold or the stop.
* Two to four sectors: enough for one on each side of each boundary and one in
  between: the encrypted area, the remapped area, the protected area, a fragment.
  Only `Queue_Remap_Fault` has a remapped area; that remapped requests that succeed, and
  reads of substituted sectors that take the way of all other reads, are served correctly
  is the theorem `Refines`, which is about every choice of areas.
* One to three items and requests, one work item: the smallest pools make every wait
  happen; with more requests than fragment buffers a fragment waits for its buffer.
* `MaxHolds = 1`: a hold starts from, and returns to, an ordinary running queue.
  A hold that is undone and retried happens inside one call.
* Pool: two threads and four slots are the smallest ring the code allows (it never starts
  more threads than half the ring has slots); three calls of two fragments wrap around it.
  `MaxCalls` and `MaxStarts` cap otherwise unbounded counters.
* Header: two functions on two threads, one of them memory-hard, so that it may fail, and a
  second attempt.  The step back comes when all functions are queued; a function never
  waits for a free thread here, which is left to the theorem `WrongIsThorough`, about
  any number of functions and threads.
* Setup: two blocks of two sectors, with a header update that falls due only after the
  second, so that blocks exist before and after an update; sectors outside the
  configured area on both sides; one more start after an abort, for the other direction.
  A restart re-establishes the state of the header, so one crash with one other event
  covers a crash from every reachable state; `MaxEvents` caps the sum.
* In-place: chunks of 3 over a distance of 2, so that a write always overwrites part of
  its own source; 8 sectors leave a last chunk that is shorter; a header update every
  second chunk.  Two failures are needed to see an undo or a repeated header update fail.
* Volume: a race needs two threads, a torn write two sectors; `MaxIgnored` stops the count
  of ignored tags at 2, since the code tells only zero from the rest.  The layouts put the
  data at an offset, the protected sector between two others, and the end of the encrypted
  area inside and at the end of the partition; each layout has the requests that are
  interesting for it.  Power may fail, and the service die, any number of times.

* Device: two volumes, since nesting and the order of unmounting are about pairs; a request
  interferes with one mount or unmount of its volume, an abort with two mounts in turn, so
  `MaxCalls = 1` allows one of them.  The mutex serialises all other requests, of which there may be
  any number.

### Fairness

Weak fairness of each thread of the queue, of each worker routine, of an AddIrp that
has been entered and of a hold or stop that has been begun: these are threads the
scheduler runs, each of whose waits is for an event that stays set until consumed.
The file system need not issue IRPs and nobody need hold or stop the queue.  In the pool:
weak fairness of each thread, of a caller inside a call, and of a stop that was begun; the
reader of a header keeps running.  In the setup: weak fairness of the setup thread and of
the end of a request to abort, none of load, requests or power; `SetupEnds` assumes that
the drive is idle from some time on, because holds of a busy drive are refused, and
`AbortReturns` excepts the last hold of a decryption, which is retried without looking at
the abort flag (`src/Driver/DriveFilter.c:1888`).  In the volume
devices: weak fairness of the threads in the driver and of the holder of the mutex, and strong
fairness of the shutdown's next turn with the mutex, which is given to its waiters in order.
`InPlace` and `VolumeIo` have only safety properties in their runs and assume no fairness.
The runs say `CHECK_DEADLOCK FALSE` where idle threads wait forever
once no request is left, or where a partition may be left concealed and without a header, so
that there is nothing more to start; that nobody waits who should not is what the
liveness properties say.  In `Setup` deadlock is checked.

## 4. The proofs

`EncryptedIoQueue_proof` proves `TypeCorrect`: `Spec => []TypeOK` for every number of
IRPs, sectors, items, requests and work items, every set of operations and every choice of
areas that satisfies `QueueAssumption`.  The assumptions are what the code and its callers
guarantee: positive sizes, areas inside the disk, operations on a filter device that the
device below does not reject for lying beyond its end.

Types alone are not inductive.  A step may only put a request on a list if the thread has
one, and may only move the end of the encrypted area to a sector that exists.  `TypeOK`
therefore contains `MainOK`, `IoOK`, `CompOK` and `HoldOK`, which tie what a thread holds
to where it is: the main thread has an IRP from the moment it takes one off the list until
it waits again, the IO thread a request while it transfers it, the holder a block within
the disk while it writes it.  The proof has lemmas for the sets that operators return
(extents, cells, device operations, encrypted and decrypted buffers), one for each list
operation, and one lemma per action; the QED step combines them.

The module also proves seven safety properties of the queue under the same assumptions, each
for every value of the constants:

* `CounterExact`: `OutstandingIoCount` is exact (`CountIsOutstanding`);
* `FragmentsWithinIrp`: no fragment outlives its IRP (`NoFragmentOutlivesIrp`);
* `HoldIsExclusive`: a granted hold excludes every transfer (`HoldExclusive`);
* `StopIsDrained`: a stop finds nothing left to do (`StopDrains`);
* `BufferHasOneOwner`: a fragment buffer has one owner (`FragmentOwnership`);
* `ProtectedIsIntact`: no protected sector is changed (`ProtectedIntact`);
* `DenialIsFinal`: after a denied write none issued later succeeds (`NoWriteAfterTrigger`, a
  temporal property).

None of them is inductive.  The first four share an argument.  `WorkCount` decrements the counter for an IRP without looking
whether it is still counted: the counter is exact only because an IRP gets one completion
work item.  It gets only one because one place is responsible for answering it, and that
is the invariant `Responsible`:

* a queued IRP is on the main list or with the main thread, once (`MainQueueOK`);
* an admitted IRP is with the main thread until that has queued its last fragment, and
  until then no fragment of it is marked last (`MainHasIrp`);
* fragments pass the two lists and the two threads in order, so that the one marked last
  has no other behind it (`FragmentOrder`); the IO thread completes only writes and
  flushes, so it never overtakes a read in the completion thread (`FragmentKind`);
* whoever has the last fragment thus has the only one, and hands the IRP to a work item,
  which is the first to uncount it (`NoFragmentOutlivesIrp`, `WorkerOK`).

`HoldInv` and `StopInv` add what the two waiting threads know.  A hold is granted only if
the counter is zero *after* `Suspended` was set, so by the exact counter nothing is
admitted or read ahead then; the main thread cannot pass `Suspended` because the wakeup
`QueueResumedEvent` was cleared before (`HoldClear` before `HoldSuspend`).  A stop sets
`StopPending` before it looks at the counter, so that an IRP counted later is refused, and
with the counter at zero nothing is queued.  `Inv` is the conjunction of `Responsible`,
`CountIsOutstanding`, `HoldInv` and `StopInv`; one lemma per action (or group of actions
that leave the same parts alone) shows that it is preserved, from frame lemmas that say
what of it survives a step that moves no fragment, admits no IRP, or does not touch the
counter.  The proof is about the real actions, so it holds with fragment buffers that run
out, device faults, cancellation, misaligned and denied requests, read-ahead, holds that
are undone, and a stop during a hold.

The other three have invariants of their own, preserved by steps from states of `Inv`.
`BufferInv` follows a fragment buffer from the main thread through the list to the IO thread: requests
on the list have different buffers, none of them free, and a flush has none, so that what the IO
thread releases is its own.  A buffer is freed exactly once because the thread that transfers the
request is its only owner.  `WriteInv` carries the comparison with the protected area from the place
where the main thread makes it to the one where the IO thread writes: every write request
on the list, and every cut the main thread is about to make, avoids the protected area and the
region that reads replace, wherever the remapping puts it (`LayersKeepWriter`); and the thread that
re-encrypts a block writes back the plaintext it read.  `DenialIsFinal` is about two
moments: `Doomed(i)` says, from the denial on, that IRP `i` waits for the main thread, which will deny
it, or has its error; a write that was decided before the denial was issued before it.

`EncryptedIoQueue_refinement` proves that the queue implements `BlockDevice` under the mapping of
section 2, and what follows from it for a single IRP:

* `Refines`: `WholeOperations => (Spec => ImplementsBlockDevice)`;
* `SuccessIsTransfer`: `WholeOperations => (Spec => []SuccessMeansTransferred)`.

`WholeOperations` is about the constants and concerns only a remapped area; where nothing is
remapped (`RemapOffset = 0`: every volume, and every drive without a hidden operating system) it is
true.  With a remapped area it demands of the operations of the file system that none which the
device may fail crosses a bound of the area, and that no misaligned read touches the area.  Both
are conditions the code does not ensure, and both are needed: `Queue_Remap_Fault` violates
`SuccessMeansTransferred` with a split operation of which only the last part
succeeds, and a misaligned read is served at its original offset
(`src/Driver/EncryptedIoQueue.c:955`).  The constants of `Queue_Hold` and
`Queue_Volume` satisfy it, those of `Queue_Remap_Fault` do not.

The proof has one lemma per action of the queue that says which step of the device it is: the first
transfer of a sector to or from the disk is `Transfer`, setting an error `Fail`, the work item
that completes the IRP `Succeed`, `EncryptedIoQueueAddIrp` is `Issue`, and everything else changes nothing
the issuer sees.  A write transfers in the IO thread, a misaligned read
in the main thread.  Any other read transfers in the IO thread too, although the buffer then holds
ciphertext, since the mapping removes the layer of what waits for the completion thread; the decryption
is invisible.  So is the re-encryption of a block under a hold, because disk and area change
together.  Which step it is, is known from four invariants, each preserved by the steps from states of
those before it:

* `PathInv`: the requests under way of one IRP are disjoint, lie within it, and their encrypted part is
  what the encrypted area has of them (`CutInv` for the request that is being cut).  This is where
  bounds taken by `GetIntersection` before a hold would be stale: the area moves only
  while no request is under way (`HoldExclusive`);
* `StoreInv`: what was read ahead equals the disk (`AheadOK`), so that a read served from it reads the
  disk; the buffer of a queued write holds its data, with one layer exactly where the area wants
  one (`FilledInv`); the block the holder is about to write back is the one on the disk (`BlockOK`);
* `TodoInv`: what an IRP has yet to transfer is what the main thread has yet to cut and what
  waits for the IO thread, nothing once it is answered; so success means that all was transferred;
* `PendingInv`: what waits to be decrypted was read from the disk and is not left over from
  before, so that removing a layer in the mapping is what the decryption will do.

`SuccessIsTransfer` is read off the abstract device: its content and what reads got from it
are plaintext of the right sector (`ServedInv`), which carries over to the IRPs.

`InPlace_proof` proves `TypeCorrect` of the wizard, for every size of file system, chunk,
distance, concealed portion and header interval that satisfies `SizesAssumption` (which
holds of the constants of the code).  That a chunk in RAM lies inside the partition, and that
`area` stays in range when it is added or subtracted, needs to know that there is something
left to transform when a chunk is read: that is `Stepping`.

The module also proves five properties for every such size and for any number of failures,
under the assumption `AlignedSize`, that no boundary of chunks lies inside the concealed
portion, which the code does not check (`InPlace_Unaligned` shows what happens without it), and
one without that assumption:

* `NothingLost` (`CleanRunsLoseNothing`): without a failure nothing is ever lost;
* `RecognisedIsWhole` (`RecognisedMeansWhole`), `PrimaryIsWhole` (`PrimaryMeansWhole`);
* `LossIsBounded` (`LossBounded`) and `FaultIsUndone` (`EncryptionUndoesFault`), about the step that ends a run;
* `ConcealmentIsNear`, on every size: the loop that conceals from the start of a chunk reaches, behind the
  portion, fewer sectors than the portion has.

The inductive invariant `Inv` says at each step of the thread where every sector is that is
not lost (`DataInv`): by the backup header while nothing runs, by `area` between two chunks,
and during a write by the buffer for the sectors that are moved and by `area` for all
others.  It is about single sectors, so that a failure takes away only those that become
`lost`.  `ConcealInv` says that Windows cannot recognise the file system while there is a backup
header and nothing was lost, `PrimaryInv` what a primary header implies, including that it
is gone from the first chunk of a decryption on.  `Bounds` says that the area is a whole
number of chunks away from one of the two ends; with `AlignedSize` it follows that the
concealed portion is never cut, which is what `Decrypted` needs to conceal exactly it.  `ConcealmentIsNear` needs none of this: `HiddenInv`
follows each concealed sector, which carries its mark through encryption and decryption, and says of the
place it has in the clear that it lies before `Near`, the first place no loop of a chunk can reach.

What a failure costs needs two more invariants, which are preserved by the steps from states of
`Inv`.  `Trailing` says that `since` is the distance between the area in the header and the area
in RAM, that it is below `Interval` when a chunk begins, and where sectors can be missing for
somebody who goes by the one or the other (`Behind`): in an interval next to the end of the
area (`Gap`), as long as what was moved since plus the chunk in progress, less `Offset`, because the
last `Offset` sectors that moved still stand at their old place.  A run that ends loses what is in that
interval, whose size is `LossBounded`.  `Mendable` says what is left to repair one fault: the area
in RAM differs from the header only while `dirty` is set; the buffer holds the moved sectors
when a write is undone; and when the closing sequence begins after at most one fault,
everything is where the area in RAM says, so that writing the header again is enough, and a second fault is
needed to prevent that.

`SystemEncryption_proof` proves five properties of the setup, for every drive, configured
area, block size, threshold and number of failures, crashes and requests that satisfy
`SetupAssumption`:

* `TypeCorrect` (`TypeOK`): the block in progress lies within the configured area;
* `DataIsSeen` (`SeesItsData`): outside a hold every sector that was not given up is as
  the area says;
* `ShutdownIsClean` (`CleanRestartLosesNothing`) and `SuccessIsWritten` (`SuccessIsRecorded`);
* `CrashLossIsBounded` (`CrashLossBounded`).

None is inductive.  `Inv` has four groups of facts.  `Positions` ties the thread's offset to
`EncryptedAreaEnd`: between two blocks it is the first sector behind the area, and a block lies
directly behind the area (encryption) or at its end (decryption); therefore the block is
entirely on one side of the boundary, and `MoveEnd` moves exactly it over.  `Data` says of each
sector that is not given up that it is as the area says, or lies in the block in progress;
then the buffer holds it as it is going to be, or, once a write failed, as it was, or is junk
because the keys were erased, in which case writing it gives it up.  `Recorded` says when the header describes
the area: whenever nothing is marked as to be saved, and at the end of the thread, unless the
last save failed; it also follows a decryption from the last block through the last hold to
the dismount, because the header is gone before the drive is dismounted.  `Control` says that
a shutdown waits for the thread.  `ShutdownIsClean` follows at `PowerOff`: the thread has
ended, so header, area and disk agree.

`CrashLossIsBounded` needs to know how far the header is behind, which is the second invariant, `Lagging`:
as long as no save failed the area of the drive and the area of the header, which begin at the
same sector, end within `UpdateThreshold + BlockSize - 1` sectors of each other (`Near`); while blocks are
transformed they differ by at most `since`, which is below the threshold when a block begins and one
block more when the header is saved.  What a power failure takes lies in one interval,
between the two ends, or is part of the block in progress, which lies directly at the end of the area,
and only a power failure gives `lost` the reason `crash` (`OnlyCrash`); the theorem adds up
the intervals (`CrashRange`, `CrashCost`).

`VolumeIo_proof` proves seven properties of a mounted volume, for every layout that satisfies
`LayoutsAssumption` (a partition of a system drive lies on the drive, a hidden volume in its host),
every number of threads and every set of requests:

* `TypeCorrect` (`TypeOK`): every request taken names sectors of the volume;
* `AcknowledgedIsIntact` (`SettledIntact`), `SettledIsReturned` (`SettledReads`);
* `BadTagRefuses` (`FailsClosed`), `IgnoredIsCounted` (`OverrideLeavesTrace`);
* `HiddenIsProtected` (`ProtectedIntact`), `MountFindsTags` (`OpensAuthenticated`).

A write takes two steps on the host file, data and tags, without a lock between them, so
two writes can leave the data of one and the tag of the other.  `Writers` says why a settled
sector is safe all the same: a sector stops being settled when a write of it begins, a writer settles only
sectors that it had to itself from begin to end, and of these its data is on the host before it
writes their tags.  `Guarded` says that a request that has passed the comparison with the
protected range is outside it, `Readers` that a bad tag stays bad until a write begins and that the
buffer of a read holds the data it is bad for.

That is the invariant `Inv`; what a read returns needs a second one, `Returns`, which is
preserved by the steps from states of `Inv`.  `Placed` says that a settled sector is encrypted
exactly if it lies in the encrypted area, but for a repaired first one, so that
`ReadSectors` decrypts what is encrypted; it holds because a volume that is not wholly encrypted is
mounted read-only (`Mount`).  `Calm` follows the sectors of a read that were settled when it
came: as long as no write of them begins the buffer holds their data and their tags fit it, so such a
read is neither refused nor counted.  `Counting` says that a thread about to count has recorded a
first sector or seen one recorded.  The units asked for are those copied by the arithmetic of `UnitOf`.

`VolumeDevice_proof` proves four properties of the volume devices, for any number of devices,
users, requests and callers:

* `TypeCorrect` (`TypeOK`), `ClosedIsQuiet` (`ClosedMeansQuiet`);
* `AbortsAuthorised` (`AbortsAreAuthorised`), `NestedFirst` (`NestedUnmountedFirst`).

`Shape` says what the phase of a device, the place of its thread and the place of the holder of
the mutex imply of each other: which device a mount or an unmount is at, and how far.
`RequestShape` says that a request in progress is with a device in the table.  `Quiet` is the
reason that a volume is closed quietly: a queue that was stopped stays empty, because requests look
at the phase before they enter it, and nobody takes the remove lock after the unmount has
seen it released.  `AbortShape` keeps with an aborter the number of the mount it was checked for; a
number is never given twice.  For nested volumes `Numbered` says that a host has a lower number than
the volumes in it, `Descending` that the bound of an unmount of all volumes only descends, and
`Nested` that what lies above the bound is gone already or may not be unmounted.

`EncryptionThreadPool_proof` proves three properties of the pool, for any number of threads, callers,
slots and data units:

* `TypeCorrect` (`TypeOK`);
* `UnitsOnce` (`WorkDone`): when DoWork returns every unit was transformed exactly once;
* `FragmentIsLive` (`FragmentOfLiveCall`): the slot a thread reads after giving it up is still that of
  a call that waits for it.

A thread gives up the slot of its fragment before it counts the fragment down, so that another
caller could fill the slot in between.  That it does not is `FragmentInv`: the slots are filled in
order, the slot of the first fragment stays taken until the call returns, and a fragment that is
not counted lies behind the first and before the position to be filled next, around the ring
(`After`).  To reach it again a caller would have to pass the first.  `CountInv` says that the counter in the first
slot is what is left to put into the ring and the number of uncounted fragments, `EventInv`
that only the one thread that counted down to zero sets the event, which is consumed before the
slot is used again.  `DataInv` says that the fragments not transformed yet are disjoint parts of the
data, that all other units before the end of the last fragment were transformed once and
none behind it; `Share` that what is left, with one unit more for the first fragments, adds up to the
units of the call.  `KeyInv` counts derivations in the same way, and is why nothing is in the
ring when the pool is stopped.

`ReadVolumeHeader_proof` proves three properties of the header reader, for any set of functions,
any pool and any other callers that satisfy `HeaderAssumption`:

* `HeaderTypeCorrect` (`HeaderTypeOK`);
* `WrongIsThorough` (`WrongMeansAllTried`): "wrong password" is said only after every function was
  tried with a complete key or could not be derived;
* `OthersAreServed` (`WorkDone` again): the reader does not disturb the calls of others.

The invariant of the pool is kept and not proved again: every step of the reader's system is one
of the pool (`PoolStep`, `DerivationAsked`), or leaves the pool alone, or resets the counter of
derivations, which is where the two could come apart.  `UseInv` says who uses what: the counter
and the events are waited for only by the reader, and when `RetryV1` resets the counter nothing is
counted.  `AbortInv` says that a key is cut short only after the user asked to abort, and that the
reader looks at the request before it concludes anything from such a key.  `TriedInv` follows
the functions: those before `enqPkcs5Prf` are under way in an item of this attempt, tried or skipped; with
no item left they were all tried.

Every invariant and every action property that a passing run checks is thus a theorem.
Model-checked only are the liveness properties, since liveness under fairness is out of the
provers' reach: `StopTerminates`, `EveryIrpAnswered`, `EveryCallReturns`, `StopReturns`, `HeaderIsRead`,
`AbortReturns`, `SetupEnds` and `EveryRequestAnswered`.

## 5. Not modelled, and why

* In the queue: a start that fails, `TotalBytesRead` and `TotalBytesWritten` (statistics),
  temporary buffers' allocation failures.  A device fault stands for every reason a transfer fails.
* Requests beyond the end of a filter device: the device below rejects them; IRPs of a
  filter device are assumed to lie within it.
* In the pool: a start that fails half way, processor groups,
  `EncryptionThreadPoolBeginReadVolumeHeaderFinalization` (no longer called).  A stop begins
  only when no caller is inside and no derivation outstanding, as on unloading the driver.
* In the header reader: fields, ciphers and modes of the header: a function opens it or does
  not.  The reader is not followed past a use of freed memory (`RetryV1` waits for lingering
  derivations).  The skipping of functions in boot mode is left to the constant `PrfOrder`.
* In the system encryption: the wipe of a decoy system, the requests of the boot loader and
  the crash dump path; the setup of a hidden operating system (a remapped area is covered by
  the queue).
* In place: the checks, the resizing of the file system and the random data before the
  backup header is written; two wizards at once; several unreadable sectors in one
  chunk; a torn write of a 512-byte header; the list of volumes in the configuration file.
* In the volume devices: failures of memory, `VC_IOCTL_EMERGENCY_CLEAR_ALL_KEYS` (it runs under the
  mutex), requests for information, the use of the mutex by the setup thread, `TCUnloadDriver`.
* In the volume: the header and its decryption, the password cache, keyslots; other writers
  of the host file, a host file shorter than the volume, failures of memory; the population
  of the tag table when a volume is created.  A read or write call takes effect at once, so a
  torn single call is one that fails.
* In the FUSE service: the control file, the auxiliary device, directories, access checks.
* Keyslots (`src/Common/KeyslotStore.c`): calls of one thread; their hazards are the writes
  that fail in between, and the attempt counter, whose write is not looked at.  Not modelled
  for want of time.
* Parts with status `not_modelled` in `PROJECT.json`, each with its reason.

## 6. Plan

1. *Done:* `BlockDevice`, `EncryptedIoQueue`, the proofs of its type correctness and of
   its counter, hold, stop, fragments, buffers and denied writes, and that it implements `BlockDevice`.
2. *Done:* `EncryptionThreadPool`, `ReadVolumeHeader`, and the proofs of the safety of both.
3. *Done:* `SystemEncryption`: the setup thread whole, with crash and resume from the header,
   over the hold of the queue, and the proofs of its safety.
4. *Done:* `InPlace`, and the proofs of its safety.
5. *Done:* `VolumeIo`: the portable volume under concurrent FUSE requests, and the proofs of its
   safety; `VolumeDevice`: the life of a volume in the driver, and the proofs of its safety.
6. *Left:* `KeyslotStore`: slots with policy, attempt counters, rotation, torn writes.  Property: a
   crash never loses every way to open the volume.
7. *Left:* core service and password caches, if they prove worth it.
