-------------------------- MODULE EncryptedIoQueue --------------------------
(***************************************************************************)
(* The queue of the Windows driver through which every read, write and     *)
(* flush of an encrypted drive (filter device) or volume passes            *)
(* (Driver/EncryptedIoQueue.c).  Dispatch routines add IRPs; the main      *)
(* thread admits them, cuts them into fragments and encrypts what is       *)
(* written; the I/O thread moves fragments to and from the device and      *)
(* reads ahead; the completion thread decrypts what was read; system       *)
(* worker threads complete the IRPs.  Another thread may hold the queue    *)
(* idle to re-encrypt a block of the disk in place, and the queue may be   *)
(* stopped.  Offsets and lengths count encryption data units ("sectors").  *)
(*                                                                         *)
(* A definition Name_Defect is a faulty variant of the definition Name     *)
(* below it.  The specification does not use it; it is there to check that *)
(* a property fails when the code has that defect.                         *)
(***************************************************************************)
EXTENDS Integers, Sequences, FiniteSets

CONSTANTS
    Irps,            \* the I/O requests that may be issued, once each
    Ops,             \* what an IRP may ask: [kind, off, len, aligned] records
    DiskLength,      \* sectors of the device that IRPs address
    FragmentSize,    \* queue->FragmentSize, in sectors
    ItemCount,       \* preallocated EncryptedIoQueueItems
    RequestCount,    \* preallocated EncryptedIoRequests
    MaxWorkItems,    \* preallocated completion work items
    IsFilterDevice,  \* system drive filter (TRUE) or mounted volume (FALSE)
    InitialStart,    \* EncryptedAreaStart and EncryptedAreaEnd when the queue
    InitialEnd,      \* starts: both -1 if nothing is encrypted
    RemapOffset,     \* distance to the remapped encrypted area, 0 without RemapEncryptedArea
    ProtectedArea,   \* hidden volume (volume) or boot header (filter): not writable
    SecRegion,       \* sectors substituted on reads and not writable (filter)
    Cancellable,     \* IRPs whose issuer may cancel them
    FaultyOps,       \* operations for which the device and the mapping of buffers may fail
    MaxHolds,        \* how many times the queue is held at most
    CanStop          \* whether the queue may be stopped

Sectors == 0 .. (DiskLength - 1)
PhysicalSectors == 0 .. (DiskLength + RemapOffset - 1)
FragmentBuffers == {"A", "B"}
Buffers == FragmentBuffers \cup {"none"}    \* "none": request->Data of a flush

ASSUME QueueAssumption ==
    /\ DiskLength \in Nat \ {0} /\ FragmentSize \in Nat \ {0}
    /\ ItemCount \in Nat \ {0} /\ RequestCount \in Nat \ {0} /\ MaxWorkItems \in Nat \ {0}
    /\ RemapOffset \in Nat /\ MaxHolds \in Nat
    /\ IsFilterDevice \in BOOLEAN /\ FaultyOps \subseteq Ops /\ CanStop \in BOOLEAN
    /\ \/ InitialStart \in Sectors /\ InitialEnd \in InitialStart .. (DiskLength - 1)
       \/ InitialStart = -1 /\ InitialEnd = -1
    /\ ProtectedArea \subseteq Sectors /\ SecRegion \subseteq Sectors
    /\ SecRegion # {} => IsFilterDevice
    /\ RemapOffset > 0 => IsFilterDevice /\ RemapOffset >= DiskLength
    /\ \A op \in Ops : /\ op \in [kind : {"read", "write", "flush", "other"}, off : Nat, len : Nat, aligned : BOOLEAN]
                       /\ op.kind \in {"flush", "other"} => op.off = 0 /\ op.len = 0 /\ op.aligned
                       /\ IsFilterDevice => op.off + op.len <= DiskLength
    /\ IsFiniteSet(Irps) /\ Irps \cap {"none", "garbage", "ciphertext"} = {}

VARIABLES
    irp,     \* [Irps -> record]: each IRP with its EncryptedIoQueueItem and data buffer
    queue,   \* the control words, counters and events of the EncryptedIoQueue
    list,    \* its three request lists and their NotEmpty events
    pool,    \* its buffer pool and completion work items
    buffer,  \* its two fragment buffers and the read-ahead buffer
    store,   \* the disk, the extent of the encrypted area, the protection latch
    main, io, comp,   \* the three threads of the queue
    worker,  \* [Irps -> how far the IRP's completion work item is]
    hold,    \* the thread that holds the queue
    stop     \* the thread that stops the queue

vars == <<irp, queue, list, pool, buffer, store, main, io, comp, worker, hold, stop>>

----------------------------------------------------------------------------
(* Data: a sector-sized cell names who wrote it, for which sector, and     *)
(* under how many layers of encryption it is; Garbage is anything else.    *)

Cell(w, s, n) == [writer |-> w, sector |-> s, layers |-> n]
Garbage == Cell("garbage", 0, 0)
AddLayers(c, n) == IF c = Garbage THEN Garbage ELSE [c EXCEPT !.layers = @ + n]
Clear == [s \in Sectors |-> Garbage]

(* A request: one fragment of an IRP, with the part of it that is encrypted *)
NoRequest == [irp |-> "none", off |-> 0, len |-> 0, buf |-> "none", encOff |-> 0, encLen |-> 0, last |-> FALSE]
FlushRequest(i) == [irp |-> i, off |-> 0, len |-> 0, buf |-> "none", encOff |-> 0, encLen |-> 0, last |-> TRUE]
Extent(r) == Sectors \cap (r.off .. (r.off + r.len - 1))
Enc(r) == (r.off + r.encOff) .. (r.off + r.encOff + r.encLen - 1)

(* GetIntersection of a fragment with the encrypted area, as EncryptedOffset and EncryptedLength *)
Intersection(off, len, start, end) ==
    LET first == IF off >= start THEN off ELSE start
        last == IF off + len - 1 <= end THEN off + len - 1 ELSE end
    IN IF start = -1 \/ end = -1 \/ first > last THEN [off |-> 0, len |-> 0]
       ELSE [off |-> first - off, len |-> last + 1 - first]

(* The device operations of a request: one, or up to three subfragments of *)
(* it (k = 1, 2, 3) if a part of it is encrypted and remapped.  Piece k    *)
(* has len sectors from sector off, which are at sector at of the device.  *)
Remapped(r) == RemapOffset > 0 /\ r.encLen > 0
Piece(r, k) ==
    LET enc == r.off + r.encOff IN
    IF ~Remapped(r) THEN [off |-> r.off, at |-> r.off, len |-> IF k = 1 THEN r.len ELSE 0]
    ELSE IF k = 1 THEN [off |-> r.off, at |-> r.off, len |-> r.encOff]
    ELSE IF k = 2 THEN [off |-> enc, at |-> enc + RemapOffset, len |-> r.encLen]
    ELSE [off |-> enc + r.encLen, at |-> enc + r.encLen, len |-> r.len - r.encOff - r.encLen]
Pieces(r) == {k \in 1 .. 3 : Piece(r, k).len > 0}
LastPiece(r) == Piece(r, IF 3 \in Pieces(r) THEN 3 ELSE IF 2 \in Pieces(r) THEN 2 ELSE 1)
PieceSectors(r, k) == Piece(r, k).off .. (Piece(r, k).off + Piece(r, k).len - 1)
DeviceSector(r, s) == IF Remapped(r) /\ s \in Enc(r) THEN s + RemapOffset ELSE s
Outcomes(i) == IF irp[i].op \in FaultyOps THEN BOOLEAN ELSE {TRUE}

Area == IF store.start = -1 \/ store.end = -1 THEN {} ELSE store.start .. store.end
Location(s) == IF s \in Area THEN s + RemapOffset ELSE s

----------------------------------------------------------------------------
Unissued == [stage |-> "unissued", op |-> [kind |-> "none", off |-> 0, len |-> 0, aligned |-> TRUE],
             status |-> "ok", todo |-> {}, data |-> Clear]

(* EncryptedIoQueueStart *)
Init ==
    /\ irp = [i \in Irps |-> Unissued]
    /\ queue = [OutstandingIoCount |-> 0, SuspendPending |-> FALSE, Suspended |-> FALSE,
                StopPending |-> FALSE, ThreadExitRequested |-> FALSE,
                NoOutstandingIoEvent |-> FALSE, QueueResumedEvent |-> FALSE]
    /\ list = [main |-> <<>>, io |-> <<>>, comp |-> <<>>, ioPending |-> 0,
               notEmpty |-> [t \in {"main", "io", "comp"} |-> FALSE]]
    /\ pool = [items |-> ItemCount, requests |-> RequestCount, freeEvent |-> FALSE,
               workItems |-> MaxWorkItems, active |-> 0]
    /\ buffer = [free |-> [b \in FragmentBuffers |-> TRUE], cells |-> [b \in Buffers |-> Clear],
                 aheadValid |-> FALSE, aheadOff |-> 0, ahead |-> <<>>]
    /\ store = [disk |-> [p \in PhysicalSectors |->
                            IF InitialStart # -1 /\ p - RemapOffset \in InitialStart .. InitialEnd THEN Cell("format", p - RemapOffset, 1)
                                                               ELSE Cell("format", p, 0)],
                start |-> InitialStart, end |-> InitialEnd, triggered |-> FALSE]
    /\ main = [pc |-> "wait", irp |-> "none", off |-> 0, buf |-> "A", req |-> NoRequest]
    /\ io = [pc |-> "wait", req |-> NoRequest]
    /\ comp = [pc |-> "wait", req |-> NoRequest]
    /\ worker = [i \in Irps |-> "none"]
    /\ hold = [pc |-> "idle", left |-> MaxHolds, cell |-> Garbage]
    /\ stop = "running"

----------------------------------------------------------------------------
(* Steps shared by several handlers *)

(* DecrementOutstandingIoCount is two steps: the interlocked decrement and, *)
(* if it reached zero, the test of the pending flags and the signal         *)
DecrementOutstandingIoCount == queue' = [queue EXCEPT !.OutstandingIoCount = @ - 1]
ReachesZero == queue.OutstandingIoCount = 1
SignalNoOutstandingIo_HoldOnly ==
    queue' = [queue EXCEPT !.NoOutstandingIoEvent = @ \/ queue.SuspendPending]
SignalNoOutstandingIo ==
    queue' = [queue EXCEPT !.NoOutstandingIoEvent = @ \/ queue.SuspendPending \/ queue.StopPending]

(* GetPoolBuffer takes a free buffer; ReleasePoolBuffer returns it and sets PoolBufferFreeEvent *)
TakeItem == pool.items > 0 /\ pool' = [pool EXCEPT !.items = @ - 1]
TakeRequest == pool.requests > 0 /\ pool' = [pool EXCEPT !.requests = @ - 1]
ReleaseRequest_NoWakeup == pool' = [pool EXCEPT !.requests = @ + 1]
ReleaseRequest == pool' = [pool EXCEPT !.requests = @ + 1, !.freeEvent = TRUE]

(* QueueIrpCompletionFromItem: waits on WorkItemSemaphore, cannot fail *)
QueueIrpCompletion(i) ==
    /\ pool.workItems > 0
    /\ pool' = [pool EXCEPT !.workItems = @ - 1, !.active = @ + 1]
    /\ worker' = [worker EXCEPT ![i] = "start"]

EnqueueIo(r) == list' = [list EXCEPT !.io = Append(@, r), !.notEmpty["io"] = TRUE]

(* ReleaseFragmentBuffer; what the buffer held is meaningless from here on *)
ReleaseFragment(b) == [buffer EXCEPT !.free[b] = TRUE, !.cells[b] = Clear]

----------------------------------------------------------------------------
(* EncryptedIoQueueAddIrp, called by a dispatch routine in any thread *)

AddIrpCount(i) ==
    /\ irp[i].stage = "unissued"
    /\ \E op \in Ops :
          irp' = [irp EXCEPT ![i].stage = "counted", ![i].op = op,
                             ![i].todo = Sectors \cap (op.off .. (op.off + op.len - (IF op.aligned THEN 1 ELSE 0)))]
    /\ queue' = [queue EXCEPT !.OutstandingIoCount = @ + 1]
    /\ UNCHANGED <<list, pool, buffer, store, main, io, comp, worker, hold, stop>>

AddIrpEnqueue_Unchecked(i) ==
    /\ irp[i].stage = "counted"
    /\ irp' = [irp EXCEPT ![i].stage = "queued"]
    /\ list' = [list EXCEPT !.main = Append(@, i), !.notEmpty["main"] = TRUE]
    /\ UNCHANGED <<queue, pool, buffer, store, main, io, comp, worker, hold, stop>>

(* StopPending is tested after the IRP has been counted, and then a drive  *)
(* asks for the remove lock.  The lock is refused only once the removal of *)
(* the device has begun, which StopBegin takes in one step with setting    *)
(* StopPending; the IRP is then undone in the same way.                    *)
AddIrpEnqueue(i) ==
    /\ irp[i].stage = "counted" /\ ~queue.StopPending
    /\ irp' = [irp EXCEPT ![i].stage = "queued"]
    /\ list' = [list EXCEPT !.main = Append(@, i), !.notEmpty["main"] = TRUE]
    /\ UNCHANGED <<queue, pool, buffer, store, main, io, comp, worker, hold, stop>>

AddIrpRefuse(i) ==
    /\ irp[i].stage = "counted" /\ queue.StopPending
    /\ DecrementOutstandingIoCount
    /\ irp' = [irp EXCEPT ![i].stage = IF ReachesZero THEN "refusing" ELSE "rejected", ![i].status = "failed"]
    /\ UNCHANGED <<list, pool, buffer, store, main, io, comp, worker, hold, stop>>

AddIrpRefuseSignal(i) ==
    /\ irp[i].stage = "refusing"
    /\ irp' = [irp EXCEPT ![i].stage = "rejected"]
    /\ SignalNoOutstandingIo
    /\ UNCHANGED <<list, pool, buffer, store, main, io, comp, worker, hold, stop>>

AddIrp(i) == AddIrpCount(i) \/ AddIrpEnqueue(i) \/ AddIrpRefuse(i) \/ AddIrpRefuseSignal(i)

----------------------------------------------------------------------------
(* MainThreadProc *)

MainWait ==
    /\ main.pc = "wait" /\ list.notEmpty["main"]
    /\ list' = [list EXCEPT !.notEmpty["main"] = FALSE]
    /\ main' = [main EXCEPT !.pc = "drain"]
    /\ UNCHANGED <<irp, queue, pool, buffer, store, io, comp, worker, hold, stop>>

(* The queue is found empty: back to the loop head, which tests ThreadExitRequested *)
MainIdle ==
    /\ main.pc = "drain" /\ list.main = <<>>
    /\ main' = [main EXCEPT !.pc = IF queue.ThreadExitRequested THEN "exited" ELSE "wait"]
    /\ UNCHANGED <<irp, queue, list, pool, buffer, store, io, comp, worker, hold, stop>>

MainDequeue ==
    /\ main.pc = "drain" /\ list.main # <<>>
    /\ list' = [list EXCEPT !.main = Tail(@)]
    /\ main' = [main EXCEPT !.pc = "suspendCheck", !.irp = Head(list.main)]
    /\ UNCHANGED <<irp, queue, pool, buffer, store, io, comp, worker, hold, stop>>

(* From here on the IRP is being processed *)
Admit ==
    /\ irp' = [irp EXCEPT ![main.irp].stage = "active"]
    /\ main' = [main EXCEPT !.pc = "getItem"]

MainSuspendCheck_Ignores ==
    /\ main.pc = "suspendCheck"
    /\ Admit
    /\ UNCHANGED <<queue, list, pool, buffer, store, io, comp, worker, hold, stop>>

MainSuspendCheck ==
    /\ main.pc = "suspendCheck"
    /\ IF queue.Suspended THEN main' = [main EXCEPT !.pc = "suspended"] /\ UNCHANGED irp ELSE Admit
    /\ UNCHANGED <<queue, list, pool, buffer, store, io, comp, worker, hold, stop>>

MainResumed ==
    /\ main.pc = "suspended" /\ queue.QueueResumedEvent
    /\ queue' = [queue EXCEPT !.QueueResumedEvent = FALSE]
    /\ Admit
    /\ UNCHANGED <<list, pool, buffer, store, io, comp, worker, hold, stop>>

MainGetItem ==
    /\ main.pc = "getItem"
    /\ TakeItem
    /\ main' = [main EXCEPT !.pc = "dispatch"]
    /\ UNCHANGED <<irp, queue, list, buffer, store, io, comp, worker, hold, stop>>

(* GetPoolBuffer finds no free item or request: wait for a release and look again *)
MainPoolEmpty ==
    /\ \/ main.pc = "getItem" /\ pool.items = 0 /\ main' = [main EXCEPT !.pc = "itemWait"]
       \/ main.pc = "getRequest" /\ pool.requests = 0 /\ main' = [main EXCEPT !.pc = "requestWait"]
    /\ UNCHANGED <<irp, queue, list, pool, buffer, store, io, comp, worker, hold, stop>>

MainPoolWait ==
    /\ pool.freeEvent /\ pool' = [pool EXCEPT !.freeEvent = FALSE]
    /\ \/ main.pc = "itemWait" /\ main' = [main EXCEPT !.pc = "getItem"]
       \/ main.pc = "requestWait" /\ main' = [main EXCEPT !.pc = "getRequest"]
    /\ UNCHANGED <<irp, queue, list, buffer, store, io, comp, worker, hold, stop>>

(* What the dispatch decides from the IRP's parameters *)
Misaligned(op) == IsFilterDevice /\ op.kind = "read" /\ op.len > 0 /\ ~op.aligned
Malformed(op) ==
    \/ op.kind = "other"
    \/ /\ op.kind \in {"read", "write"} /\ ~Misaligned(op)
       /\ op.len = 0 \/ ~op.aligned \/ (~IsFilterDevice /\ op.off + op.len > DiskLength)
Denied_OffByOne(op) ==
    /\ op.kind = "write" /\ ~Malformed(op)
    /\ store.triggered \/ (op.off .. (op.off + op.len - 2)) \cap (ProtectedArea \cup SecRegion) # {}
Denied_Once(op) ==
    /\ op.kind = "write" /\ ~Malformed(op)
    /\ (op.off .. (op.off + op.len - 1)) \cap (ProtectedArea \cup SecRegion) # {}
Denied(op) ==
    /\ op.kind = "write" /\ ~Malformed(op)
    /\ store.triggered \/ (op.off .. (op.off + op.len - 1)) \cap (ProtectedArea \cup SecRegion) # {}
Transfers(op) == op.kind \in {"read", "write"} /\ ~Misaligned(op) /\ ~Malformed(op) /\ ~Denied(op)

MainFinish(status) ==
    /\ irp' = [irp EXCEPT ![main.irp].status = status]
    /\ main' = [main EXCEPT !.pc = "complete"]

(* Cancelled, invalid, or its buffer cannot be mapped *)
MainReject ==
    /\ main.pc = "dispatch"
    /\ LET op == irp[main.irp].op IN
       \/ main.irp \in Cancellable /\ MainFinish("cancelled")
       \/ Malformed(op) /\ MainFinish("invalid")
       \/ op \in FaultyOps /\ (Transfers(op) \/ Misaligned(op)) /\ MainFinish("failed")
    /\ UNCHANGED <<queue, list, pool, buffer, store, io, comp, worker, hold, stop>>

(* A write into the protected area; on a volume it also denies all later writes *)
MainDeny ==
    /\ main.pc = "dispatch"
    /\ Denied(irp[main.irp].op)
    /\ store' = [store EXCEPT !.triggered = ~IsFilterDevice]
    /\ MainFinish(IF IsFilterDevice THEN "protected" ELSE "invalid")
    /\ UNCHANGED <<queue, list, pool, buffer, io, comp, worker, hold, stop>>

(* The workaround for misaligned reads: the main thread itself reads and   *)
(* decrypts the sectors the range touches, bypassing the other threads     *)
MainMisaligned ==
    /\ main.pc = "dispatch"
    /\ Misaligned(irp[main.irp].op)
    /\ irp' = [irp EXCEPT ![main.irp].todo = {},
                          ![main.irp].data = [s \in Sectors |->
                             IF s \notin irp[main.irp].todo THEN @[s]
                             ELSE IF s \in SecRegion THEN Cell("region", s, 0)
                             ELSE AddLayers(store.disk[s], IF s \in Area THEN -1 ELSE 0)]]
    /\ main' = [main EXCEPT !.pc = "complete"]
    /\ UNCHANGED <<queue, list, pool, buffer, store, io, comp, worker, hold, stop>>

MainFlush ==
    /\ main.pc = "dispatch" /\ irp[main.irp].op.kind = "flush"
    /\ list' = [list EXCEPT !.ioPending = @ + 1]
    /\ main' = [main EXCEPT !.pc = "getRequest"]
    /\ UNCHANGED <<irp, queue, pool, buffer, store, io, comp, worker, hold, stop>>

MainComplete ==
    /\ main.pc = "complete"
    /\ QueueIrpCompletion(main.irp)
    /\ main' = [main EXCEPT !.pc = "drain", !.irp = "none"]
    /\ UNCHANGED <<irp, queue, list, buffer, store, io, comp, hold, stop>>

(* The next turn of the fragment loop, which alternates between the two buffers *)
MainFragment ==
    /\ \/ main.pc = "dispatch" /\ Transfers(irp[main.irp].op)
       \/ main.pc = "fragment"
    /\ main' = [main EXCEPT !.pc = "getRequest", !.buf = IF @ = "A" THEN "B" ELSE "A",
                            !.off = IF main.pc = "dispatch" THEN irp[main.irp].op.off ELSE @]
    /\ list' = [list EXCEPT !.ioPending = @ + 1]
    /\ UNCHANGED <<irp, queue, pool, buffer, store, io, comp, worker, hold, stop>>

(* The request of the next fragment; its encrypted part is computed here *)
NextRequest ==
    LET op == irp[main.irp].op
        remaining == op.off + op.len - main.off
        len == IF remaining <= FragmentSize THEN remaining ELSE FragmentSize
        enc == Intersection(main.off, len, store.start, store.end)
    IN [irp |-> main.irp, off |-> main.off, len |-> len, buf |-> main.buf,
        encOff |-> enc.off, encLen |-> enc.len, last |-> remaining <= FragmentSize]

MainGetRequest ==
    /\ main.pc = "getRequest"
    /\ TakeRequest
    /\ IF irp[main.irp].op.kind = "flush"
       THEN /\ EnqueueIo(FlushRequest(main.irp))
            /\ main' = [main EXCEPT !.pc = "drain", !.irp = "none"]
       ELSE /\ main' = [main EXCEPT !.pc = "acquire", !.req = NextRequest]
            /\ UNCHANGED list
    /\ UNCHANGED <<irp, queue, buffer, store, io, comp, worker, hold, stop>>

(* AcquireFragmentBuffer, fill and encrypt it, queue the request *)
FillAndQueue(r) ==
    /\ buffer' = [buffer EXCEPT !.free[r.buf] = FALSE,
                                !.cells[r.buf] = [s \in Sectors |->
                                   IF s \in Extent(r) /\ irp[r.irp].op.kind = "write"
                                   THEN Cell(r.irp, s, IF s \in Enc(r) THEN 1 ELSE 0) ELSE @[s]]]
    /\ EnqueueIo(r)
    /\ main' = IF r.last THEN [main EXCEPT !.pc = "drain", !.irp = "none", !.off = 0, !.req = NoRequest]
                         ELSE [main EXCEPT !.pc = "fragment", !.off = @ + FragmentSize, !.req = NoRequest]
    /\ UNCHANGED <<irp, queue, pool, store, io, comp, worker, hold, stop>>

MainAcquire_NoWait == main.pc = "acquire" /\ FillAndQueue(main.req)

MainAcquire == main.pc = "acquire" /\ buffer.free[main.req.buf] /\ FillAndQueue(main.req)

MainThreadProc ==
    \/ MainWait \/ MainIdle \/ MainDequeue \/ MainSuspendCheck \/ MainResumed \/ MainGetItem \/ MainPoolEmpty
    \/ MainPoolWait \/ MainReject \/ MainDeny \/ MainMisaligned \/ MainFlush \/ MainComplete
    \/ MainFragment \/ MainGetRequest \/ MainAcquire

----------------------------------------------------------------------------
(* IoThreadProc *)

IoWait ==
    /\ io.pc = "wait" /\ list.notEmpty["io"]
    /\ list' = [list EXCEPT !.notEmpty["io"] = FALSE]
    /\ io' = [io EXCEPT !.pc = IF queue.ThreadExitRequested THEN "exited" ELSE "drain"]
    /\ UNCHANGED <<irp, queue, pool, buffer, store, main, comp, worker, hold, stop>>

IoIdle ==
    /\ io.pc = "drain" /\ list.io = <<>>
    /\ io' = [io EXCEPT !.pc = IF queue.ThreadExitRequested THEN "exited" ELSE "wait"]
    /\ UNCHANGED <<irp, queue, list, pool, buffer, store, main, comp, worker, hold, stop>>

IoDequeue ==
    /\ io.pc = "drain" /\ list.io # <<>>
    /\ list' = [list EXCEPT !.io = Tail(@), !.ioPending = @ - 1]
    /\ io' = [pc |-> "io", req |-> Head(list.io)]
    /\ UNCHANGED <<irp, queue, pool, buffer, store, main, comp, worker, hold, stop>>

(* A flush reaches the host file; a filter device has none *)
IoFlush ==
    /\ io.pc = "io" /\ irp[io.req.irp].op.kind = "flush"
    /\ \E done \in Outcomes(io.req.irp) :
          irp' = [irp EXCEPT ![io.req.irp].status =
                     IF @ = "ok" /\ (IsFilterDevice \/ ~done) THEN "failed" ELSE @]
    /\ io' = [io EXCEPT !.pc = "complete"]
    /\ UNCHANGED <<queue, list, pool, buffer, store, main, comp, worker, hold, stop>>

(* The device part of a request.  done[k] says whether piece k succeeded;  *)
(* item->Status takes the result of the last piece.                        *)
Transferred(r, done) == UNION {PieceSectors(r, k) : k \in {j \in Pieces(r) : done[j]}}
StatusOf(r, done) == IF \E k \in Pieces(r) : done[k] /\ \A j \in Pieces(r) : j <= k THEN "ok" ELSE "failed"

(* ZwWriteFile or TCWriteDevice: a failed write may have reached any of its sectors *)
DeviceWrite(r) ==
    IF irp[r.irp].status # "ok"
    THEN UNCHANGED <<irp, store>>
    ELSE \E done \in [Pieces(r) -> Outcomes(r.irp)] : \E W \in SUBSET Extent(r) :
            /\ Transferred(r, done) \subseteq W
            /\ (\A k \in Pieces(r) : done[k]) => W = Transferred(r, done)
            /\ store' = [store EXCEPT !.disk = [p \in PhysicalSectors |->
                            IF \E s \in W : DeviceSector(r, s) = p
                            THEN buffer.cells[r.buf][CHOOSE s \in W : DeviceSector(r, s) = p] ELSE @[p]]]
            /\ irp' = [irp EXCEPT ![r.irp].todo = @ \ W, ![r.irp].status = StatusOf(r, done)]

IoWrite_CompletesEach ==
    /\ io.pc = "io" /\ irp[io.req.irp].op.kind = "write"
    /\ DeviceWrite(io.req)
    /\ buffer' = [ReleaseFragment(io.req.buf) EXCEPT !.aheadValid = FALSE, !.ahead = <<>>]
    /\ io' = [io EXCEPT !.pc = "complete"]
    /\ UNCHANGED <<queue, list, pool, main, comp, worker, hold, stop>>

(* After a write the read-ahead buffer is dropped and the fragment buffer released *)
IoWrite ==
    /\ io.pc = "io" /\ irp[io.req.irp].op.kind = "write"
    /\ DeviceWrite(io.req)
    /\ buffer' = [ReleaseFragment(io.req.buf) EXCEPT !.aheadValid = FALSE, !.ahead = <<>>]
    /\ IF io.req.last
       THEN io' = [io EXCEPT !.pc = "complete"] /\ UNCHANGED pool
       ELSE io' = [pc |-> "drain", req |-> NoRequest] /\ ReleaseRequest
    /\ UNCHANGED <<queue, list, main, comp, worker, hold, stop>>

CachedCell_AnyOffset(p, s) ==
    IF buffer.aheadValid /\ Len(buffer.ahead) >= p.len
    THEN buffer.ahead[s - p.off + 1]
    ELSE store.disk[s - p.off + p.at]

(* TCCachedRead of piece p: from the read-ahead buffer if it starts at the same place and is long enough *)
CachedCell(p, s) ==
    IF buffer.aheadValid /\ buffer.aheadOff = p.at /\ Len(buffer.ahead) >= p.len
    THEN buffer.ahead[s - p.off + 1]
    ELSE store.disk[s - p.off + p.at]

DeviceRead(r) ==
    IF irp[r.irp].status # "ok"
    THEN UNCHANGED irp
    ELSE \E done \in [Pieces(r) -> Outcomes(r.irp)] :
            irp' = IF StatusOf(r, done) # "ok"
                   THEN [irp EXCEPT ![r.irp].status = "failed"]
                   ELSE [irp EXCEPT ![r.irp].todo = @ \ Transferred(r, done),
                                    ![r.irp].data = [s \in Sectors |->
                                       IF s \notin Extent(r) THEN @[s]
                                       ELSE IF s \notin Transferred(r, done) THEN Garbage
                                       ELSE CachedCell(Piece(r, CHOOSE k \in Pieces(r) : s \in PieceSectors(r, k)), s)]]

IoRead ==
    /\ io.pc = "io" /\ irp[io.req.irp].op.kind = "read"
    /\ DeviceRead(io.req)
    /\ buffer' = ReleaseFragment(io.req.buf)
    /\ io' = [io EXCEPT !.pc = "readDone"]
    /\ UNCHANGED <<queue, list, pool, store, main, comp, worker, hold, stop>>

IoReadQueue_Uncounted ==
    /\ io.pc = "readDone"
    /\ io' = IF io.req.last /\ irp[io.req.irp].status = "ok" /\ list.ioPending = 0
             THEN [io EXCEPT !.pc = "readAhead"] ELSE [pc |-> "drain", req |-> NoRequest]
    /\ list' = [list EXCEPT !.comp = Append(@, io.req), !.notEmpty["comp"] = TRUE]
    /\ UNCHANGED <<irp, queue, pool, buffer, store, main, comp, worker, hold, stop>>

(* Hand the request to the completion thread; with nothing else pending,   *)
(* also read ahead, which counts as outstanding I/O                        *)
IoReadQueue ==
    /\ io.pc = "readDone"
    /\ IF io.req.last /\ irp[io.req.irp].status = "ok" /\ list.ioPending = 0
       THEN /\ queue' = [queue EXCEPT !.OutstandingIoCount = @ + 1]
            /\ io' = [io EXCEPT !.pc = "readAhead"]
       ELSE /\ io' = [pc |-> "drain", req |-> NoRequest]
            /\ UNCHANGED queue
    /\ list' = [list EXCEPT !.comp = Append(@, io.req), !.notEmpty["comp"] = TRUE]
    /\ UNCHANGED <<irp, pool, buffer, store, main, comp, worker, hold, stop>>

(* As much as the last read returned, from where it ended (LastReadOffset, LastReadLength) *)
IoReadAhead ==
    /\ io.pc = "readAhead"
    /\ LET p == LastPiece(io.req)
           off == p.at + p.len
       IN \E done \in Outcomes(io.req.irp) :
          buffer' = IF done /\ off + p.len <= DiskLength + RemapOffset
                    THEN [buffer EXCEPT !.aheadValid = TRUE, !.aheadOff = off,
                                        !.ahead = [k \in 1 .. p.len |-> store.disk[off + k - 1]]]
                    ELSE [buffer EXCEPT !.aheadValid = FALSE, !.ahead = <<>>]
    /\ io' = [pc |-> "readAheadDone", req |-> NoRequest]
    /\ UNCHANGED <<irp, queue, list, pool, store, main, comp, worker, hold, stop>>

IoReadAheadDone ==
    /\ io.pc = "readAheadDone"
    /\ DecrementOutstandingIoCount
    /\ io' = [io EXCEPT !.pc = IF ReachesZero THEN "signal" ELSE "drain"]
    /\ UNCHANGED <<irp, list, pool, buffer, store, main, comp, worker, hold, stop>>

IoSignal ==
    /\ io.pc = "signal"
    /\ SignalNoOutstandingIo
    /\ io' = [io EXCEPT !.pc = "drain"]
    /\ UNCHANGED <<irp, list, pool, buffer, store, main, comp, worker, hold, stop>>

(* HandleCompleteOriginalIrp for a write or flush, then the request is released *)
IoComplete ==
    /\ io.pc = "complete"
    /\ QueueIrpCompletion(io.req.irp)
    /\ io' = [io EXCEPT !.pc = "release"]
    /\ UNCHANGED <<irp, queue, list, buffer, store, main, comp, hold, stop>>

IoRelease ==
    /\ io.pc = "release"
    /\ ReleaseRequest
    /\ io' = [pc |-> "drain", req |-> NoRequest]
    /\ UNCHANGED <<irp, queue, list, buffer, store, main, comp, worker, hold, stop>>

IoThreadProc ==
    \/ IoWait \/ IoIdle \/ IoDequeue \/ IoFlush \/ IoWrite \/ IoRead \/ IoReadQueue \/ IoReadAhead
    \/ IoReadAheadDone \/ IoSignal \/ IoComplete \/ IoRelease

----------------------------------------------------------------------------
(* CompletionThreadProc *)

CompWait ==
    /\ comp.pc = "wait" /\ list.notEmpty["comp"]
    /\ list' = [list EXCEPT !.notEmpty["comp"] = FALSE]
    /\ comp' = [comp EXCEPT !.pc = IF queue.ThreadExitRequested THEN "exited" ELSE "drain"]
    /\ UNCHANGED <<irp, queue, pool, buffer, store, main, io, worker, hold, stop>>

CompIdle ==
    /\ comp.pc = "drain" /\ list.comp = <<>>
    /\ comp' = [comp EXCEPT !.pc = IF queue.ThreadExitRequested THEN "exited" ELSE "wait"]
    /\ UNCHANGED <<irp, queue, list, pool, buffer, store, main, io, worker, hold, stop>>

CompDecrypt_All ==
    /\ comp.pc = "drain" /\ list.comp # <<>>
    /\ LET r == Head(list.comp) IN
       /\ irp' = [irp EXCEPT ![r.irp].data = [s \in Sectors |-> IF s \in Extent(r) THEN AddLayers(@[s], -1) ELSE @[s]]]
       /\ comp' = [pc |-> IF r.last THEN "complete" ELSE "release", req |-> r]
    /\ list' = [list EXCEPT !.comp = Tail(@)]
    /\ UNCHANGED <<queue, pool, buffer, store, main, io, worker, hold, stop>>

(* Decrypt in the IRP's own buffer, then substitute the sectors of SecRegionData *)
CompDecrypt ==
    /\ comp.pc = "drain" /\ list.comp # <<>>
    /\ LET r == Head(list.comp) IN
       /\ irp' = [irp EXCEPT ![r.irp].data = [s \in Sectors |->
                    IF s \in Extent(r) \cap SecRegion THEN Cell("region", s, 0)
                    ELSE IF s \in Enc(r) /\ irp[r.irp].status = "ok" THEN AddLayers(@[s], -1)
                    ELSE @[s]]]
       /\ comp' = [pc |-> IF r.last THEN "complete" ELSE "release", req |-> r]
    /\ list' = [list EXCEPT !.comp = Tail(@)]
    /\ UNCHANGED <<queue, pool, buffer, store, main, io, worker, hold, stop>>

CompComplete ==
    /\ comp.pc = "complete"
    /\ QueueIrpCompletion(comp.req.irp)
    /\ comp' = [comp EXCEPT !.pc = "release"]
    /\ UNCHANGED <<irp, queue, list, buffer, store, main, io, hold, stop>>

CompRelease ==
    /\ comp.pc = "release"
    /\ ReleaseRequest
    /\ comp' = [pc |-> "drain", req |-> NoRequest]
    /\ UNCHANGED <<irp, queue, list, buffer, store, main, io, worker, hold, stop>>

CompletionThreadProc == CompWait \/ CompIdle \/ CompDecrypt \/ CompComplete \/ CompRelease

----------------------------------------------------------------------------
(* CompleteIrpWorkItemRoutine, run by a system worker thread.  WorkLeave   *)
(* and WorkReturn are its __finally block.                                 *)

WorkCount(i) ==
    /\ worker[i] = "start"
    /\ DecrementOutstandingIoCount
    /\ irp' = [irp EXCEPT ![i].stage = "uncounted"]
    /\ worker' = [worker EXCEPT ![i] = IF ReachesZero THEN "signal" ELSE "complete"]
    /\ UNCHANGED <<list, pool, buffer, store, main, io, comp, hold, stop>>

WorkSignal(i) ==
    /\ worker[i] = "signal"
    /\ SignalNoOutstandingIo
    /\ worker' = [worker EXCEPT ![i] = "complete"]
    /\ UNCHANGED <<irp, list, pool, buffer, store, main, io, comp, hold, stop>>

(* TCCompleteDiskIrp: the issuer has its answer *)
WorkCompleteIrp(i) ==
    /\ worker[i] = "complete"
    /\ irp' = [irp EXCEPT ![i].stage = "completed"]
    /\ worker' = [worker EXCEPT ![i] = "leave"]
    /\ UNCHANGED <<queue, list, pool, buffer, store, main, io, comp, hold, stop>>

WorkLeave(i) ==
    /\ worker[i] = "leave"
    /\ pool' = [pool EXCEPT !.active = @ - 1]
    /\ worker' = [worker EXCEPT ![i] = "return"]
    /\ UNCHANGED <<irp, queue, list, buffer, store, main, io, comp, hold, stop>>

(* The work item and the EncryptedIoQueueItem go back to their pools *)
WorkReturn(i) ==
    /\ worker[i] = "return"
    /\ pool' = [pool EXCEPT !.workItems = @ + 1, !.items = @ + 1, !.freeEvent = TRUE]
    /\ worker' = [worker EXCEPT ![i] = "done"]
    /\ UNCHANGED <<irp, queue, list, buffer, store, main, io, comp, hold, stop>>

CompleteIrpWorkItemRoutine(i) ==
    WorkCount(i) \/ WorkSignal(i) \/ WorkCompleteIrp(i) \/ WorkLeave(i) \/ WorkReturn(i)

----------------------------------------------------------------------------
(* EncryptedIoQueueHoldWhenIdle, its caller's work on the disk, and        *)
(* EncryptedIoQueueResumeFromHold.  The callers (DriveFilter.c) retry a    *)
(* failed hold; the fields left and cell belong to the caller.             *)

HoldStep(from, to) == hold.pc = from /\ hold' = [hold EXCEPT !.pc = to]

HoldBegin ==
    /\ hold.pc = "idle" /\ hold.left > 0
    /\ queue' = [queue EXCEPT !.SuspendPending = TRUE]
    /\ hold' = [hold EXCEPT !.pc = "check", !.left = @ - 1]
    /\ UNCHANGED <<irp, list, pool, buffer, store, main, io, comp, worker, stop>>

HoldCheck ==
    /\ IF queue.OutstandingIoCount > 0 THEN HoldStep("check", "wait") ELSE HoldStep("check", "clear")
    /\ UNCHANGED <<irp, queue, list, pool, buffer, store, main, io, comp, worker, stop>>

HoldWait ==
    /\ HoldStep("wait", "recheck")
    /\ queue.NoOutstandingIoEvent
    /\ queue' = [queue EXCEPT !.NoOutstandingIoEvent = FALSE]
    /\ UNCHANGED <<irp, list, pool, buffer, store, main, io, comp, worker, stop>>

(* The wait times out, or new I/O arrived while the thread slept after it *)
HoldFail ==
    /\ HoldStep("wait", "idle") \/ (HoldStep("recheck", "idle") /\ queue.OutstandingIoCount > 0)
    /\ queue' = [queue EXCEPT !.SuspendPending = FALSE]
    /\ UNCHANGED <<irp, list, pool, buffer, store, main, io, comp, worker, stop>>

HoldRecheck ==
    /\ HoldStep("recheck", "check") /\ queue.OutstandingIoCount = 0
    /\ UNCHANGED <<irp, queue, list, pool, buffer, store, main, io, comp, worker, stop>>

HoldClear ==
    /\ HoldStep("clear", "suspend")
    /\ queue' = [queue EXCEPT !.QueueResumedEvent = FALSE]
    /\ UNCHANGED <<irp, list, pool, buffer, store, main, io, comp, worker, stop>>

HoldSuspend ==
    /\ HoldStep("suspend", "verify")
    /\ queue' = [queue EXCEPT !.Suspended = TRUE]
    /\ UNCHANGED <<irp, list, pool, buffer, store, main, io, comp, worker, stop>>

Grant(b) ==
    /\ HoldStep("verify", "held")
    /\ buffer' = b
    /\ queue' = [queue EXCEPT !.SuspendPending = FALSE]
    /\ UNCHANGED <<irp, list, pool, store, main, io, comp, worker, stop>>

HoldGrant_Unchecked == Grant([buffer EXCEPT !.aheadValid = FALSE, !.ahead = <<>>])

HoldGrant == queue.OutstandingIoCount = 0 /\ Grant([buffer EXCEPT !.aheadValid = FALSE, !.ahead = <<>>])

(* I/O that slipped in before Suspended was set undoes the suspension *)
HoldUndo ==
    /\ HoldStep("verify", "check") /\ queue.OutstandingIoCount > 0
    /\ queue' = [queue EXCEPT !.Suspended = FALSE, !.QueueResumedEvent = TRUE]
    /\ UNCHANGED <<irp, list, pool, buffer, store, main, io, comp, worker, stop>>

EncryptedIoQueueHoldWhenIdle ==
    HoldBegin \/ HoldCheck \/ HoldWait \/ HoldFail \/ HoldRecheck \/ HoldClear \/ HoldSuspend \/ HoldGrant \/ HoldUndo

(* The caller, SetupThreadProc: one block of a filter device's area is     *)
(* read, then written back with a layer of encryption more (the block      *)
(* after the area) or less (the last of the area) and the area is moved    *)
NextBlock == IF Area = {} THEN 0 ELSE store.end + 1

HeldRead ==
    /\ hold.pc = "held" /\ IsFilterDevice /\ RemapOffset = 0
    /\ \/ /\ NextBlock < DiskLength
          /\ hold' = [hold EXCEPT !.pc = "encrypting", !.cell = AddLayers(store.disk[NextBlock], 1)]
       \/ /\ Area # {}
          /\ hold' = [hold EXCEPT !.pc = "decrypting", !.cell = AddLayers(store.disk[store.end], -1)]
    /\ UNCHANGED <<irp, queue, list, pool, buffer, store, main, io, comp, worker, stop>>

HeldWrite ==
    /\ \/ /\ hold.pc = "encrypting"
          /\ store' = [store EXCEPT !.disk[NextBlock] = hold.cell, !.end = NextBlock,
                                    !.start = IF Area = {} THEN 0 ELSE @]
       \/ /\ hold.pc = "decrypting"
          /\ store' = [store EXCEPT !.disk[store.end] = hold.cell,
                                    !.end = IF @ = store.start THEN -1 ELSE @ - 1,
                                    !.start = IF @ = store.end THEN -1 ELSE @]
    /\ hold' = [hold EXCEPT !.pc = "moved", !.cell = Garbage]
    /\ UNCHANGED <<irp, queue, list, pool, buffer, main, io, comp, worker, stop>>

EncryptedIoQueueResumeFromHold ==
    /\ HoldStep("held", "idle") \/ HoldStep("moved", "idle")
    /\ queue' = [queue EXCEPT !.Suspended = FALSE, !.QueueResumedEvent = TRUE]
    /\ UNCHANGED <<irp, list, pool, buffer, store, main, io, comp, worker, stop>>

----------------------------------------------------------------------------
(* EncryptedIoQueueStop, and how it comes to be called *)

StopStep(from, to) == stop = from /\ stop' = to

(* A drive has given its remove lock to an IRP from AddIrp to the end of OnItemCompleted *)
HasRemoveLock(i) == irp[i].stage \in {"queued", "active"} \/ worker[i] = "signal"

(* A volume is stopped as it is, and a drive on shutdown, when the setup   *)
(* thread was aborted and waited for.  When a drive is removed             *)
(* (IRP_MN_REMOVE_DEVICE), IoReleaseRemoveLockAndWait has waited for the   *)
(* IRPs that have the lock, but the setup thread may hold the queue.       *)
StopBegin ==
    /\ CanStop /\ StopStep("running", "check")
    /\ \/ hold.pc = "idle" /\ hold' = [hold EXCEPT !.left = 0]
       \/ IsFilterDevice /\ (\A i \in Irps : ~HasRemoveLock(i)) /\ UNCHANGED hold
    /\ queue' = [queue EXCEPT !.StopPending = TRUE]
    /\ UNCHANGED <<irp, list, pool, buffer, store, main, io, comp, worker>>

StopWait ==
    /\ \/ StopStep("check", "wait") /\ queue.OutstandingIoCount > 0 /\ UNCHANGED queue
       \/ /\ StopStep("wait", "check") /\ queue.NoOutstandingIoEvent
          /\ queue' = [queue EXCEPT !.NoOutstandingIoEvent = FALSE]
    /\ UNCHANGED <<irp, list, pool, buffer, store, main, io, comp, worker, hold>>

(* TCStopThread wakes the thread and waits for its end; main, then io, then comp *)
StopThreads ==
    /\ \/ /\ StopStep("check", "main") /\ queue.OutstandingIoCount = 0
          /\ queue' = [queue EXCEPT !.ThreadExitRequested = TRUE]
          /\ list' = [list EXCEPT !.notEmpty["main"] = TRUE]
       \/ /\ StopStep("main", "io") /\ main.pc = "exited"
          /\ list' = [list EXCEPT !.notEmpty["io"] = TRUE] /\ UNCHANGED queue
       \/ /\ StopStep("io", "comp") /\ io.pc = "exited"
          /\ list' = [list EXCEPT !.notEmpty["comp"] = TRUE] /\ UNCHANGED queue
       \/ /\ StopStep("comp", "workItems") /\ comp.pc = "exited"
          /\ UNCHANGED <<queue, list>>
    /\ UNCHANGED <<irp, pool, buffer, store, main, io, comp, worker, hold>>

(* Waits until ActiveWorkItems is zero, then frees work items, fragment buffers and pool *)
StopFree ==
    /\ StopStep("workItems", "freed") /\ pool.active = 0
    /\ UNCHANGED <<irp, queue, list, pool, buffer, store, main, io, comp, worker, hold>>

EncryptedIoQueueStop == StopBegin \/ StopWait \/ StopThreads \/ StopFree

----------------------------------------------------------------------------
Caller == EncryptedIoQueueHoldWhenIdle \/ HeldRead \/ HeldWrite \/ EncryptedIoQueueResumeFromHold

Next ==
    \/ \E i \in Irps : AddIrp(i) \/ CompleteIrpWorkItemRoutine(i)
    \/ MainThreadProc \/ IoThreadProc \/ CompletionThreadProc
    \/ Caller
    \/ EncryptedIoQueueStop

Spec == Init /\ [][Next]_vars

(* Every thread keeps running: the queue's own threads, the system worker  *)
(* threads, a dispatch routine once it has been entered, and a thread that *)
(* is holding the queue or has begun to hold or stop it.  No fairness is   *)
(* assumed of those who issue I/O, cancel it, or decide to hold or stop.   *)
Fairness ==
    /\ \A i \in Irps : /\ WF_vars(CompleteIrpWorkItemRoutine(i))
                       /\ WF_vars(AddIrp(i) /\ irp[i].stage # "unissued")
    /\ WF_vars(MainThreadProc) /\ WF_vars(IoThreadProc) /\ WF_vars(CompletionThreadProc)
    /\ WF_vars(Caller /\ hold.pc # "idle")
    /\ WF_vars(EncryptedIoQueueStop /\ stop # "running")

FairSpec == Spec /\ Fairness
----------------------------------------------------------------------------
(* Properties *)

Cells == [writer : Irps \cup {"format", "region", "garbage"}, sector : Int, layers : Int]
IrpRecords == [stage : {"unissued", "counted", "refusing", "rejected", "queued", "active", "uncounted", "completed"},
               op : Ops \cup {Unissued.op}, status : {"ok", "cancelled", "invalid", "failed", "protected"},
               todo : SUBSET Sectors, data : [Sectors -> Cells]]
Requests == [irp : Irps, off : Nat, len : Int, buf : Buffers, encOff : Nat, encLen : Nat, last : BOOLEAN]
QueueRecords == [OutstandingIoCount : Int, SuspendPending : BOOLEAN, Suspended : BOOLEAN, StopPending : BOOLEAN,
                 ThreadExitRequested : BOOLEAN, NoOutstandingIoEvent : BOOLEAN, QueueResumedEvent : BOOLEAN]
ListRecords == [main : Seq(Irps), io : Seq(Requests), comp : Seq(Requests), ioPending : Int,
                notEmpty : [{"main", "io", "comp"} -> BOOLEAN]]
PoolRecords == [items : Nat, requests : Nat, freeEvent : BOOLEAN, workItems : Nat, active : Int]
BufferRecords == [free : [FragmentBuffers -> BOOLEAN], cells : [Buffers -> [Sectors -> Cells]],
                  aheadValid : BOOLEAN, aheadOff : Int, ahead : Seq(Cells)]
StoreRecords == [disk : [PhysicalSectors -> Cells], start : Sectors \cup {-1}, end : Sectors \cup {-1}, triggered : BOOLEAN]
MainRecords == [pc : {"wait", "drain", "suspendCheck", "suspended", "getItem", "itemWait", "dispatch", "fragment",
                      "getRequest", "requestWait", "acquire", "complete", "exited"},
                irp : Irps \cup {"none"}, off : Nat, buf : FragmentBuffers, req : Requests \cup {NoRequest}]
IoRecords == [pc : {"wait", "drain", "io", "readDone", "readAhead", "readAheadDone", "signal", "complete",
                    "release", "exited"}, req : Requests \cup {NoRequest}]
CompRecords == [pc : {"wait", "drain", "complete", "release", "exited"}, req : Requests \cup {NoRequest}]
HoldRecords == [pc : {"idle", "check", "wait", "recheck", "clear", "suspend", "verify", "held", "encrypting",
                      "decrypting", "moved"}, left : Nat, cell : Cells]

(* A thread that has taken an IRP or a request off a list, or a block off  *)
(* the disk, has it until it is done with it                               *)
MainOK ==
    /\ main \in MainRecords
    /\ main.pc \notin {"wait", "drain", "exited"} => main.irp \in Irps
    /\ main.pc = "acquire" => main.req \in Requests
IoOK == io \in IoRecords /\ (io.pc \in {"io", "readDone", "readAhead", "complete"} => io.req \in Requests)
CompOK == comp \in CompRecords /\ (comp.pc = "complete" => comp.req \in Requests)
HoldOK ==
    /\ hold \in HoldRecords
    /\ hold.pc = "encrypting" => NextBlock \in Sectors
    /\ hold.pc = "decrypting" => store.end \in Sectors

(* The type invariant of the queue, its threads, and its callers *)
TypeOK ==
    /\ irp \in [Irps -> IrpRecords]
    /\ queue \in QueueRecords
    /\ list \in ListRecords
    /\ pool \in PoolRecords
    /\ buffer \in BufferRecords
    /\ store \in StoreRecords
    /\ MainOK /\ IoOK /\ CompOK /\ HoldOK
    /\ worker \in [Irps -> {"none", "start", "signal", "complete", "leave", "return", "done"}]
    /\ stop \in {"running", "check", "wait", "main", "io", "comp", "workItems", "freed"}

(* OutstandingIoCount counts the IRPs between EncryptedIoQueueAddIrp and   *)
(* OnItemCompleted, and the read-ahead in progress                         *)
Counted(i) == irp[i].stage \in {"counted", "queued", "active"}
CountIsOutstanding ==
    queue.OutstandingIoCount =
        Cardinality({i \in Irps : Counted(i)}) + (IF io.pc \in {"readAhead", "readAheadDone"} THEN 1 ELSE 0)

(* While EncryptedIoQueueHoldWhenIdle has the queue held, and until         *)
(* EncryptedIoQueueResumeFromHold, no IRP is between admission and          *)
(* completion, no thread of the queue touches the device, and nothing read  *)
(* ahead before can be served afterwards                                    *)
Held == hold.pc \in {"held", "encrypting", "decrypting", "moved"}
HoldExclusive ==
    Held => /\ \A i \in Irps : irp[i].stage # "active"
            /\ list.io = <<>> /\ list.comp = <<>>
            /\ io.pc \notin {"io", "readDone", "readAhead", "readAheadDone", "complete"}
            /\ ~buffer.aheadValid

(* Once the completion of an IRP is queued, no fragment of it is on a list  *)
(* or in the hands of a thread that would still use its item: whoever has   *)
(* the last fragment has the only one, and completes the IRP only once      *)
Of(s) == {s[k] : k \in DOMAIN s}
IoHas == IF io.pc \in {"io", "readDone", "complete"} THEN {io.req} ELSE {}
CompHas == IF comp.pc = "complete" THEN {comp.req} ELSE {}
Fragments == Of(list.io) \cup Of(list.comp) \cup IoHas \cup CompHas
NoFragmentOutlivesIrp == \A r \in Fragments : irp[r.irp].stage = "active" /\ worker[r.irp] = "none"

(* A fragment buffer belongs to at most one queued or running request, and  *)
(* its free event is set exactly when it belongs to none                    *)
Owners(b) == {k \in DOMAIN list.io : list.io[k].buf = b} \cup {0 : x \in {y \in {io} : y.pc = "io" /\ y.req.buf = b}}
FragmentOwnership ==
    \A b \in FragmentBuffers :
        /\ Cardinality(Owners(b)) <= 1
        /\ buffer.free[b] <=> Owners(b) = {}

(* An IRP completed with success was transferred completely, and the data   *)
(* of a read is plaintext of the sectors asked for                          *)
SuccessMeansTransferred ==
    \A i \in Irps : irp[i].stage = "completed" /\ irp[i].status = "ok" =>
        /\ irp[i].todo = {}
        /\ irp[i].op.kind = "read" =>
              \A s \in Sectors \cap (irp[i].op.off .. (irp[i].op.off + irp[i].op.len - 1)) :
                  irp[i].data[s].sector = s /\ irp[i].data[s].layers = 0 /\ irp[i].data[s].writer # "garbage"

(* Hidden volume protection: the protected sectors are never written, and   *)
(* once a write was denied, no write issued after that succeeds             *)
ProtectedIntact ==
    \A s \in ProtectedArea \cup SecRegion : store.disk[Location(s)].writer = "format"
NoWriteAfterTrigger ==
    \A i \in Irps : [](store.triggered /\ irp[i].stage = "unissued" =>
                       []~(irp[i].stage = "completed" /\ irp[i].op.kind = "write" /\ irp[i].status = "ok"))

(* EncryptedIoQueueStop tells the threads to exit only when no IRP is left  *)
(* for them, and no IRP is accepted afterwards                              *)
StopDrains ==
    queue.ThreadExitRequested =>
        /\ list.main = <<>> /\ list.io = <<>> /\ list.comp = <<>>
        /\ \A i \in Irps : irp[i].stage \notin {"queued", "active"}

(* Every IRP given to the queue is answered: no wakeup is lost between the  *)
(* threads, the pools, the fragment buffers, a hold and its resumption      *)
EveryIrpAnswered ==
    \A i \in Irps : irp[i].stage = "counted" ~> irp[i].stage \in {"rejected", "completed"}

(* EncryptedIoQueueStop returns *)
StopTerminates == stop = "check" ~> stop = "freed"

----------------------------------------------------------------------------
(* The queue implements a plain block device *)

Decode(c, n) == IF c.layers = n THEN [writer |-> c.writer, sector |-> c.sector]
                                ELSE [writer |-> "ciphertext", sector |-> c.sector]

(* Requests read from the device but not yet decrypted *)
Undecrypted == {list.comp[k] : k \in DOMAIN list.comp} \cup {x.req : x \in {y \in {io} : y.pc = "readDone"}}

PlainData(i) ==
    [s \in Sectors |->
        LET pending == {r \in Undecrypted : r.irp = i /\ s \in Extent(r)} IN
        IF pending # {} /\ s \in SecRegion THEN [writer |-> "region", sector |-> s]
        ELSE Decode(irp[i].data[s], IF \E r \in pending : s \in Enc(r) THEN 1 ELSE 0)]

PlainContent ==
    [s \in Sectors |-> IF s \in SecRegion THEN [writer |-> "region", sector |-> s]
                       ELSE Decode(store.disk[Location(s)], IF s \in Area THEN 1 ELSE 0)]

NoData == Decode(Garbage, 0)

PlainRequest(i) ==
    LET x == irp[i] IN
    IF x.stage = "unissued" THEN [state |-> "unissued", write |-> FALSE, todo |-> {}, data |-> [s \in Sectors |-> NoData]]
    ELSE IF x.status # "ok" THEN [state |-> "failed", write |-> FALSE, todo |-> {}, data |-> [s \in Sectors |-> NoData]]
    ELSE [state |-> IF x.stage = "completed" THEN "done" ELSE "ok",
          write |-> x.op.kind = "write", todo |-> x.todo, data |-> PlainData(i)]

Device == INSTANCE BlockDevice WITH
    Initial <- [s \in Sectors |-> [writer |-> IF s \in SecRegion THEN "region" ELSE "format", sector |-> s]],
    content <- PlainContent,
    request <- [i \in Irps |-> PlainRequest(i)]

(* Encryption, fragmentation, read-ahead, the threads and the re-encryption *)
(* of held blocks are invisible to whoever issues the IRPs                  *)
ImplementsBlockDevice == Device!Spec
=============================================================================
