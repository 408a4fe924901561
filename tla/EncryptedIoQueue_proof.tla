----------------------- MODULE EncryptedIoQueue_proof -----------------------
(***************************************************************************)
(* Theorems about EncryptedIoQueue, for every set of IRPs, every geometry  *)
(* of the disk and every size of the pools: type correctness; that the     *)
(* counter of outstanding I/O is exact, that a hold is exclusive, that no  *)
(* fragment outlives its IRP, that a stop finds nothing left to do, that a *)
(* fragment buffer has one owner, that a protected sector is never         *)
(* changed, and that a denial is final.                                    *)
(*                                                                         *)
(* None of the safety properties is inductive.  The first four rest on one *)
(* argument: at any time one place is responsible for answering an         *)
(* admitted IRP, the main thread, the IRP's last fragment, or its          *)
(* completion work item.  The other three follow a buffer, a write and a   *)
(* denial from thread to thread, each with an invariant of its own on top  *)
(* of that one.                                                            *)
(***************************************************************************)
EXTENDS EncryptedIoQueue, SequenceTheorems, FiniteSetTheorems, TLAPS

(* The items of a record set that the actions build afresh *)
LEMMA CellType ==
    ASSUME NEW w \in Irps \cup {"format", "region", "garbage"}, NEW s \in Int, NEW n \in Int
    PROVE  Cell(w, s, n) \in Cells
  BY DEF Cell, Cells

LEMMA GarbageType == Garbage \in Cells /\ Clear \in [Sectors -> Cells]
  <1>1. Garbage \in Cells
    BY CellType DEF Garbage
  <1>2. QED
    BY <1>1 DEF Clear

LEMMA AddLayersType ==
    ASSUME NEW c \in Cells, NEW n \in Int
    PROVE  AddLayers(c, n) \in Cells
  BY GarbageType DEF AddLayers, Cells

(* EncryptedIoQueueStart puts the queue in a state of the right type *)
LEMMA InitType == Init => TypeOK
  <1> SUFFICES ASSUME Init PROVE TypeOK
    OBVIOUS
  <1> USE QueueAssumption
  <1>1. irp \in [Irps -> IrpRecords]
    BY GarbageType DEF Init, Unissued, IrpRecords
  <1>2. queue \in QueueRecords
    BY DEF Init, QueueRecords
  <1>3. list \in ListRecords
    BY DEF Init, ListRecords
  <1>4. pool \in PoolRecords
    BY DEF Init, PoolRecords
  <1>5. buffer \in BufferRecords
    BY GarbageType DEF Init, BufferRecords
  <1>6. store \in StoreRecords
    <2>1. \A p \in PhysicalSectors : p \in Int /\ p - RemapOffset \in Int
      BY DEF PhysicalSectors
    <2>2. \A p \in PhysicalSectors : Cell("format", p - RemapOffset, 1) \in Cells /\ Cell("format", p, 0) \in Cells
      <3>1. TAKE p \in PhysicalSectors
      <3>2. p \in Int /\ p - RemapOffset \in Int
        BY <2>1
      <3>3. Cell("format", p - RemapOffset, 1) \in Cells
        BY <3>2 DEF Cell, Cells
      <3>4. Cell("format", p, 0) \in Cells
        BY <3>2 DEF Cell, Cells
      <3>5. QED
        BY <3>3, <3>4
    <2>3. InitialStart \in Sectors \cup {-1} /\ InitialEnd \in Sectors \cup {-1}
      BY DEF Sectors
    <2>4. QED
      BY <2>2, <2>3 DEF Init, StoreRecords
  <1>7. main \in MainRecords /\ io \in IoRecords /\ comp \in CompRecords
    BY DEF Init, MainRecords, IoRecords, CompRecords, FragmentBuffers
  <1>8. hold \in HoldRecords
    BY GarbageType DEF Init, HoldRecords
  <1>10. MainOK /\ IoOK /\ CompOK /\ HoldOK
    BY <1>7, <1>8 DEF Init, MainOK, IoOK, CompOK, HoldOK
  <1>9. QED
    BY <1>1, <1>2, <1>3, <1>4, <1>5, <1>6, <1>10 DEF Init, TypeOK

(* The changes the handlers make to an IRP, to the lists and to the pool   *)
LEMMA IrpFields ==
    ASSUME TypeOK, NEW i \in Irps
    PROVE  /\ \A s \in {"counted", "refusing", "rejected", "queued", "active", "uncounted", "completed"} :
                 [irp EXCEPT ![i].stage = s] \in [Irps -> IrpRecords]
           /\ \A s \in {"ok", "cancelled", "invalid", "failed", "protected"} :
                 [irp EXCEPT ![i].status = s] \in [Irps -> IrpRecords]
  <1>1. irp \in [Irps -> IrpRecords] /\ irp[i] \in IrpRecords
    BY DEF TypeOK
  <1>2. \A s \in {"counted", "refusing", "rejected", "queued", "active", "uncounted", "completed"} :
           [irp[i] EXCEPT !.stage = s] \in IrpRecords
    BY <1>1 DEF IrpRecords
  <1>3. \A s \in {"ok", "cancelled", "invalid", "failed", "protected"} : [irp[i] EXCEPT !.status = s] \in IrpRecords
    BY <1>1 DEF IrpRecords
  <1>4. QED
    BY <1>1, <1>2, <1>3

(* A transfer into the buffer of an IRP *)
LEMMA IrpDataType ==
    ASSUME NEW x \in IrpRecords, NEW T \in SUBSET Sectors, NEW d \in [Sectors -> Cells]
    PROVE  /\ [x EXCEPT !.todo = T, !.data = d] \in IrpRecords
           /\ [x EXCEPT !.data = d] \in IrpRecords
  <1>1. [x EXCEPT !.todo = T, !.data = d] \in IrpRecords
    BY DEF IrpRecords
  <1>2. [x EXCEPT !.data = d] \in IrpRecords
    BY DEF IrpRecords
  <1>3. QED
    BY <1>1, <1>2

(* A step that leaves a thread, and what it refers to, alone *)
LEMMA MainUnchanged == MainOK /\ UNCHANGED main => MainOK'
  BY DEF MainOK

LEMMA IoUnchanged == IoOK /\ UNCHANGED io => IoOK'
  BY DEF IoOK

LEMMA CompUnchanged == CompOK /\ UNCHANGED comp => CompOK'
  BY DEF CompOK

LEMMA HoldUnchanged == HoldOK /\ UNCHANGED <<hold, store>> => HoldOK'
  BY DEF HoldOK, NextBlock, Area

LEMMA ListFields ==
    ASSUME TypeOK
    PROVE  /\ list.main \in Seq(Irps) /\ list.io \in Seq(Requests) /\ list.comp \in Seq(Requests)
           /\ list.ioPending \in Int
           /\ \A t \in {"main", "io", "comp"}, b \in BOOLEAN :
                 [list.notEmpty EXCEPT ![t] = b] \in [{"main", "io", "comp"} -> BOOLEAN]
  BY DEF TypeOK, ListRecords

LEMMA NotEmptyType ==
    ASSUME TypeOK, NEW t \in {"main", "io", "comp"}, NEW b \in BOOLEAN
    PROVE  [list EXCEPT !.notEmpty[t] = b] \in ListRecords
  BY ListFields DEF TypeOK, ListRecords

LEMMA EnqueueType ==
    ASSUME TypeOK, NEW r \in Requests
    PROVE  /\ [list EXCEPT !.io = Append(@, r), !.notEmpty["io"] = TRUE] \in ListRecords
           /\ [list EXCEPT !.comp = Append(@, r), !.notEmpty["comp"] = TRUE] \in ListRecords
  <1>1. Append(list.io, r) \in Seq(Requests) /\ Append(list.comp, r) \in Seq(Requests)
    BY ListFields
  <1>2. QED
    BY <1>1, ListFields DEF TypeOK, ListRecords

(* Waiting for a pool buffer, taking and releasing one *)
LEMMA PoolType ==
    ASSUME TypeOK
    PROVE  /\ [pool EXCEPT !.freeEvent = FALSE] \in PoolRecords
           /\ TakeItem => pool' \in PoolRecords
           /\ TakeRequest => pool' \in PoolRecords
           /\ ReleaseRequest => pool' \in PoolRecords
  <1> USE DEF TypeOK
  <1>1. [pool EXCEPT !.freeEvent = FALSE] \in PoolRecords
    BY DEF PoolRecords
  <1>2. ASSUME TakeItem PROVE pool' \in PoolRecords
    BY <1>2 DEF TakeItem, PoolRecords
  <1>3. ASSUME TakeRequest PROVE pool' \in PoolRecords
    BY <1>3 DEF TakeRequest, PoolRecords
  <1>4. ASSUME ReleaseRequest PROVE pool' \in PoolRecords
    <2>1. pool.requests + 1 \in Nat
      BY DEF PoolRecords
    <2>2. QED
      BY <1>4, <2>1 DEF ReleaseRequest, PoolRecords
  <1>5. QED
    BY <1>1, <1>2, <1>3, <1>4

(* QueueIrpCompletionFromItem *)
LEMMA CompletionType ==
    ASSUME TypeOK, NEW i, QueueIrpCompletion(i)
    PROVE  /\ pool' \in PoolRecords
           /\ worker' \in [Irps -> {"none", "start", "signal", "complete", "leave", "return", "done"}]
  <1> USE DEF TypeOK
  <1>1. pool' = [pool EXCEPT !.workItems = pool.workItems - 1, !.active = pool.active + 1]
    BY DEF QueueIrpCompletion
  <1>2. pool.workItems - 1 \in Nat /\ pool.active + 1 \in Int
    BY DEF QueueIrpCompletion, PoolRecords
  <1>3. pool' \in PoolRecords
    BY <1>1, <1>2 DEF PoolRecords
  <1>4. worker' = [worker EXCEPT ![i] = "start"]
    BY DEF QueueIrpCompletion
  <1>5. QED
    BY <1>3, <1>4

(* EncryptedIoQueueAddIrp *)
LEMMA AddIrpType ==
    ASSUME TypeOK, NEW i \in Irps, AddIrp(i)
    PROVE  TypeOK'
  <1> USE DEF TypeOK
  <1>1. CASE AddIrpCount(i)
    <2>1. PICK op \in Ops :
            irp' = [irp EXCEPT ![i].stage = "counted", ![i].op = op,
                       ![i].todo = Sectors \cap (op.off .. (op.off + op.len - (IF op.aligned THEN 1 ELSE 0)))]
      BY <1>1 DEF AddIrpCount
    <2>2. ASSUME NEW T \in SUBSET Sectors
          PROVE  [irp EXCEPT ![i].stage = "counted", ![i].op = op, ![i].todo = T] \in [Irps -> IrpRecords]
      <3>1. [irp[i] EXCEPT !.stage = "counted", !.op = op, !.todo = T] \in IrpRecords
        BY DEF IrpRecords
      <3>2. QED
        BY <3>1
    <2>3. irp' \in [Irps -> IrpRecords]
      BY <2>1, <2>2
    <2>4. queue' \in QueueRecords
      BY <1>1 DEF AddIrpCount, QueueRecords
    <2>5. QED
      BY <1>1, <2>3, <2>4, MainUnchanged, IoUnchanged, CompUnchanged, HoldUnchanged DEF AddIrpCount
  <1>2. CASE AddIrpEnqueue(i)
    <2>1. irp' \in [Irps -> IrpRecords]
      BY <1>2, IrpFields DEF AddIrpEnqueue
    <2>2. Append(list.main, i) \in Seq(Irps)
      BY ListFields
    <2>3. list' = [list EXCEPT !.main = Append(list.main, i), !.notEmpty["main"] = TRUE]
      BY <1>2 DEF AddIrpEnqueue
    <2>4. list' \in ListRecords
      BY <2>2, <2>3, ListFields DEF ListRecords
    <2>5. QED
      BY <1>2, <2>1, <2>4, MainUnchanged, IoUnchanged, CompUnchanged, HoldUnchanged DEF AddIrpEnqueue
  <1>3. CASE AddIrpRefuse(i)
    <2>1. irp' = [irp EXCEPT ![i].stage = IF ReachesZero THEN "refusing" ELSE "rejected", ![i].status = "failed"]
      BY <1>3 DEF AddIrpRefuse
    <2>2. [irp[i] EXCEPT !.stage = IF ReachesZero THEN "refusing" ELSE "rejected", !.status = "failed"] \in IrpRecords
      BY DEF IrpRecords
    <2>3. irp' \in [Irps -> IrpRecords]
      BY <2>1, <2>2
    <2>4. queue' \in QueueRecords
      BY <1>3 DEF AddIrpRefuse, QueueRecords, DecrementOutstandingIoCount
    <2>5. QED
      BY <1>3, <2>3, <2>4, MainUnchanged, IoUnchanged, CompUnchanged, HoldUnchanged DEF AddIrpRefuse
  <1>4. CASE AddIrpRefuseSignal(i)
    <2>1. irp' \in [Irps -> IrpRecords]
      BY <1>4, IrpFields DEF AddIrpRefuseSignal
    <2>2. queue' \in QueueRecords
      BY <1>4 DEF AddIrpRefuseSignal, QueueRecords, SignalNoOutstandingIo
    <2>3. QED
      BY <1>4, <2>1, <2>2, MainUnchanged, IoUnchanged, CompUnchanged, HoldUnchanged DEF AddIrpRefuseSignal
  <1>5. QED
    BY <1>1, <1>2, <1>3, <1>4 DEF AddIrp

(* CompleteIrpWorkItemRoutine *)
LEMMA WorkType ==
    ASSUME TypeOK, NEW i \in Irps, CompleteIrpWorkItemRoutine(i)
    PROVE  TypeOK'
  <1> USE DEF TypeOK
  <1>1. CASE WorkCount(i)
    <2>1. irp' \in [Irps -> IrpRecords]
      BY <1>1, IrpFields DEF WorkCount
    <2>2. queue' \in QueueRecords
      BY <1>1 DEF WorkCount, QueueRecords, DecrementOutstandingIoCount
    <2>3. worker' = [worker EXCEPT ![i] = IF ReachesZero THEN "signal" ELSE "complete"]
      BY <1>1 DEF WorkCount
    <2>4. QED
      BY <1>1, <2>1, <2>2, <2>3, MainUnchanged, IoUnchanged, CompUnchanged, HoldUnchanged DEF WorkCount
  <1>2. CASE WorkSignal(i)
    <2>1. queue' \in QueueRecords
      BY <1>2 DEF WorkSignal, QueueRecords, SignalNoOutstandingIo
    <2>2. QED
      BY <1>2, <2>1, MainUnchanged, IoUnchanged, CompUnchanged, HoldUnchanged DEF WorkSignal
  <1>3. CASE WorkCompleteIrp(i)
    <2>1. irp' \in [Irps -> IrpRecords]
      BY <1>3, IrpFields DEF WorkCompleteIrp
    <2>2. QED
      BY <1>3, <2>1, MainUnchanged, IoUnchanged, CompUnchanged, HoldUnchanged DEF WorkCompleteIrp
  <1>4. CASE WorkLeave(i)
    <2>1. pool' \in PoolRecords
      BY <1>4 DEF WorkLeave, PoolRecords
    <2>2. QED
      BY <1>4, <2>1, MainUnchanged, IoUnchanged, CompUnchanged, HoldUnchanged DEF WorkLeave
  <1>5. CASE WorkReturn(i)
    <2>1. pool' = [pool EXCEPT !.workItems = @ + 1, !.items = @ + 1, !.freeEvent = TRUE]
      BY <1>5 DEF WorkReturn
    <2>2. pool.workItems + 1 \in Nat /\ pool.items + 1 \in Nat
      BY DEF PoolRecords
    <2>3. pool' \in PoolRecords
      BY <2>1, <2>2 DEF PoolRecords
    <2>4. QED
      BY <1>5, <2>3, MainUnchanged, IoUnchanged, CompUnchanged, HoldUnchanged DEF WorkReturn
  <1>6. QED
    BY <1>1, <1>2, <1>3, <1>4, <1>5 DEF CompleteIrpWorkItemRoutine


(* MainThreadProc takes an IRP off its list and admits it *)
LEMMA MainAdmitType ==
    ASSUME TypeOK, MainWait \/ MainIdle \/ MainDequeue \/ MainSuspendCheck \/ MainResumed
    PROVE  TypeOK'
  <1> USE DEF TypeOK
  <1>1. CASE MainWait
    <2>1. list' \in ListRecords
      BY <1>1, NotEmptyType DEF MainWait
    <2>2. MainOK'
      BY <1>1 DEF MainWait, MainOK, MainRecords
    <2>3. QED
      BY <1>1, <2>1, <2>2, IoUnchanged, CompUnchanged, HoldUnchanged DEF MainWait
  <1>2. CASE MainIdle
    <2>1. MainOK'
      BY <1>2 DEF MainIdle, MainOK, MainRecords
    <2>2. QED
      BY <1>2, <2>1, IoUnchanged, CompUnchanged, HoldUnchanged DEF MainIdle
  <1>3. CASE MainDequeue
    <2>1. Head(list.main) \in Irps /\ Tail(list.main) \in Seq(Irps)
      BY <1>3, ListFields DEF MainDequeue
    <2>2. list' \in ListRecords
      <3>1. list' = [list EXCEPT !.main = Tail(list.main)]
        BY <1>3 DEF MainDequeue
      <3>2. QED
        BY <3>1, <2>1 DEF ListRecords
    <2>3. MainOK'
      <3>1. main' = [main EXCEPT !.pc = "suspendCheck", !.irp = Head(list.main)]
        BY <1>3 DEF MainDequeue
      <3>2. QED
        BY <3>1, <2>1 DEF MainOK, MainRecords
    <2>4. QED
      BY <1>3, <2>2, <2>3, IoUnchanged, CompUnchanged, HoldUnchanged DEF MainDequeue
  <1>4. ASSUME Admit, main.irp \in Irps
        PROVE  irp' \in [Irps -> IrpRecords] /\ MainOK'
    <2>1. MainOK'
      BY <1>4 DEF Admit, MainOK, MainRecords
    <2>2. QED
      BY <1>4, <2>1, IrpFields DEF Admit
  <1>5. CASE MainSuspendCheck
    <2>1. main.irp \in Irps
      BY <1>5 DEF MainSuspendCheck, MainOK
    <2>2. CASE queue.Suspended
      <3>1. MainOK'
        BY <1>5, <2>1, <2>2 DEF MainSuspendCheck, MainOK, MainRecords
      <3>2. QED
        BY <1>5, <2>2, <3>1, IoUnchanged, CompUnchanged, HoldUnchanged DEF MainSuspendCheck
    <2>3. CASE ~queue.Suspended
      BY <1>4, <1>5, <2>1, <2>3, IoUnchanged, CompUnchanged, HoldUnchanged DEF MainSuspendCheck
    <2>4. QED
      BY <2>2, <2>3
  <1>6. CASE MainResumed
    <2>1. main.irp \in Irps
      BY <1>6 DEF MainResumed, MainOK
    <2>2. queue' \in QueueRecords
      BY <1>6 DEF MainResumed, QueueRecords
    <2>3. QED
      BY <1>4, <1>6, <2>1, <2>2, IoUnchanged, CompUnchanged, HoldUnchanged DEF MainResumed
  <1>7. QED
    BY <1>1, <1>2, <1>3, <1>5, <1>6

(* MainThreadProc waits for the pools and hands the IRP to a work item *)
LEMMA MainPoolType ==
    ASSUME TypeOK, MainGetItem \/ MainPoolEmpty \/ MainPoolWait \/ MainComplete
    PROVE  TypeOK'
  <1> USE DEF TypeOK
  <1>1. CASE MainGetItem
    <2>1. MainOK'
      BY <1>1 DEF MainGetItem, MainOK, MainRecords
    <2>2. QED
      BY <1>1, <2>1, PoolType, IoUnchanged, CompUnchanged, HoldUnchanged DEF MainGetItem
  <1>2. CASE MainPoolEmpty
    <2>1. MainOK'
      BY <1>2 DEF MainPoolEmpty, MainOK, MainRecords
    <2>2. QED
      BY <1>2, <2>1, IoUnchanged, CompUnchanged, HoldUnchanged DEF MainPoolEmpty
  <1>3. CASE MainPoolWait
    <2>1. MainOK'
      BY <1>3 DEF MainPoolWait, MainOK, MainRecords
    <2>2. QED
      BY <1>3, <2>1, PoolType, IoUnchanged, CompUnchanged, HoldUnchanged DEF MainPoolWait
  <1>4. CASE MainComplete
    <2>1. MainOK'
      BY <1>4 DEF MainComplete, MainOK, MainRecords
    <2>2. QED
      BY <1>4, <2>1, CompletionType, IoUnchanged, CompUnchanged, HoldUnchanged DEF MainComplete
  <1>5. QED
    BY <1>1, <1>2, <1>3, <1>4

(* MainThreadProc answers an IRP without any request *)
LEMMA MainAnswerType ==
    ASSUME TypeOK, MainReject \/ MainDeny \/ MainMisaligned
    PROVE  TypeOK'
  <1> USE DEF TypeOK
  <1>1. main.irp \in Irps
    BY DEF MainReject, MainDeny, MainMisaligned, MainOK
  <1>2. ASSUME NEW s \in {"cancelled", "invalid", "failed", "protected"}, MainFinish(s)
        PROVE  irp' \in [Irps -> IrpRecords] /\ MainOK'
    <2>1. MainOK'
      BY <1>1, <1>2 DEF MainFinish, MainOK, MainRecords
    <2>2. QED
      BY <1>1, <1>2, <2>1, IrpFields DEF MainFinish
  <1>3. CASE MainReject
    <2>1. irp' \in [Irps -> IrpRecords] /\ MainOK'
      BY <1>2, <1>3 DEF MainReject
    <2>2. QED
      BY <1>3, <2>1, IoUnchanged, CompUnchanged, HoldUnchanged DEF MainReject
  <1>4. CASE MainDeny
    <2>1. irp' \in [Irps -> IrpRecords] /\ MainOK'
      BY <1>2, <1>4 DEF MainDeny
    <2>2. store' = [store EXCEPT !.triggered = ~IsFilterDevice]
      BY <1>4 DEF MainDeny
    <2>3. store' \in StoreRecords
      BY <2>2 DEF StoreRecords
    <2>4. HoldOK'
      BY <1>4, <2>2 DEF MainDeny, HoldOK, NextBlock, Area, StoreRecords
    <2>5. QED
      BY <1>4, <2>1, <2>3, <2>4, IoUnchanged, CompUnchanged DEF MainDeny
  <1>5. CASE MainMisaligned
    <2> DEFINE data == [s \in Sectors |->
                          IF s \notin irp[main.irp].todo THEN irp[main.irp].data[s]
                          ELSE IF s \in SecRegion THEN Cell("region", s, 0)
                          ELSE AddLayers(store.disk[s], IF s \in Area THEN -1 ELSE 0)]
    <2>1. irp' = [irp EXCEPT ![main.irp].todo = {}, ![main.irp].data = data]
      BY <1>5 DEF MainMisaligned
    <2>2. ASSUME NEW s \in Sectors
          PROVE  data[s] \in Cells
      <3>1. irp[main.irp].data[s] \in Cells
        BY <1>1 DEF IrpRecords
      <3>2. Cell("region", s, 0) \in Cells
        BY CellType DEF Sectors
      <3>3. store.disk[s] \in Cells
        BY QueueAssumption DEF StoreRecords, Sectors, PhysicalSectors
      <3>4. AddLayers(store.disk[s], -1) \in Cells /\ AddLayers(store.disk[s], 0) \in Cells
        BY <3>3, AddLayersType
      <3>5. QED
        BY <3>1, <3>2, <3>4
    <2>3. data \in [Sectors -> Cells]
      BY <2>2
    <2> HIDE DEF data
    <2>4. [irp[main.irp] EXCEPT !.todo = {}, !.data = data] \in IrpRecords
      BY <1>1, <2>3, IrpDataType
    <2>5. irp' \in [Irps -> IrpRecords]
      BY <1>1, <2>1, <2>4
    <2>6. MainOK'
      BY <1>1, <1>5 DEF MainMisaligned, MainOK, MainRecords
    <2>7. QED
      BY <1>5, <2>5, <2>6, IoUnchanged, CompUnchanged, HoldUnchanged DEF MainMisaligned
  <1>6. QED
    BY <1>3, <1>4, <1>5

(* GetIntersection yields an offset into the fragment and a length *)
LEMMA IntersectionType ==
    ASSUME NEW off \in Nat, NEW len \in Int, NEW start \in Int, NEW end \in Int
    PROVE  Intersection(off, len, start, end).off \in Nat /\ Intersection(off, len, start, end).len \in Nat
  <1> DEFINE first == IF off >= start THEN off ELSE start
             last == IF off + len - 1 <= end THEN off + len - 1 ELSE end
  <1>1. first \in Int /\ last \in Int /\ first - off \in Nat
    OBVIOUS
  <1> HIDE DEF first, last
  <1>2. CASE start = -1 \/ end = -1 \/ first > last
    <2>1. Intersection(off, len, start, end) = [off |-> 0, len |-> 0]
      BY <1>2 DEF Intersection, first, last
    <2>2. QED
      BY <2>1
  <1>3. CASE ~(start = -1 \/ end = -1 \/ first > last)
    <2>1. Intersection(off, len, start, end) = [off |-> first - off, len |-> last + 1 - first]
      BY <1>3 DEF Intersection, first, last
    <2>2. last + 1 - first \in Nat
      BY <1>1, <1>3
    <2>3. QED
      BY <1>1, <2>1, <2>2
  <1>4. QED
    BY <1>2, <1>3

(* MainThreadProc cuts an IRP into requests *)
LEMMA MainCutType ==
    ASSUME TypeOK, MainFlush \/ MainFragment \/ MainGetRequest
    PROVE  TypeOK'
  <1> USE DEF TypeOK
  <1> DEFINE op == irp[main.irp].op
  <1>1. main.irp \in Irps
    BY DEF MainFlush, MainFragment, MainGetRequest, MainOK
  <1>2. op.off \in Nat /\ op.len \in Nat
    <2>1. op \in Ops \cup {Unissued.op}
      BY <1>1 DEF IrpRecords
    <2>2. QED
      BY <2>1, QueueAssumption DEF Unissued
  <1> HIDE DEF op
  <1>3. [list EXCEPT !.ioPending = @ + 1] \in ListRecords
    BY DEF ListRecords
  <1>4. CASE MainFlush
    <2>1. MainOK'
      BY <1>1, <1>4 DEF MainFlush, MainOK, MainRecords
    <2>2. QED
      BY <1>3, <1>4, <2>1, IoUnchanged, CompUnchanged, HoldUnchanged DEF MainFlush
  <1>5. CASE MainFragment
    <2>1. main' = [main EXCEPT !.pc = "getRequest", !.buf = IF main.buf = "A" THEN "B" ELSE "A",
                               !.off = IF main.pc = "dispatch" THEN op.off ELSE main.off]
      BY <1>5 DEF MainFragment, op
    <2>2. MainOK'
      BY <1>1, <1>2, <2>1 DEF MainOK, MainRecords, FragmentBuffers
    <2>3. QED
      BY <1>3, <1>5, <2>2, IoUnchanged, CompUnchanged, HoldUnchanged DEF MainFragment
  <1>6. CASE MainGetRequest /\ op.kind = "flush"
    <2> DEFINE r == FlushRequest(main.irp)
    <2>1. r \in Requests
      BY <1>1 DEF FlushRequest, Requests, Buffers
    <2>2. EnqueueIo(r) /\ main' = [main EXCEPT !.pc = "drain", !.irp = "none"]
      BY <1>6 DEF MainGetRequest, op
    <2> HIDE DEF r
    <2>3. list' \in ListRecords
      BY <2>1, <2>2, EnqueueType DEF EnqueueIo
    <2>4. MainOK'
      BY <2>2 DEF MainOK, MainRecords
    <2>5. QED
      BY <1>6, <2>3, <2>4, PoolType, IoUnchanged, CompUnchanged, HoldUnchanged DEF MainGetRequest
  <1>7. CASE MainGetRequest /\ op.kind # "flush"
    <2>1. main' = [main EXCEPT !.pc = "acquire", !.req = NextRequest] /\ UNCHANGED list
      BY <1>7 DEF MainGetRequest, op
    <2> DEFINE remaining == op.off + op.len - main.off
               len == IF remaining <= FragmentSize THEN remaining ELSE FragmentSize
               enc == Intersection(main.off, len, store.start, store.end)
    <2>2. main.off \in Nat /\ main.buf \in Buffers
      BY DEF MainOK, MainRecords, Buffers
    <2>3. len \in Int
      BY <1>2, <2>2, QueueAssumption
    <2>4. store.start \in Int /\ store.end \in Int
      BY DEF StoreRecords, Sectors
    <2>5. NextRequest = [irp |-> main.irp, off |-> main.off, len |-> len, buf |-> main.buf,
                         encOff |-> enc.off, encLen |-> enc.len, last |-> remaining <= FragmentSize]
      BY DEF NextRequest, op
    <2> HIDE DEF len, remaining
    <2>6. enc.off \in Nat /\ enc.len \in Nat
      <3>1. \A off \in Nat, n, start, end \in Int :
               Intersection(off, n, start, end).off \in Nat /\ Intersection(off, n, start, end).len \in Nat
        BY IntersectionType
      <3>2. QED
        BY <2>2, <2>3, <2>4, <3>1
    <2> HIDE DEF enc
    <2>7. NextRequest \in Requests
      BY <1>1, <2>2, <2>3, <2>5, <2>6 DEF Requests
    <2>8. MainOK'
      BY <1>1, <2>1, <2>7 DEF MainOK, MainRecords
    <2>9. QED
      BY <1>7, <2>1, <2>8, PoolType, IoUnchanged, CompUnchanged, HoldUnchanged DEF MainGetRequest
  <1>8. QED
    BY <1>4, <1>5, <1>6, <1>7

(* MainThreadProc fills a fragment buffer and queues the request *)
LEMMA MainAcquireType ==
    ASSUME TypeOK, MainAcquire
    PROVE  TypeOK'
  <1> USE DEF TypeOK
  <1> DEFINE r == main.req
             cells == [s \in Sectors |->
                         IF s \in Extent(r) /\ irp[r.irp].op.kind = "write"
                         THEN Cell(r.irp, s, IF s \in Enc(r) THEN 1 ELSE 0) ELSE buffer.cells[r.buf][s]]
  <1>1. r \in Requests /\ main.irp \in Irps
    BY DEF MainAcquire, MainOK
  <1>2. cells \in [Sectors -> Cells]
    <2>1. ASSUME NEW s \in Sectors PROVE cells[s] \in Cells
      <3>1. r.irp \in Irps /\ r.buf \in Buffers /\ s \in Int
        BY <1>1 DEF Requests, Sectors
      <3>2. buffer.cells[r.buf][s] \in Cells
        BY <3>1 DEF BufferRecords
      <3>3. Cell(r.irp, s, 1) \in Cells /\ Cell(r.irp, s, 0) \in Cells
        BY <3>1 DEF Cell, Cells
      <3>4. QED
        BY <3>2, <3>3
    <2>2. QED
      BY <2>1
  <1>3. /\ buffer' = [buffer EXCEPT !.free[r.buf] = FALSE, !.cells[r.buf] = cells]
        /\ EnqueueIo(r)
        /\ main' = IF r.last THEN [main EXCEPT !.pc = "drain", !.irp = "none", !.off = 0, !.req = NoRequest]
                             ELSE [main EXCEPT !.pc = "fragment", !.off = @ + FragmentSize, !.req = NoRequest]
        /\ UNCHANGED <<irp, queue, pool, store, io, comp, worker, hold, stop>>
    BY DEF MainAcquire, FillAndQueue
  <1> HIDE DEF cells
  <1>4. buffer' \in BufferRecords
    BY <1>2, <1>3 DEF BufferRecords
  <1>5. list' \in ListRecords
    BY <1>1, <1>3, EnqueueType DEF EnqueueIo
  <1>6. main.off + FragmentSize \in Nat
    BY QueueAssumption DEF MainOK, MainRecords
  <1>7. MainOK'
    BY <1>1, <1>3, <1>6 DEF MainOK, MainRecords
  <1>8. QED
    BY <1>3, <1>4, <1>5, <1>7, IoUnchanged, CompUnchanged, HoldUnchanged

(* MainThreadProc *)
LEMMA MainType ==
    ASSUME TypeOK, MainThreadProc
    PROVE  TypeOK'
  BY MainAdmitType, MainPoolType, MainAnswerType, MainCutType, MainAcquireType DEF MainThreadProc

(* A request that leaves the I/O thread *)
LEMMA IoDoneType ==
    ASSUME TypeOK, io' = [pc |-> "drain", req |-> NoRequest] \/ io' = [pc |-> "readAheadDone", req |-> NoRequest]
    PROVE  IoOK'
  BY DEF IoOK, IoRecords

(* IoThreadProc waits for requests, and leaves them to others *)
LEMMA IoControlType ==
    ASSUME TypeOK, IoWait \/ IoIdle \/ IoDequeue \/ IoReadQueue \/ IoReadAheadDone \/ IoSignal \/ IoComplete \/ IoRelease
    PROVE  TypeOK'
  <1> USE DEF TypeOK
  <1>1. CASE IoWait
    <2>1. IoOK'
      BY <1>1 DEF IoWait, IoOK, IoRecords
    <2>2. list' \in ListRecords
      BY <1>1, NotEmptyType DEF IoWait
    <2>3. QED
      BY <1>1, <2>1, <2>2, MainUnchanged, CompUnchanged, HoldUnchanged DEF IoWait
  <1>2. CASE IoIdle
    <2>1. IoOK'
      BY <1>2 DEF IoIdle, IoOK, IoRecords
    <2>2. QED
      BY <1>2, <2>1, MainUnchanged, CompUnchanged, HoldUnchanged DEF IoIdle
  <1>3. CASE IoDequeue
    <2>1. Head(list.io) \in Requests /\ Tail(list.io) \in Seq(Requests) /\ list.ioPending - 1 \in Int
      BY <1>3, ListFields DEF IoDequeue
    <2>2. list' = [list EXCEPT !.io = Tail(list.io), !.ioPending = list.ioPending - 1]
      BY <1>3 DEF IoDequeue
    <2>3. list' \in ListRecords
      BY <2>1, <2>2 DEF ListRecords
    <2>4. io' = [pc |-> "io", req |-> Head(list.io)]
      BY <1>3 DEF IoDequeue
    <2>5. IoOK'
      BY <2>1, <2>4 DEF IoOK, IoRecords
    <2>6. QED
      BY <1>3, <2>3, <2>5, MainUnchanged, CompUnchanged, HoldUnchanged DEF IoDequeue
  <1>4. CASE IoReadQueue
    <2>1. io.req \in Requests
      BY <1>4 DEF IoReadQueue, IoOK
    <2>2. list' = [list EXCEPT !.comp = Append(list.comp, io.req), !.notEmpty["comp"] = TRUE]
      BY <1>4 DEF IoReadQueue
    <2>3. list' \in ListRecords
      BY <2>1, <2>2, EnqueueType
    <2>4. queue' \in QueueRecords
      BY <1>4 DEF IoReadQueue, QueueRecords
    <2>5. IoOK'
      BY <1>4, <2>1 DEF IoReadQueue, IoOK, IoRecords
    <2>6. QED
      BY <1>4, <2>3, <2>4, <2>5, MainUnchanged, CompUnchanged, HoldUnchanged DEF IoReadQueue
  <1>5. CASE IoReadAheadDone
    <2>1. IoOK'
      BY <1>5 DEF IoReadAheadDone, IoOK, IoRecords
    <2>2. queue' \in QueueRecords
      BY <1>5 DEF IoReadAheadDone, DecrementOutstandingIoCount, QueueRecords
    <2>3. QED
      BY <1>5, <2>1, <2>2, MainUnchanged, CompUnchanged, HoldUnchanged DEF IoReadAheadDone
  <1>6. CASE IoSignal
    <2>1. IoOK'
      BY <1>6 DEF IoSignal, IoOK, IoRecords
    <2>2. queue' \in QueueRecords
      BY <1>6 DEF IoSignal, SignalNoOutstandingIo, QueueRecords
    <2>3. QED
      BY <1>6, <2>1, <2>2, MainUnchanged, CompUnchanged, HoldUnchanged DEF IoSignal
  <1>7. CASE IoComplete
    <2>1. IoOK'
      BY <1>7 DEF IoComplete, IoOK, IoRecords
    <2>2. QED
      BY <1>7, <2>1, CompletionType, MainUnchanged, CompUnchanged, HoldUnchanged DEF IoComplete
  <1>8. CASE IoRelease
    BY <1>8, IoDoneType, PoolType, MainUnchanged, CompUnchanged, HoldUnchanged DEF IoRelease
  <1>9. QED
    BY <1>1, <1>2, <1>3, <1>4, <1>5, <1>6, <1>7, <1>8

(* ReleaseFragmentBuffer *)
LEMMA ReleaseFragmentType ==
    ASSUME TypeOK, NEW b
    PROVE  /\ ReleaseFragment(b) \in BufferRecords
           /\ [ReleaseFragment(b) EXCEPT !.aheadValid = FALSE, !.ahead = <<>>] \in BufferRecords
  <1>1. [buffer.cells EXCEPT ![b] = Clear] \in [Buffers -> [Sectors -> Cells]]
    BY GarbageType DEF TypeOK, BufferRecords
  <1>2. [buffer.free EXCEPT ![b] = TRUE] \in [FragmentBuffers -> BOOLEAN]
    BY DEF TypeOK, BufferRecords
  <1>3. ReleaseFragment(b) \in BufferRecords
    BY <1>1, <1>2 DEF TypeOK, BufferRecords, ReleaseFragment
  <1> DEFINE x == ReleaseFragment(b)
  <1>4. x \in BufferRecords
    BY <1>3
  <1> HIDE DEF x
  <1>5. [x EXCEPT !.aheadValid = FALSE, !.ahead = <<>>] \in BufferRecords
    <2>1. <<>> \in Seq(Cells)
      OBVIOUS
    <2>2. QED
      BY <1>4, <2>1 DEF BufferRecords
  <1>6. QED
    BY <1>3, <1>5 DEF x

(* A write or a flush reaches the device *)
LEMMA IoWriteType ==
    ASSUME TypeOK, IoFlush \/ IoWrite
    PROVE  TypeOK'
  <1> USE DEF TypeOK
  <1> DEFINE r == io.req
  <1>1. r \in Requests /\ r.irp \in Irps /\ r.buf \in Buffers
    BY DEF IoFlush, IoWrite, IoOK, Requests
  <1>2. CASE IoFlush
    <2>1. PICK done \in Outcomes(io.req.irp) :
            irp' = [irp EXCEPT ![r.irp].status = IF @ = "ok" /\ (IsFilterDevice \/ ~done) THEN "failed" ELSE @]
      BY <1>2 DEF IoFlush
    <2>2. IF irp[r.irp].status = "ok" /\ (IsFilterDevice \/ ~done)
          THEN irp' = [irp EXCEPT ![r.irp].status = "failed"]
          ELSE irp' = [irp EXCEPT ![r.irp].status = irp[r.irp].status]
      BY <2>1
    <2>3. irp' \in [Irps -> IrpRecords]
      <3>1. irp[r.irp].status \in {"ok", "cancelled", "invalid", "failed", "protected"}
        BY <1>1 DEF IrpRecords
      <3>2. \A s \in {"ok", "cancelled", "invalid", "failed", "protected"} :
               [irp EXCEPT ![r.irp].status = s] \in [Irps -> IrpRecords]
        BY <1>1, IrpFields
      <3>3. QED
        BY <2>2, <3>1, <3>2
    <2>4. IoOK'
      BY <1>1, <1>2 DEF IoFlush, IoOK, IoRecords
    <2>5. QED
      BY <1>2, <2>3, <2>4, MainUnchanged, CompUnchanged, HoldUnchanged DEF IoFlush
  <1>3. CASE IoWrite
    <2>1. ASSUME irp[r.irp].status = "ok"
          PROVE  irp' \in [Irps -> IrpRecords] /\ store' \in StoreRecords /\ HoldOK'
      <3>1. PICK done \in [Pieces(r) -> Outcomes(r.irp)], W \in SUBSET Extent(r) :
              /\ store' = [store EXCEPT !.disk = [p \in PhysicalSectors |->
                              IF \E s \in W : DeviceSector(r, s) = p
                              THEN buffer.cells[r.buf][CHOOSE s \in W : DeviceSector(r, s) = p] ELSE @[p]]]
              /\ irp' = [irp EXCEPT ![r.irp].todo = @ \ W, ![r.irp].status = StatusOf(r, done)]
        BY <1>3, <2>1 DEF IoWrite, DeviceWrite
      <3> DEFINE disk == [p \in PhysicalSectors |->
                            IF \E s \in W : DeviceSector(r, s) = p
                            THEN buffer.cells[r.buf][CHOOSE s \in W : DeviceSector(r, s) = p] ELSE store.disk[p]]
      <3>2. ASSUME NEW p \in PhysicalSectors PROVE disk[p] \in Cells
        <4>1. CASE \E s \in W : DeviceSector(r, s) = p
          <5>1. (CHOOSE s \in W : DeviceSector(r, s) = p) \in Sectors
            BY <4>1 DEF Extent
          <5>2. buffer.cells[r.buf] \in [Sectors -> Cells]
            BY <1>1 DEF BufferRecords
          <5>3. QED
            BY <4>1, <5>1, <5>2
        <4>2. CASE ~\E s \in W : DeviceSector(r, s) = p
          BY <4>2 DEF StoreRecords
        <4>3. QED
          BY <4>1, <4>2
      <3>3. store' = [store EXCEPT !.disk = disk]
        BY <3>1
      <3>4. disk \in [PhysicalSectors -> Cells]
        BY <3>2
      <3> HIDE DEF disk
      <3>5. store' \in StoreRecords
        BY <3>3, <3>4 DEF StoreRecords
      <3>6. store'.start = store.start /\ store'.end = store.end /\ hold' = hold
        BY <1>3, <3>3 DEF StoreRecords, IoWrite
      <3>7. HoldOK'
        BY <3>6 DEF HoldOK, NextBlock, Area
      <3>8. StatusOf(r, done) \in {"ok", "failed"}
        BY DEF StatusOf
      <3>9. [irp[r.irp] EXCEPT !.todo = @ \ W, !.status = StatusOf(r, done)] \in IrpRecords
        BY ZenonT(60), <1>1, <3>8 DEF IrpRecords
      <3>10. irp' \in [Irps -> IrpRecords]
        BY <1>1, <3>1, <3>9
      <3>11. QED
        BY <3>5, <3>7, <3>10
    <2>2. ASSUME irp[r.irp].status # "ok"
          PROVE  irp' \in [Irps -> IrpRecords] /\ store' \in StoreRecords /\ HoldOK'
      <3>1. UNCHANGED <<irp, store, hold>>
        BY <1>3, <2>2 DEF IoWrite, DeviceWrite
      <3>2. QED
        BY <3>1, HoldUnchanged
    <2>3. buffer' \in BufferRecords
      BY <1>3, ReleaseFragmentType DEF IoWrite
    <2>4. IoOK' /\ pool' \in PoolRecords
      <3>1. CASE r.last
        <4>1. io' = [io EXCEPT !.pc = "complete"] /\ pool' = pool
          BY <1>3, <3>1 DEF IoWrite
        <4>2. QED
          BY <1>1, <4>1 DEF IoOK, IoRecords
      <3>2. CASE ~r.last
        BY <1>3, <3>2, IoDoneType, PoolType DEF IoWrite
      <3>3. QED
        BY <3>1, <3>2
    <2>5. QED
      BY <1>3, <2>1, <2>2, <2>3, <2>4, MainUnchanged, CompUnchanged DEF IoWrite
  <1>4. QED
    BY <1>2, <1>3

(* TCCachedRead copies what the read-ahead buffer or the disk holds *)
LEMMA CachedCellType ==
    ASSUME TypeOK, NEW r \in Requests, NEW k \in Pieces(r), NEW s \in PieceSectors(r, k) \cap Sectors
    PROVE  CachedCell(Piece(r, k), s) \in Cells
  <1> DEFINE p == Piece(r, k)
  <1>1. r.off \in Nat /\ r.encOff \in Nat /\ r.encLen \in Nat /\ r.len \in Int /\ k \in 1 .. 3
    BY DEF Requests, Pieces
  <1>2. p.off \in Nat /\ p.len \in Int /\ (p.at = p.off \/ p.at = p.off + RemapOffset)
    BY <1>1, QueueAssumption DEF Piece
  <1>3. s \in p.off .. (p.off + p.len - 1) /\ s \in 0 .. (DiskLength - 1)
    BY DEF PieceSectors, Sectors
  <1> HIDE DEF p
  <1>4. CASE buffer.aheadValid /\ buffer.aheadOff = p.at /\ Len(buffer.ahead) >= p.len
    <2>1. buffer.ahead \in Seq(Cells)
      BY DEF TypeOK, BufferRecords
    <2>2. s - p.off + 1 \in 1 .. Len(buffer.ahead)
      BY <1>2, <1>3, <1>4, <2>1
    <2>3. buffer.ahead[s - p.off + 1] \in Cells
      BY <2>1, <2>2
    <2>4. QED
      BY <1>4, <2>3 DEF CachedCell, p
  <1>5. CASE ~(buffer.aheadValid /\ buffer.aheadOff = p.at /\ Len(buffer.ahead) >= p.len)
    <2>1. s - p.off + p.at \in PhysicalSectors
      BY <1>2, <1>3, QueueAssumption DEF PhysicalSectors
    <2>2. store.disk[s - p.off + p.at] \in Cells
      BY <2>1 DEF TypeOK, StoreRecords
    <2>3. QED
      BY <1>5, <2>2 DEF CachedCell, p
  <1>6. QED
    BY <1>4, <1>5

(* A read from the device *)
LEMMA IoReadType ==
    ASSUME TypeOK, IoRead
    PROVE  TypeOK'
  <1> USE DEF TypeOK
  <1> DEFINE r == io.req
  <1>1. r \in Requests /\ r.irp \in Irps /\ r.buf \in Buffers
    BY DEF IoRead, IoOK, Requests
  <1>2. irp' \in [Irps -> IrpRecords]
    <2>1. CASE irp[r.irp].status = "ok"
      <3>1. PICK done \in [Pieces(r) -> Outcomes(r.irp)] :
              irp' = IF StatusOf(r, done) # "ok"
                     THEN [irp EXCEPT ![r.irp].status = "failed"]
                     ELSE [irp EXCEPT ![r.irp].todo = @ \ Transferred(r, done),
                                      ![r.irp].data = [s \in Sectors |->
                                         IF s \notin Extent(r) THEN @[s]
                                         ELSE IF s \notin Transferred(r, done) THEN Garbage
                                         ELSE CachedCell(Piece(r, CHOOSE k \in Pieces(r) : s \in PieceSectors(r, k)), s)]]
        BY <2>1 DEF IoRead, DeviceRead
      <3>2. CASE StatusOf(r, done) # "ok"
        BY <1>1, <3>1, <3>2, IrpFields
      <3>3. CASE StatusOf(r, done) = "ok"
        <4> DEFINE data == [s \in Sectors |->
                              IF s \notin Extent(r) THEN irp[r.irp].data[s]
                              ELSE IF s \notin Transferred(r, done) THEN Garbage
                              ELSE CachedCell(Piece(r, CHOOSE k \in Pieces(r) : s \in PieceSectors(r, k)), s)]
        <4>1. irp' = [irp EXCEPT ![r.irp].todo = irp[r.irp].todo \ Transferred(r, done), ![r.irp].data = data]
          BY <3>1, <3>3
        <4>2. ASSUME NEW s \in Sectors PROVE data[s] \in Cells
          <5>1. irp[r.irp].data[s] \in Cells
            BY <1>1 DEF IrpRecords
          <5>2. ASSUME s \in Transferred(r, done)
                PROVE  CachedCell(Piece(r, CHOOSE k \in Pieces(r) : s \in PieceSectors(r, k)), s) \in Cells
            <6>1. \E k \in Pieces(r) : s \in PieceSectors(r, k)
              BY <5>2 DEF Transferred
            <6>2. PICK k \in Pieces(r) : k = (CHOOSE j \in Pieces(r) : s \in PieceSectors(r, j)) /\ s \in PieceSectors(r, k)
              BY <6>1
            <6>3. CachedCell(Piece(r, k), s) \in Cells
              BY <1>1, <6>2, CachedCellType
            <6>4. QED
              BY <6>2, <6>3
          <5>3. QED
            BY <5>1, <5>2, GarbageType
        <4>3. data \in [Sectors -> Cells]
          BY <4>2
        <4> HIDE DEF data
        <4>4. irp[r.irp] \in IrpRecords /\ irp[r.irp].todo \ Transferred(r, done) \in SUBSET Sectors
          BY <1>1 DEF IrpRecords
        <4>5. [irp[r.irp] EXCEPT !.todo = irp[r.irp].todo \ Transferred(r, done), !.data = data] \in IrpRecords
          BY <4>3, <4>4, IrpDataType
        <4>6. QED
          BY <1>1, <4>1, <4>5
      <3>4. QED
        BY <3>2, <3>3
    <2>2. CASE irp[r.irp].status # "ok"
      BY <2>2 DEF IoRead, DeviceRead
    <2>3. QED
      BY <2>1, <2>2
  <1>3. buffer' \in BufferRecords
    BY ReleaseFragmentType DEF IoRead
  <1>4. IoOK'
    BY <1>1 DEF IoRead, IoOK, IoRecords
  <1>5. QED
    BY <1>2, <1>3, <1>4, MainUnchanged, CompUnchanged, HoldUnchanged DEF IoRead

(* Reading ahead fills the read-ahead buffer from the disk *)
LEMMA IoReadAheadType ==
    ASSUME TypeOK, IoReadAhead
    PROVE  TypeOK'
  <1> USE DEF TypeOK
  <1> DEFINE r == io.req
             p == LastPiece(r)
             off == p.at + p.len
  <1>1. r \in Requests
    BY DEF IoReadAhead, IoOK
  <1>2. p.at \in Nat /\ p.len \in Int
    <2>1. r.off \in Nat /\ r.encOff \in Nat /\ r.encLen \in Nat /\ r.len \in Int
      BY <1>1 DEF Requests
    <2>2. \A k \in 1 .. 3 : Piece(r, k).at \in Nat /\ Piece(r, k).len \in Int
      BY <2>1, QueueAssumption DEF Piece
    <2>3. QED
      BY <2>2 DEF LastPiece
  <1>3. PICK done \in Outcomes(io.req.irp) :
          buffer' = IF done /\ off + p.len <= DiskLength + RemapOffset
                    THEN [buffer EXCEPT !.aheadValid = TRUE, !.aheadOff = off,
                                        !.ahead = [k \in 1 .. p.len |-> store.disk[off + k - 1]]]
                    ELSE [buffer EXCEPT !.aheadValid = FALSE, !.ahead = <<>>]
    BY DEF IoReadAhead
  <1> HIDE DEF p
  <1>4. ASSUME done, off + p.len <= DiskLength + RemapOffset
        PROVE  buffer' \in BufferRecords
    <2> DEFINE ahead == [k \in 1 .. p.len |-> store.disk[off + k - 1]]
    <2>1. ahead \in Seq(Cells)
      <3>1. \A k \in 1 .. p.len : off + k - 1 \in PhysicalSectors
        BY <1>2, <1>4, QueueAssumption DEF PhysicalSectors
      <3>2. \A k \in 1 .. p.len : store.disk[off + k - 1] \in Cells
        BY <3>1 DEF StoreRecords
      <3>3. ahead \in [1 .. p.len -> Cells]
        BY <3>2
      <3>4. PICK n \in Nat : 1 .. p.len = 1 .. n
        <4>1. CASE p.len >= 0
          BY <1>2, <4>1
        <4>2. CASE p.len < 0
          <5>1. 1 .. p.len = 1 .. 0
            BY <1>2, <4>2
          <5>2. QED
            BY <5>1
        <4>3. QED
          BY <1>2, <4>1, <4>2
      <3> HIDE DEF ahead
      <3>5. ahead \in [1 .. n -> Cells]
        BY <3>3, <3>4
      <3>6. ahead \in UNION {[1 .. m -> Cells] : m \in Nat}
        BY <3>5
      <3>7. QED
        BY <3>6, SeqDef, Zenon
    <2>2. buffer' = [buffer EXCEPT !.aheadValid = TRUE, !.aheadOff = off, !.ahead = ahead]
      BY <1>3, <1>4
    <2>3. off \in Int
      BY <1>2
    <2> HIDE DEF ahead, off
    <2>4. QED
      BY <2>1, <2>2, <2>3 DEF BufferRecords
  <1>5. ASSUME ~(done /\ off + p.len <= DiskLength + RemapOffset)
        PROVE  buffer' \in BufferRecords
    <2>1. <<>> \in Seq(Cells)
      OBVIOUS
    <2>2. buffer' = [buffer EXCEPT !.aheadValid = FALSE, !.ahead = <<>>]
      BY <1>3, <1>5
    <2>3. QED
      BY <2>1, <2>2 DEF BufferRecords
  <1>6. buffer' \in BufferRecords
    BY <1>4, <1>5
  <1>7. QED
    BY <1>6, IoDoneType, MainUnchanged, CompUnchanged, HoldUnchanged DEF IoReadAhead

(* IoThreadProc *)
LEMMA IoType ==
    ASSUME TypeOK, IoThreadProc
    PROVE  TypeOK'
  BY IoControlType, IoWriteType, IoReadType, IoReadAheadType DEF IoThreadProc

(* CompletionThreadProc *)
LEMMA CompType ==
    ASSUME TypeOK, CompletionThreadProc
    PROVE  TypeOK'
  <1> USE DEF TypeOK
  <1>1. CASE CompWait
    <2>1. CompOK'
      BY <1>1 DEF CompWait, CompOK, CompRecords
    <2>2. list' \in ListRecords
      BY <1>1, NotEmptyType DEF CompWait
    <2>3. QED
      BY <1>1, <2>1, <2>2, MainUnchanged, IoUnchanged, HoldUnchanged DEF CompWait
  <1>2. CASE CompIdle
    <2>1. CompOK'
      BY <1>2 DEF CompIdle, CompOK, CompRecords
    <2>2. QED
      BY <1>2, <2>1, MainUnchanged, IoUnchanged, HoldUnchanged DEF CompIdle
  <1>3. CASE CompDecrypt
    <2> DEFINE r == Head(list.comp)
               data == [s \in Sectors |->
                          IF s \in Extent(r) \cap SecRegion THEN Cell("region", s, 0)
                          ELSE IF s \in Enc(r) /\ irp[r.irp].status = "ok" THEN AddLayers(irp[r.irp].data[s], -1)
                          ELSE irp[r.irp].data[s]]
    <2>1. r \in Requests /\ Tail(list.comp) \in Seq(Requests)
      BY <1>3, ListFields DEF CompDecrypt
    <2>2. /\ irp' = [irp EXCEPT ![r.irp].data = data]
          /\ comp' = [pc |-> IF r.last THEN "complete" ELSE "release", req |-> r]
          /\ list' = [list EXCEPT !.comp = Tail(list.comp)]
      BY <1>3 DEF CompDecrypt
    <2> HIDE DEF r
    <2>3. r.irp \in Irps
      BY <2>1 DEF Requests
    <2>4. ASSUME NEW s \in Sectors PROVE data[s] \in Cells
      <3>1. irp[r.irp].data[s] \in Cells
        BY <2>3 DEF IrpRecords
      <3>2. AddLayers(irp[r.irp].data[s], -1) \in Cells
        BY <3>1, AddLayersType
      <3>3. Cell("region", s, 0) \in Cells
        BY DEF Cell, Cells, Sectors
      <3>4. QED
        BY <3>1, <3>2, <3>3
    <2>5. data \in [Sectors -> Cells]
      BY <2>4
    <2> HIDE DEF data
    <2>6. irp[r.irp] \in IrpRecords
      BY <2>3
    <2>7. [irp[r.irp] EXCEPT !.data = data] \in IrpRecords
      BY <2>5, <2>6, IrpDataType
    <2>8. irp' \in [Irps -> IrpRecords]
      BY <2>2, <2>3, <2>7
    <2>9. list' \in ListRecords
      BY <2>1, <2>2 DEF ListRecords
    <2>10. CompOK'
      BY <2>1, <2>2 DEF CompOK, CompRecords
    <2>11. QED
      BY <1>3, <2>8, <2>9, <2>10, MainUnchanged, IoUnchanged, HoldUnchanged DEF CompDecrypt
  <1>4. CASE CompComplete
    <2>1. CompOK'
      BY <1>4 DEF CompComplete, CompOK, CompRecords
    <2>2. QED
      BY <1>4, <2>1, CompletionType, MainUnchanged, IoUnchanged, HoldUnchanged DEF CompComplete
  <1>5. CASE CompRelease
    <2>1. CompOK'
      BY <1>5 DEF CompRelease, CompOK, CompRecords
    <2>2. QED
      BY <1>5, <2>1, PoolType, MainUnchanged, IoUnchanged, HoldUnchanged DEF CompRelease
  <1>6. QED
    BY <1>1, <1>2, <1>3, <1>4, <1>5 DEF CompletionThreadProc

(* EncryptedIoQueueHoldWhenIdle and EncryptedIoQueueResumeFromHold *)
LEMMA HoldType ==
    ASSUME TypeOK, EncryptedIoQueueHoldWhenIdle \/ EncryptedIoQueueResumeFromHold
    PROVE  TypeOK'
  <1> USE DEF TypeOK
  <1>1. ASSUME NEW from, NEW to \in {"idle", "check", "wait", "recheck", "clear", "suspend", "verify", "held"},
               HoldStep(from, to), UNCHANGED store
        PROVE  HoldOK'
    BY <1>1 DEF HoldStep, HoldOK, HoldRecords
  <1>2. ASSUME UNCHANGED <<irp, list, pool, store, main, io, comp, worker, stop>>,
               queue' \in QueueRecords, buffer' \in BufferRecords, HoldOK'
        PROVE  TypeOK'
    BY <1>2, MainUnchanged, IoUnchanged, CompUnchanged
  <1>3. CASE HoldBegin
    <2>1. queue' \in QueueRecords
      BY <1>3 DEF HoldBegin, QueueRecords
    <2>2. HoldOK'
      <3>1. hold' = [hold EXCEPT !.pc = "check", !.left = hold.left - 1]
        BY <1>3 DEF HoldBegin
      <3>2. hold.left - 1 \in Nat
        BY <1>3 DEF HoldBegin, HoldOK, HoldRecords
      <3>3. QED
        BY <3>1, <3>2 DEF HoldOK, HoldRecords
    <2>3. QED
      BY <1>2, <1>3, <2>1, <2>2 DEF HoldBegin
  <1>4. CASE HoldCheck
    BY <1>1, <1>2, <1>4 DEF HoldCheck
  <1>5. CASE HoldWait
    <2>1. queue' \in QueueRecords
      BY <1>5 DEF HoldWait, QueueRecords
    <2>2. QED
      BY <1>1, <1>2, <1>5, <2>1 DEF HoldWait
  <1>6. CASE HoldFail
    <2>1. queue' \in QueueRecords
      BY <1>6 DEF HoldFail, QueueRecords
    <2>2. QED
      BY <1>1, <1>2, <1>6, <2>1 DEF HoldFail
  <1>7. CASE HoldRecheck
    BY <1>1, <1>2, <1>7 DEF HoldRecheck
  <1>8. CASE HoldClear
    <2>1. queue' \in QueueRecords
      BY <1>8 DEF HoldClear, QueueRecords
    <2>2. QED
      BY <1>1, <1>2, <1>8, <2>1 DEF HoldClear
  <1>9. CASE HoldSuspend
    <2>1. queue' \in QueueRecords
      BY <1>9 DEF HoldSuspend, QueueRecords
    <2>2. QED
      BY <1>1, <1>2, <1>9, <2>1 DEF HoldSuspend
  <1>10. CASE HoldGrant
    <2>1. queue' \in QueueRecords
      BY <1>10 DEF HoldGrant, Grant, QueueRecords
    <2>2. buffer' \in BufferRecords
      <3>1. <<>> \in Seq(Cells) /\ buffer' = [buffer EXCEPT !.aheadValid = FALSE, !.ahead = <<>>]
        BY <1>10 DEF HoldGrant, Grant
      <3>2. QED
        BY <3>1 DEF BufferRecords
    <2>3. QED
      BY <1>1, <1>2, <1>10, <2>1, <2>2 DEF HoldGrant, Grant
  <1>11. CASE HoldUndo
    <2>1. queue' \in QueueRecords
      BY <1>11 DEF HoldUndo, QueueRecords
    <2>2. QED
      BY <1>1, <1>2, <1>11, <2>1 DEF HoldUndo
  <1>12. CASE EncryptedIoQueueResumeFromHold
    <2>1. queue' \in QueueRecords
      BY <1>12 DEF EncryptedIoQueueResumeFromHold, QueueRecords
    <2>2. QED
      BY <1>1, <1>2, <1>12, <2>1 DEF EncryptedIoQueueResumeFromHold
  <1>13. QED
    BY <1>3, <1>4, <1>5, <1>6, <1>7, <1>8, <1>9, <1>10, <1>11, <1>12 DEF EncryptedIoQueueHoldWhenIdle

(* The holder of the queue moves a block and the encrypted area *)
LEMMA MoveType ==
    ASSUME TypeOK, HeldRead \/ HeldWrite
    PROVE  TypeOK'
  <1> USE DEF TypeOK
  <1>1. CASE HeldRead
    <2>1. UNCHANGED <<irp, queue, list, pool, buffer, store, main, io, comp, worker, stop>>
      BY <1>1 DEF HeldRead
    <2>2. HoldOK'
      <3>1. store.start \in Sectors \cup {-1} /\ store.end \in Sectors \cup {-1}
        BY DEF StoreRecords
      <3>2. \A s \in Sectors : store.disk[s] \in Cells
        BY QueueAssumption DEF StoreRecords, Sectors, PhysicalSectors
      <3>3. CASE /\ NextBlock < DiskLength
                 /\ hold' = [hold EXCEPT !.pc = "encrypting", !.cell = AddLayers(store.disk[NextBlock], 1)]
        <4>1. NextBlock \in Sectors
          BY <3>1, <3>3, QueueAssumption DEF NextBlock, Area, Sectors
        <4>2. AddLayers(store.disk[NextBlock], 1) \in Cells
          BY <3>2, <4>1, AddLayersType
        <4>3. NextBlock' = NextBlock
          BY <2>1 DEF NextBlock, Area
        <4>4. QED
          BY <3>3, <4>1, <4>2, <4>3 DEF HoldOK, HoldRecords
      <3>4. CASE /\ Area # {}
                 /\ hold' = [hold EXCEPT !.pc = "decrypting", !.cell = AddLayers(store.disk[store.end], -1)]
        <4>1. store.end \in Sectors
          BY <3>1, <3>4 DEF Area
        <4>2. AddLayers(store.disk[store.end], -1) \in Cells
          BY <3>2, <4>1, AddLayersType
        <4>3. QED
          BY <2>1, <3>4, <4>1, <4>2 DEF HoldOK, HoldRecords
      <3>5. QED
        BY <1>1, <3>3, <3>4 DEF HeldRead
    <2>3. QED
      BY <2>1, <2>2, MainUnchanged, IoUnchanged, CompUnchanged
  <1>2. CASE HeldWrite
    <2>1. UNCHANGED <<irp, queue, list, pool, buffer, main, io, comp, worker, stop>>
      BY <1>2 DEF HeldWrite
    <2>2. hold.cell \in Cells
      BY DEF HoldOK, HoldRecords
    <2>3. \A b : [store.disk EXCEPT ![b] = hold.cell] \in [PhysicalSectors -> Cells]
      BY <2>2 DEF StoreRecords
    <2>4. store.start \in Sectors \cup {-1} /\ store.end \in Sectors \cup {-1}
      BY DEF StoreRecords
    <2>5. CASE hold.pc = "encrypting"
      <3>1. store' = [store EXCEPT !.disk = [store.disk EXCEPT ![NextBlock] = hold.cell], !.end = NextBlock,
                                   !.start = IF Area = {} THEN 0 ELSE store.start]
        BY <1>2, <2>5 DEF HeldWrite
      <3>2. NextBlock \in Sectors
        BY <2>5 DEF HoldOK
      <3>3. 0 \in Sectors
        BY QueueAssumption DEF Sectors
      <3>4. QED
        <4>1. store' \in StoreRecords
          BY <2>3, <2>4, <3>1, <3>2, <3>3 DEF StoreRecords
        <4>2. HoldOK'
          BY <1>2, GarbageType DEF HeldWrite, HoldOK, HoldRecords
        <4>3. QED
          BY <2>1, <4>1, <4>2, MainUnchanged, IoUnchanged, CompUnchanged
    <2>6. CASE hold.pc = "decrypting"
      <3>1. store' = [store EXCEPT !.disk = [store.disk EXCEPT ![store.end] = hold.cell],
                                   !.end = IF store.end = store.start THEN -1 ELSE store.end - 1,
                                   !.start = IF store.start = store.end THEN -1 ELSE store.start]
        BY <1>2, <2>6 DEF HeldWrite
      <3>2. store.end - 1 \in Sectors \cup {-1}
        BY <2>6, QueueAssumption DEF HoldOK, Sectors
      <3>3. QED
        <4>1. store' \in StoreRecords
          BY <2>3, <2>4, <3>1, <3>2 DEF StoreRecords
        <4>2. HoldOK'
          BY <1>2, GarbageType DEF HeldWrite, HoldOK, HoldRecords
        <4>3. QED
          BY <2>1, <4>1, <4>2, MainUnchanged, IoUnchanged, CompUnchanged
    <2>7. QED
      BY <1>2, <2>5, <2>6 DEF HeldWrite
  <1>3. QED
    BY <1>1, <1>2

(* EncryptedIoQueueStop *)
LEMMA StopType ==
    ASSUME TypeOK, EncryptedIoQueueStop
    PROVE  TypeOK'
  <1> USE DEF TypeOK
  <1>1. UNCHANGED <<irp, pool, buffer, store, main, io, comp, worker>>
    BY DEF EncryptedIoQueueStop, StopBegin, StopWait, StopThreads, StopFree
  <1>0. HoldOK'
    <2>1. UNCHANGED store /\ NextBlock' = NextBlock
      BY <1>1 DEF NextBlock, Area
    <2>2. UNCHANGED hold \/ hold' = [hold EXCEPT !.left = 0]
      BY DEF EncryptedIoQueueStop, StopBegin, StopWait, StopThreads, StopFree
    <2>3. hold' \in HoldRecords /\ hold'.pc = hold.pc
      BY <2>2 DEF HoldOK, HoldRecords
    <2>4. QED
      BY <2>1, <2>3 DEF HoldOK
  <1>2. stop' \in {"running", "check", "wait", "main", "io", "comp", "workItems", "freed"}
    BY DEF EncryptedIoQueueStop, StopBegin, StopWait, StopThreads, StopFree, StopStep
  <1>3. queue' \in QueueRecords
    BY DEF EncryptedIoQueueStop, StopBegin, StopWait, StopThreads, StopFree, QueueRecords
  <1>4. list' \in ListRecords
    BY NotEmptyType DEF EncryptedIoQueueStop, StopBegin, StopWait, StopThreads, StopFree
  <1>5. QED
    BY <1>0, <1>1, <1>2, <1>3, <1>4, MainUnchanged, IoUnchanged, CompUnchanged

(* Type correctness: no handler of EncryptedIoQueue.c, in any order, takes  *)
(* a buffer from an empty pool, uses a request or an IRP after it has given *)
(* it up, or leaves the encrypted area outside the disk                     *)
THEOREM TypeCorrect == Spec => []TypeOK
  <1>1. TypeOK /\ [Next]_vars => TypeOK'
    <2> SUFFICES ASSUME TypeOK, [Next]_vars PROVE TypeOK'
      OBVIOUS
    <2>1. CASE Next
      BY <2>1, AddIrpType, WorkType, MainType, IoType, CompType, HoldType, MoveType, StopType DEF Next, Caller
    <2>2. CASE UNCHANGED vars
      BY <2>2, MainUnchanged, IoUnchanged, CompUnchanged, HoldUnchanged DEF vars, TypeOK
    <2>3. QED
      BY <2>1, <2>2
  <1>2. QED
    BY InitType, <1>1, PTL DEF Spec

----------------------------------------------------------------------------
(* The inductive invariant *)

(* Fragments of an IRP pass the I/O thread and the completion thread in    *)
(* order: the last one has no other behind it                              *)
Precedes(A, B) == \A a \in A, b \in B : a.irp = b.irp => ~a.last
Ordered(s) == \A j, k \in DOMAIN s : j < k /\ s[j].irp = s[k].irp => ~s[j].last
FragmentOrder ==
    /\ Ordered(list.io) /\ Ordered(list.comp)
    /\ Precedes(IoHas, Of(list.io))
    /\ Precedes(Of(list.comp), IoHas \cup Of(list.io))
    /\ Precedes(CompHas, Of(list.comp) \cup IoHas \cup Of(list.io))

(* A flush has a single fragment; a thread completes the IRP of a last one  *)
(* only; and only reads come to the completion thread                       *)
FragmentKind ==
    /\ \A r \in Fragments : irp[r.irp].op.kind = "flush" => r.last
    /\ \A r \in Of(list.comp) \cup CompHas : irp[r.irp].op.kind = "read"
    /\ io.pc = "readDone" => irp[io.req.irp].op.kind = "read"
    /\ io.pc = "complete" => io.req.last /\ irp[io.req.irp].op.kind # "read"
    /\ comp.pc = "complete" => comp.req.last

(* An IRP waits on the main list or in the hands of the main thread, once  *)
Waits == main.pc \in {"suspendCheck", "suspended"}
Whole == main.pc \in {"getItem", "itemWait", "dispatch", "complete"}
Cutting == main.pc \in {"fragment", "getRequest", "requestWait", "acquire"}
MainQueueOK ==
    /\ \A k \in DOMAIN list.main : irp[list.main[k]].stage = "queued"
    /\ \A j, k \in DOMAIN list.main : list.main[j] = list.main[k] => j = k
    /\ Waits => irp[main.irp].stage = "queued" /\ main.irp \notin Of(list.main)

(* The main thread has an admitted IRP until it queues the last fragment   *)
MainHasIrp ==
    /\ Whole \/ Cutting => /\ irp[main.irp].stage = "active" /\ worker[main.irp] = "none"
                           /\ \A r \in Fragments : r.irp = main.irp => ~r.last
    /\ Whole => \A r \in Fragments : r.irp # main.irp
    /\ main.pc = "acquire" => main.req.irp = main.irp /\ irp[main.irp].op.kind # "flush"

(* A work item belongs to an admitted IRP, and uncounts it first           *)
WorkerOK ==
    \A i \in Irps :
        /\ worker[i] = "start" => irp[i].stage = "active"
        /\ worker[i] \in {"signal", "complete", "leave", "return", "done"} => irp[i].stage \in {"uncounted", "completed"}

(* A hold is granted with the queue suspended, idle, and nothing to wake up the main thread *)
HoldInv ==
    /\ hold.pc \in {"verify", "held", "encrypting", "decrypting", "moved"} => queue.Suspended
    /\ hold.pc \in {"suspend", "verify", "held", "encrypting", "decrypting", "moved"} => ~queue.QueueResumedEvent
    /\ Held => /\ \A i \in Irps : irp[i].stage # "active"
               /\ io.pc \notin {"readAhead", "readAheadDone"}
               /\ ~buffer.aheadValid

(* A stop refuses new IRPs before it looks for old ones *)
StopInv ==
    /\ stop # "running" => queue.StopPending
    /\ queue.ThreadExitRequested => /\ queue.StopPending
                                    /\ \A i \in Irps : irp[i].stage \notin {"queued", "active"}

Responsible == /\ NoFragmentOutlivesIrp /\ FragmentOrder /\ FragmentKind
               /\ MainQueueOK /\ MainHasIrp /\ WorkerOK
Inv == Responsible /\ CountIsOutstanding /\ HoldInv /\ StopInv

----------------------------------------------------------------------------
(* Lists of requests: what is on them, and in which order *)

LEMMA OfAppend ==
    ASSUME NEW S, NEW s \in Seq(S), NEW r \in S
    PROVE  Of(Append(s, r)) = Of(s) \cup {r}
  <1>1. DOMAIN Append(s, r) = DOMAIN s \cup {Len(s) + 1} /\ DOMAIN s = 1 .. Len(s)
    OBVIOUS
  <1>2. \A k \in DOMAIN s : Append(s, r)[k] = s[k]
    OBVIOUS
  <1>3. Append(s, r)[Len(s) + 1] = r
    OBVIOUS
  <1>4. QED
    BY <1>1, <1>2, <1>3, Zenon DEF Of

LEMMA OfTail ==
    ASSUME NEW S, NEW s \in Seq(S), s # <<>>
    PROVE  Of(s) = Of(Tail(s)) \cup {Head(s)}
  <1>1. Len(s) \in Nat \ {0} /\ DOMAIN s = 1 .. Len(s) /\ Tail(s) \in Seq(S) /\ Len(Tail(s)) = Len(s) - 1
    OBVIOUS
  <1>2. \A k \in DOMAIN Tail(s) : k + 1 \in DOMAIN s /\ Tail(s)[k] = s[k + 1]
    OBVIOUS
  <1>3. \A k \in DOMAIN s : k = 1 \/ (k - 1 \in DOMAIN Tail(s) /\ Tail(s)[k - 1] = s[k])
    OBVIOUS
  <1>4. Head(s) = s[1] /\ 1 \in DOMAIN s
    OBVIOUS
  <1>5. Of(s) \subseteq Of(Tail(s)) \cup {Head(s)}
    BY <1>3, <1>4, Zenon DEF Of
  <1>6. Of(Tail(s)) \subseteq Of(s)
    <2> SUFFICES ASSUME NEW k \in DOMAIN Tail(s) PROVE Tail(s)[k] \in Of(s)
      BY Zenon DEF Of
    <2>1. k + 1 \in DOMAIN s /\ Tail(s)[k] = s[k + 1]
      BY <1>2
    <2>2. QED
      BY <2>1, Zenon DEF Of
  <1>7. Head(s) \in Of(s)
    BY <1>4, Zenon DEF Of
  <1>8. QED
    BY <1>5, <1>6, <1>7

LEMMA OfMembers ==
    ASSUME NEW S, NEW s \in Seq(S)
    PROVE  Of(s) \subseteq S /\ (s # <<>> => Of(s) # {})
  <1>1. \A k \in DOMAIN s : s[k] \in S
    OBVIOUS
  <1>2. s # <<>> => 1 \in DOMAIN s
    OBVIOUS
  <1>3. QED
    BY <1>1, <1>2, Zenon DEF Of

LEMMA OrderedAppend ==
    ASSUME NEW s \in Seq(Requests), NEW r \in Requests, Ordered(s), Precedes(Of(s), {r})
    PROVE  Ordered(Append(s, r))
  <1> SUFFICES ASSUME NEW j \in DOMAIN Append(s, r), NEW k \in DOMAIN Append(s, r),
                      j < k, Append(s, r)[j].irp = Append(s, r)[k].irp
               PROVE  ~Append(s, r)[j].last
    BY Zenon DEF Ordered
  <1>1. j \in DOMAIN s /\ Append(s, r)[j] = s[j]
    OBVIOUS
  <1>2. CASE k \in DOMAIN s
    <2>1. Append(s, r)[k] = s[k]
      BY <1>2
    <2>2. QED
      BY <1>1, <1>2, <2>1, Zenon DEF Ordered
  <1>3. CASE k \notin DOMAIN s
    <2>1. Append(s, r)[k] = r
      BY <1>3
    <2>2. s[j] \in Of(s)
      BY <1>1, Zenon DEF Of
    <2>3. QED
      BY <1>1, <2>1, <2>2, Zenon DEF Precedes
  <1>4. QED
    BY <1>2, <1>3

LEMMA OrderedTail ==
    ASSUME NEW s \in Seq(Requests), s # <<>>, Ordered(s)
    PROVE  Ordered(Tail(s)) /\ Precedes({Head(s)}, Of(Tail(s)))
  <1>1. \A k \in DOMAIN Tail(s) : k \in Int /\ k + 1 \in DOMAIN s /\ Tail(s)[k] = s[k + 1]
    OBVIOUS
  <1>2. \A j, k \in DOMAIN Tail(s) : j < k => j + 1 < k + 1
    BY <1>1
  <1>3. Ordered(Tail(s))
    BY <1>1, <1>2, Zenon DEF Ordered
  <1>4. Head(s) = s[1] /\ 1 \in DOMAIN s /\ \A k \in DOMAIN Tail(s) : 1 < k + 1
    OBVIOUS
  <1>5. Precedes({Head(s)}, Of(Tail(s)))
    BY ZenonT(60), <1>1, <1>4 DEF Ordered, Precedes, Of
  <1>6. QED
    BY <1>3, <1>5

----------------------------------------------------------------------------
(* What stays of the invariant when a step leaves its parts alone *)

SameIrps == \A i \in Irps : irp'[i].stage = irp[i].stage /\ irp'[i].op = irp[i].op
Late == {"signal", "complete", "leave", "return", "done"}
SameWorkers == \A i \in Irps : worker'[i] = worker[i] \/ (worker[i] \in Late /\ worker'[i] \in Late)

(* The main thread keeps what it has, or gives it up *)
MainKept ==
    /\ Waits' \/ Whole' \/ Cutting' => main'.irp = main.irp
    /\ Waits' => Waits
    /\ Whole' => Whole
    /\ Cutting' => Whole \/ Cutting
    /\ main'.pc = "acquire" => main.pc = "acquire" /\ main'.req = main.req

LEMMA FragmentTypes ==
    ASSUME TypeOK
    PROVE  /\ Of(list.io) \subseteq Requests /\ Of(list.comp) \subseteq Requests
           /\ IoHas \subseteq Requests /\ CompHas \subseteq Requests
           /\ Fragments \subseteq Requests
           /\ \A r \in Fragments : r.irp \in Irps
  <1>1. list.io \in Seq(Requests) /\ list.comp \in Seq(Requests)
    BY DEF TypeOK, ListRecords
  <1>2. Of(list.io) \subseteq Requests /\ Of(list.comp) \subseteq Requests
    BY <1>1, OfMembers
  <1>3. IoHas \subseteq Requests /\ CompHas \subseteq Requests
    BY DEF TypeOK, IoOK, CompOK, IoHas, CompHas
  <1>4. Fragments \subseteq Requests
    BY <1>2, <1>3 DEF Fragments
  <1>5. \A r \in Requests : r.irp \in Irps
    BY DEF Requests
  <1>6. QED
    BY <1>2, <1>3, <1>4, <1>5

LEMMA SameWorkersNone ==
    ASSUME SameWorkers, NEW i \in Irps
    PROVE  /\ worker[i] = "none" => worker'[i] = "none"
           /\ worker'[i] = "start" => worker[i] = "start"
           /\ worker'[i] \in Late => worker[i] \in Late
  BY DEF SameWorkers, Late

LEMMA OutlivesKept ==
    ASSUME TypeOK, NoFragmentOutlivesIrp, SameIrps, Fragments' \subseteq Fragments,
           \A r \in Fragments' : worker'[r.irp] = "none"
    PROVE  NoFragmentOutlivesIrp'
  BY FragmentTypes DEF NoFragmentOutlivesIrp, SameIrps

LEMMA WaitsForIrp ==
    ASSUME TypeOK, Waits \/ Whole \/ Cutting
    PROVE  main.irp \in Irps
  BY DEF TypeOK, MainOK, Waits, Whole, Cutting

LEMMA MainHasKept ==
    ASSUME TypeOK, MainHasIrp, SameIrps, Fragments' \subseteq Fragments, MainKept,
           Whole \/ Cutting => worker'[main.irp] = "none"
    PROVE  MainHasIrp'
  <1>1. CASE Whole' \/ Cutting'
    <2>1. main'.irp = main.irp /\ (Whole \/ Cutting)
      BY <1>1 DEF MainKept
    <2>2. irp'[main.irp].stage = "active" /\ irp'[main.irp].op = irp[main.irp].op
      BY <2>1, WaitsForIrp DEF SameIrps, MainHasIrp
    <2>3. \A r \in Fragments' : r.irp = main.irp => ~r.last
      BY <2>1 DEF MainHasIrp
    <2>4. Whole' => \A r \in Fragments' : r.irp # main.irp
      BY DEF MainHasIrp, MainKept
    <2>5. main'.pc = "acquire" => main'.req.irp = main.irp /\ irp[main.irp].op.kind # "flush"
      BY DEF MainHasIrp, MainKept
    <2>6. QED
      BY <2>1, <2>2, <2>3, <2>4, <2>5 DEF MainHasIrp
  <1>2. CASE ~(Whole' \/ Cutting')
    <2>1. main'.pc # "acquire"
      BY <1>2 DEF Cutting
    <2>2. QED
      BY <1>2, <2>1 DEF MainHasIrp
  <1>3. QED
    BY <1>1, <1>2

LEMMA MainQueueKept ==
    ASSUME TypeOK, MainQueueOK, SameIrps, list'.main = list.main, MainKept
    PROVE  MainQueueOK'
  <1>1. \A k \in DOMAIN list.main : list.main[k] \in Irps
    BY DEF TypeOK, ListRecords
  <1>2. \A k \in DOMAIN list.main : irp'[list.main[k]].stage = "queued"
    BY <1>1 DEF SameIrps, MainQueueOK
  <1>3. Waits' => irp'[main'.irp].stage = "queued" /\ main'.irp \notin Of(list.main)
    BY WaitsForIrp DEF MainKept, SameIrps, MainQueueOK
  <1>4. QED
    BY <1>2, <1>3 DEF MainQueueOK

LEMMA WorkerKept ==
    ASSUME WorkerOK, SameIrps, SameWorkers
    PROVE  WorkerOK'
  <1> SUFFICES ASSUME NEW i \in Irps
               PROVE  /\ worker'[i] = "start" => irp'[i].stage = "active"
                      /\ worker'[i] \in {"signal", "complete", "leave", "return", "done"} => irp'[i].stage \in {"uncounted", "completed"}
    BY Zenon DEF WorkerOK
  <1>1. irp'[i].stage = irp[i].stage
    BY DEF SameIrps
  <1>2. QED
    BY <1>1, SameWorkersNone DEF WorkerOK, Late

IoBusy == {"io", "readDone", "complete"}
IoKept == (io.pc \in IoBusy \/ io'.pc \in IoBusy) => UNCHANGED io
CompKept == (comp.pc = "complete" \/ comp'.pc = "complete") => UNCHANGED comp
ListsKept == list'.main = list.main /\ list'.io = list.io /\ list'.comp = list.comp

LEMMA HasKept ==
    /\ IoKept => IoHas' = IoHas
    /\ CompKept => CompHas' = CompHas
  <1>1. IoKept => IoHas' = IoHas
    BY DEF IoKept, IoHas, IoBusy
  <1>2. CompKept => CompHas' = CompHas
    BY DEF CompKept, CompHas
  <1>3. QED
    BY <1>1, <1>2

LEMMA KindKept ==
    ASSUME TypeOK, FragmentKind, SameIrps, Fragments' \subseteq Fragments,
           (Of(list.comp) \cup CompHas)' \subseteq Of(list.comp) \cup CompHas, IoKept, CompKept
    PROVE  FragmentKind'
  <1>1. \A r \in Fragments' : irp'[r.irp].op.kind = "flush" => r.last
    BY FragmentTypes DEF FragmentKind, SameIrps
  <1>2. \A r \in (Of(list.comp) \cup CompHas)' : irp'[r.irp].op.kind = "read"
    BY FragmentTypes DEF FragmentKind, SameIrps, Requests
  <1>3. io'.pc \in IoBusy => io' = io /\ io.req.irp \in Irps
    BY DEF IoKept, IoBusy, TypeOK, IoOK, Requests
  <1>4. io'.pc = "readDone" => irp'[io'.req.irp].op.kind = "read"
    BY <1>3 DEF FragmentKind, SameIrps, IoBusy
  <1>5. io'.pc = "complete" => io'.req.last /\ irp'[io'.req.irp].op.kind # "read"
    BY <1>3 DEF FragmentKind, SameIrps, IoBusy
  <1>6. comp'.pc = "complete" => comp'.req.last
    BY DEF CompKept, FragmentKind
  <1>7. QED
    BY <1>1, <1>2, <1>4, <1>5, <1>6 DEF FragmentKind

(* A step that moves no request and admits or answers no IRP *)
LEMMA ResponsibleKept ==
    ASSUME TypeOK, Responsible, SameIrps, SameWorkers, ListsKept, MainKept, IoKept, CompKept
    PROVE  Responsible'
  <1>1. IoHas' = IoHas /\ CompHas' = CompHas /\ Of(list.io)' = Of(list.io) /\ Of(list.comp)' = Of(list.comp)
    BY HasKept DEF ListsKept
  <1>2. Fragments' = Fragments
    BY <1>1 DEF Fragments
  <1>3. \A r \in Fragments' : worker'[r.irp] = "none"
    BY <1>2, FragmentTypes, SameWorkersNone DEF Responsible, NoFragmentOutlivesIrp
  <1>4. Whole \/ Cutting => worker'[main.irp] = "none"
    BY WaitsForIrp, SameWorkersNone DEF Responsible, MainHasIrp
  <1>5. NoFragmentOutlivesIrp'
    BY <1>2, <1>3, OutlivesKept DEF Responsible
  <1>6. FragmentOrder'
    BY <1>1 DEF Responsible, FragmentOrder, ListsKept
  <1>7. FragmentKind'
    BY <1>1, <1>2, KindKept DEF Responsible
  <1>8. MainQueueOK' /\ MainHasIrp' /\ WorkerOK'
    BY <1>2, <1>4, MainQueueKept, MainHasKept, WorkerKept DEF Responsible, ListsKept
  <1>9. QED
    BY <1>5, <1>6, <1>7, <1>8 DEF Responsible

----------------------------------------------------------------------------
(* The counter *)

Ahead == IF io.pc \in {"readAhead", "readAheadDone"} THEN 1 ELSE 0
CountedIrps == {i \in Irps : Counted(i)}

LEMMA CountKept ==
    ASSUME TypeOK, CountIsOutstanding, SameIrps,
           (io.pc \in {"readAhead", "readAheadDone"}) = (io'.pc \in {"readAhead", "readAheadDone"}),
           queue'.OutstandingIoCount = queue.OutstandingIoCount
    PROVE  CountIsOutstanding'
  <1>1. \A i \in Irps : Counted(i)' = Counted(i)
    BY DEF SameIrps, Counted
  <1>2. CountedIrps' = CountedIrps
    BY <1>1 DEF CountedIrps
  <1>3. Ahead' = Ahead
    BY DEF Ahead
  <1>4. QED
    BY <1>2, <1>3 DEF CountIsOutstanding, CountedIrps, Ahead

(* An IRP is counted when it comes, and uncounted when it is answered *)
LEMMA CountMoves ==
    ASSUME TypeOK, CountIsOutstanding, NEW i \in Irps, UNCHANGED io,
           \A j \in Irps \ {i} : irp'[j].stage = irp[j].stage,
           \/ Counted(i)' = Counted(i) /\ queue'.OutstandingIoCount = queue.OutstandingIoCount
           \/ ~Counted(i) /\ Counted(i)' /\ queue'.OutstandingIoCount = queue.OutstandingIoCount + 1
           \/ Counted(i) /\ ~Counted(i)' /\ queue'.OutstandingIoCount = queue.OutstandingIoCount - 1
    PROVE  CountIsOutstanding'
  <1>1. IsFiniteSet(CountedIrps) /\ Cardinality(CountedIrps) \in Nat /\ queue.OutstandingIoCount \in Int
    BY QueueAssumption, FS_Subset, FS_CardinalityType DEF CountedIrps, TypeOK, QueueRecords
  <1>2. \A j \in Irps \ {i} : Counted(j)' = Counted(j)
    BY DEF Counted
  <1>3. Ahead' = Ahead /\ Ahead \in Nat
    BY DEF Ahead
  <1>4. /\ queue.OutstandingIoCount = Cardinality(CountedIrps) + Ahead
        /\ CountIsOutstanding' <=> queue'.OutstandingIoCount = Cardinality(CountedIrps') + Ahead'
    BY DEF CountIsOutstanding, CountedIrps, Ahead
  <1>5. i \in CountedIrps <=> Counted(i)
    BY DEF CountedIrps
  <1>6. CASE Counted(i)' = Counted(i) /\ queue'.OutstandingIoCount = queue.OutstandingIoCount
    <2>1. CountedIrps' = CountedIrps
      BY <1>2, <1>6 DEF CountedIrps
    <2>2. QED
      BY <1>3, <1>4, <1>6, <2>1
  <1>7. CASE ~Counted(i) /\ Counted(i)' /\ queue'.OutstandingIoCount = queue.OutstandingIoCount + 1
    <2>1. CountedIrps' = CountedIrps \cup {i}
      BY <1>2, <1>7 DEF CountedIrps
    <2>2. Cardinality(CountedIrps') = Cardinality(CountedIrps) + 1
      BY <1>1, <1>5, <1>7, <2>1, FS_AddElement
    <2>3. QED
      BY <1>1, <1>3, <1>4, <1>7, <2>2
  <1>8. CASE Counted(i) /\ ~Counted(i)' /\ queue'.OutstandingIoCount = queue.OutstandingIoCount - 1
    <2>1. CountedIrps' = CountedIrps \ {i}
      BY <1>2, <1>8 DEF CountedIrps
    <2>2. Cardinality(CountedIrps') = Cardinality(CountedIrps) - 1
      BY <1>1, <1>5, <1>8, <2>1, FS_RemoveElement
    <2>3. QED
      BY <1>1, <1>3, <1>4, <1>8, <2>2
  <1>9. QED
    BY <1>6, <1>7, <1>8

(* With the counter at zero no IRP is waiting, being processed, or read ahead for *)
LEMMA CountZero ==
    ASSUME TypeOK, CountIsOutstanding, queue.OutstandingIoCount = 0
    PROVE  /\ \A i \in Irps : ~Counted(i)
           /\ io.pc \notin {"readAhead", "readAheadDone"}
  <1>1. IsFiniteSet(CountedIrps) /\ Cardinality(CountedIrps) \in Nat
    BY QueueAssumption, FS_Subset, FS_CardinalityType DEF CountedIrps
  <1>2. Cardinality(CountedIrps) = 0 /\ Ahead = 0
    BY <1>1 DEF CountIsOutstanding, CountedIrps, Ahead
  <1>3. CountedIrps = {}
    BY <1>1, <1>2, FS_EmptySet
  <1>4. QED
    BY <1>2, <1>3 DEF CountedIrps, Ahead

----------------------------------------------------------------------------
(* Steps that move no request and admit or answer no IRP *)

ReadingAhead == io.pc \in {"readAhead", "readAheadDone"}

LEMMA HoldKept ==
    ASSUME HoldInv, hold'.pc = hold.pc, queue'.Suspended = queue.Suspended,
           queue'.QueueResumedEvent => queue.QueueResumedEvent,
           \A i \in Irps : irp'[i].stage = "active" => irp[i].stage = "active",
           ReadingAhead' => ReadingAhead, buffer'.aheadValid => buffer.aheadValid
    PROVE  HoldInv'
  BY DEF HoldInv, Held, ReadingAhead

LEMMA StopKept ==
    ASSUME StopInv, stop' = stop, queue'.StopPending = queue.StopPending,
           queue'.ThreadExitRequested = queue.ThreadExitRequested,
           \A i \in Irps : irp'[i].stage \in {"queued", "active"} => irp[i].stage \in {"queued", "active"}
    PROVE  StopInv'
  BY DEF StopInv

QueueKept ==
    /\ queue'.OutstandingIoCount = queue.OutstandingIoCount /\ queue'.Suspended = queue.Suspended
    /\ queue'.StopPending = queue.StopPending /\ queue'.ThreadExitRequested = queue.ThreadExitRequested
    /\ queue'.QueueResumedEvent => queue.QueueResumedEvent

LEMMA InvKept ==
    ASSUME TypeOK, Inv, SameIrps, SameWorkers, ListsKept, MainKept, IoKept, CompKept,
           ReadingAhead' = ReadingAhead, QueueKept, UNCHANGED <<hold, stop>>,
           buffer'.aheadValid => buffer.aheadValid
    PROVE  Inv'
  <1>1. Responsible'
    BY ResponsibleKept DEF Inv
  <1>2. CountIsOutstanding'
    BY CountKept DEF Inv, QueueKept, ReadingAhead
  <1>3. \A i \in Irps : irp'[i].stage = irp[i].stage
    BY DEF SameIrps
  <1>4. HoldInv'
    BY <1>3, HoldKept DEF Inv, QueueKept
  <1>5. StopInv'
    BY <1>3, StopKept DEF Inv, QueueKept
  <1>6. QED
    BY <1>1, <1>2, <1>4, <1>5 DEF Inv

LEMMA StutterKept ==
    ASSUME TypeOK, Inv, UNCHANGED vars
    PROVE  Inv'
  <1>1. SameIrps /\ SameWorkers /\ ListsKept /\ QueueKept
    BY DEF vars, SameIrps, SameWorkers, ListsKept, QueueKept
  <1>2. MainKept /\ IoKept /\ CompKept /\ ReadingAhead' = ReadingAhead
    BY DEF vars, MainKept, IoKept, CompKept, ReadingAhead, Waits, Whole, Cutting
  <1>3. QED
    BY <1>1, <1>2, InvKept DEF vars

MainStays ==
    \/ MainWait \/ MainIdle \/ MainGetItem \/ MainPoolEmpty \/ MainPoolWait
    \/ MainReject \/ MainDeny \/ MainMisaligned \/ MainFlush \/ MainFragment

LEMMA MainStaysKept ==
    ASSUME TypeOK, Inv, MainStays
    PROVE  Inv'
  <1> USE DEF MainStays, MainWait, MainIdle, MainGetItem, MainPoolEmpty, MainPoolWait,
              MainReject, MainDeny, MainMisaligned, MainFlush, MainFragment
  <1>1. UNCHANGED <<queue, io, comp, worker, hold, stop>> /\ UNCHANGED buffer
    OBVIOUS
  <1>2. ListsKept
    BY DEF ListsKept, TypeOK, ListRecords
  <1>3. MainKept
    BY ZenonT(60) DEF MainKept, Waits, Whole, Cutting, TypeOK, MainOK, MainRecords, MainFinish
  <1>4. SameIrps
    <2> DEFINE i == main.irp
    <2>1. CASE irp' = irp
      BY <2>1 DEF SameIrps
    <2>2. CASE MainReject \/ MainDeny \/ MainMisaligned
      <3>1. i \in Irps /\ irp \in [Irps -> IrpRecords]
        BY <2>2 DEF TypeOK, MainOK
      <3>2. CASE \E status : irp' = [irp EXCEPT ![i].status = status]
        BY <3>1, <3>2 DEF SameIrps, IrpRecords
      <3>3. CASE \E d : irp' = [irp EXCEPT ![i].todo = {}, ![i].data = d]
        BY <3>1, <3>3 DEF SameIrps, IrpRecords
      <3>4. QED
        BY <2>2, <3>2, <3>3, Zenon DEF MainFinish
    <2>3. QED
      BY <2>1, <2>2, Zenon
  <1>5. SameWorkers /\ QueueKept /\ IoKept /\ CompKept /\ ReadingAhead' = ReadingAhead
    BY <1>1 DEF SameWorkers, QueueKept, IoKept, CompKept, ReadingAhead
  <1>6. QED
    BY <1>1, <1>2, <1>3, <1>4, <1>5, InvKept

IoStays == IoWait \/ IoIdle \/ IoSignal \/ IoRelease

LEMMA IoStaysKept ==
    ASSUME TypeOK, Inv, IoStays
    PROVE  Inv'
  <1> USE DEF IoStays, IoWait, IoIdle, IoSignal, IoRelease
  <1>1. UNCHANGED <<irp, buffer, main, comp, worker, hold, stop>>
    OBVIOUS
  <1>2. ListsKept
    BY DEF ListsKept, TypeOK, ListRecords
  <1>3. IoKept /\ ReadingAhead' = ReadingAhead
    BY DEF IoKept, IoBusy, ReadingAhead, TypeOK, IoOK, IoRecords
  <1>4. QueueKept
    BY DEF QueueKept, SignalNoOutstandingIo, TypeOK, QueueRecords
  <1>5. SameIrps /\ SameWorkers /\ MainKept /\ CompKept
    BY <1>1 DEF SameIrps, SameWorkers, MainKept, CompKept, Waits, Whole, Cutting
  <1>6. QED
    BY <1>1, <1>2, <1>3, <1>4, <1>5, InvKept

LEMMA CompStaysKept ==
    ASSUME TypeOK, Inv, CompWait \/ CompIdle \/ CompRelease
    PROVE  Inv'
  <1> USE DEF CompWait, CompIdle, CompRelease
  <1>1. UNCHANGED <<irp, queue, buffer, main, io, worker, hold, stop>>
    OBVIOUS
  <1>2. ListsKept
    BY DEF ListsKept, TypeOK, ListRecords
  <1>3. CompKept
    BY DEF CompKept, TypeOK, CompOK, CompRecords
  <1>4. SameIrps /\ SameWorkers /\ MainKept /\ IoKept /\ QueueKept /\ ReadingAhead' = ReadingAhead
    BY <1>1 DEF SameIrps, SameWorkers, MainKept, IoKept, QueueKept, ReadingAhead, Waits, Whole, Cutting
  <1>5. QED
    BY <1>1, <1>2, <1>3, <1>4, InvKept

LEMMA WorkStaysKept ==
    ASSUME TypeOK, Inv, NEW i \in Irps, WorkSignal(i) \/ WorkLeave(i) \/ WorkReturn(i)
    PROVE  Inv'
  <1> USE DEF WorkSignal, WorkLeave, WorkReturn
  <1>1. UNCHANGED <<irp, list, buffer, main, io, comp, hold, stop>>
    OBVIOUS
  <1>2. SameWorkers
    <2>1. worker[i] \in Late /\ \E w \in Late : worker' = [worker EXCEPT ![i] = w]
      BY DEF Late
    <2>2. QED
      BY <2>1 DEF SameWorkers, TypeOK
  <1>3. QueueKept
    BY DEF QueueKept, SignalNoOutstandingIo, TypeOK, QueueRecords
  <1>4. SameIrps /\ ListsKept /\ MainKept /\ IoKept /\ CompKept /\ ReadingAhead' = ReadingAhead
    BY <1>1 DEF SameIrps, ListsKept, MainKept, IoKept, CompKept, ReadingAhead, Waits, Whole, Cutting
  <1>5. QED
    BY <1>1, <1>2, <1>3, <1>4, InvKept

----------------------------------------------------------------------------
(* Steps that take an IRP from one stage to the next *)

(* An IRP that is not admitted, or whose completion is queued, has no fragment *)
LEMMA NoFragments ==
    ASSUME TypeOK, NoFragmentOutlivesIrp, NEW i \in Irps, irp[i].stage # "active" \/ worker[i] # "none"
    PROVE  \A r \in Fragments : r.irp \in Irps \ {i}
  BY FragmentTypes DEF NoFragmentOutlivesIrp

(* A step of such an IRP leaves the fragments and the main thread's IRP alone *)
LEMMA AsideKept ==
    ASSUME TypeOK, Responsible, NEW i \in Irps,
           irp[i].stage # "active" \/ worker[i] # "none",
           irp[i].stage # "queued",
           \A j \in Irps \ {i} : irp'[j] = irp[j] /\ worker'[j] = worker[j],
           worker'[i] = "start" => irp'[i].stage = "active",
           worker'[i] \in Late => irp'[i].stage \in {"uncounted", "completed"},
           UNCHANGED <<main, io, comp>>, list'.io = list.io, list'.comp = list.comp
    PROVE  /\ list'.main = list.main => Responsible'
           /\ MainQueueOK' => Responsible'
  <1>1. Fragments' = Fragments /\ \A r \in Fragments : r.irp \in Irps \ {i}
    BY NoFragments DEF Responsible, Fragments, IoHas, CompHas
  <1>2. NoFragmentOutlivesIrp'
    BY <1>1 DEF Responsible, NoFragmentOutlivesIrp
  <1>3. IoHas' = IoHas /\ CompHas' = CompHas /\ Of(list.io)' = Of(list.io) /\ Of(list.comp)' = Of(list.comp)
    BY DEF IoHas, CompHas
  <1>4. FragmentOrder'
    BY <1>3 DEF Responsible, FragmentOrder
  <1>5. FragmentKind'
    <2>1. \A r \in Fragments : irp'[r.irp] = irp[r.irp]
      BY <1>1
    <2>2. io.pc \in {"readDone", "complete"} => io.req \in Fragments
      BY DEF Fragments, IoHas
    <2>3. Of(list.comp) \cup CompHas \subseteq Fragments
      BY DEF Fragments
    <2>4. QED
      BY <1>1, <1>3, <2>1, <2>2, <2>3 DEF Responsible, FragmentKind
  <1>6. MainHasIrp'
    <2>1. Whole \/ Cutting => main.irp \in Irps \ {i}
      BY WaitsForIrp DEF Responsible, MainHasIrp
    <2>2. main.pc = "acquire" => Cutting
      BY DEF Cutting
    <2>3. Whole' = Whole /\ Cutting' = Cutting
      BY DEF Whole, Cutting
    <2>4. QED
      BY <1>1, <2>1, <2>2, <2>3 DEF Responsible, MainHasIrp
  <1>7. WorkerOK'
    BY DEF Responsible, WorkerOK, Late
  <1>8. list'.main = list.main => MainQueueOK'
    <2>1. \A k \in DOMAIN list.main : list.main[k] \in Irps \ {i}
      BY DEF Responsible, MainQueueOK, TypeOK, ListRecords
    <2>2. Waits => main.irp \in Irps \ {i}
      BY WaitsForIrp DEF Responsible, MainQueueOK
    <2>3. Waits' = Waits
      BY DEF Waits
    <2>4. QED
      BY <2>1, <2>2, <2>3 DEF Responsible, MainQueueOK
  <1>9. QED
    BY <1>2, <1>4, <1>5, <1>6, <1>7, <1>8 DEF Responsible

(* An IRP that is being added has no work item *)
LEMMA NoWorker ==
    ASSUME TypeOK, WorkerOK, NEW i \in Irps, irp[i].stage \notin {"active", "uncounted", "completed"}
    PROVE  worker[i] = "none"
  BY DEF TypeOK, WorkerOK

(* Refused IRPs are counted no more, added ones are *)
LEMMA AddIrpSteps ==
    ASSUME TypeOK, NEW i \in Irps
    PROVE  /\ AddIrpCount(i) => /\ irp[i].stage = "unissued" /\ irp'[i].stage = "counted"
                                /\ queue' = [queue EXCEPT !.OutstandingIoCount = @ + 1]
           /\ AddIrpEnqueue(i) => irp[i].stage = "counted" /\ irp'[i].stage = "queued" /\ queue' = queue
           /\ AddIrpRefuse(i) => /\ irp[i].stage = "counted" /\ irp'[i].stage \in {"refusing", "rejected"}
                                 /\ queue' = [queue EXCEPT !.OutstandingIoCount = @ - 1]
           /\ AddIrpRefuseSignal(i) => /\ irp[i].stage = "refusing" /\ irp'[i].stage = "rejected"
                                       /\ \E b \in BOOLEAN : queue' = [queue EXCEPT !.NoOutstandingIoEvent = b]
  <1>1. ASSUME AddIrpCount(i)
        PROVE  /\ irp[i].stage = "unissued" /\ irp'[i].stage = "counted"
               /\ queue' = [queue EXCEPT !.OutstandingIoCount = @ + 1]
    <2>1. PICK op \in Ops :
             irp' = [irp EXCEPT ![i].stage = "counted", ![i].op = op,
                                ![i].todo = Sectors \cap (op.off .. (op.off + op.len - (IF op.aligned THEN 1 ELSE 0)))]
      BY <1>1 DEF AddIrpCount
    <2>2. irp'[i].stage = "counted"
      BY <2>1 DEF TypeOK, IrpRecords
    <2>3. QED
      BY <1>1, <2>2 DEF AddIrpCount
  <1>2. AddIrpEnqueue(i) => irp[i].stage = "counted" /\ irp'[i].stage = "queued" /\ queue' = queue
    BY DEF AddIrpEnqueue, TypeOK, IrpRecords
  <1>3. ASSUME AddIrpRefuse(i)
        PROVE  /\ irp[i].stage = "counted" /\ irp'[i].stage \in {"refusing", "rejected"}
               /\ queue' = [queue EXCEPT !.OutstandingIoCount = @ - 1]
    <2>1. PICK x \in {"refusing", "rejected"} : irp' = [irp EXCEPT ![i] = [irp[i] EXCEPT !.stage = x, !.status = "failed"]]
      BY <1>3 DEF AddIrpRefuse
    <2>2. QED
      BY <1>3, <2>1 DEF AddIrpRefuse, DecrementOutstandingIoCount, TypeOK, IrpRecords
  <1>4. ASSUME AddIrpRefuseSignal(i)
        PROVE  /\ irp[i].stage = "refusing" /\ irp'[i].stage = "rejected"
               /\ \E b \in BOOLEAN : queue' = [queue EXCEPT !.NoOutstandingIoEvent = b]
    <2>1. irp[i].stage = "refusing" /\ irp'[i].stage = "rejected"
      BY <1>4 DEF AddIrpRefuseSignal, TypeOK, IrpRecords
    <2>2. \E b \in BOOLEAN : queue' = [queue EXCEPT !.NoOutstandingIoEvent = b]
      BY <1>4 DEF AddIrpRefuseSignal, SignalNoOutstandingIo, TypeOK, QueueRecords
    <2>3. QED
      BY <2>1, <2>2
  <1>5. QED
    BY <1>1, <1>2, <1>3, <1>4

LEMMA AddIrpKept ==
    ASSUME TypeOK, Inv, NEW i \in Irps, AddIrp(i)
    PROVE  Inv'
  <1>1. /\ UNCHANGED <<pool, buffer, store, main, io, comp, worker, hold, stop>>
        /\ \A j \in Irps \ {i} : irp'[j] = irp[j]
    BY DEF AddIrp, AddIrpCount, AddIrpEnqueue, AddIrpRefuse, AddIrpRefuseSignal, TypeOK
  <1>2. irp[i].stage \in {"unissued", "counted", "refusing"} /\ irp'[i].stage \in {"counted", "queued", "refusing", "rejected"}
    BY AddIrpSteps DEF AddIrp
  <1>3. list'.io = list.io /\ list'.comp = list.comp
    BY DEF AddIrp, AddIrpCount, AddIrpEnqueue, AddIrpRefuse, AddIrpRefuseSignal, TypeOK, ListRecords
  <1>4. worker[i] = "none"
    BY <1>2, NoWorker DEF Inv, Responsible
  <1>5. /\ queue'.Suspended = queue.Suspended /\ queue'.QueueResumedEvent = queue.QueueResumedEvent
        /\ queue'.StopPending = queue.StopPending /\ queue'.ThreadExitRequested = queue.ThreadExitRequested
    BY AddIrpSteps DEF AddIrp, TypeOK, QueueRecords
  <1>6. CountIsOutstanding'
    <2>1. \/ Counted(i)' = Counted(i) /\ queue'.OutstandingIoCount = queue.OutstandingIoCount
          \/ ~Counted(i) /\ Counted(i)' /\ queue'.OutstandingIoCount = queue.OutstandingIoCount + 1
          \/ Counted(i) /\ ~Counted(i)' /\ queue'.OutstandingIoCount = queue.OutstandingIoCount - 1
      BY AddIrpSteps DEF AddIrp, TypeOK, QueueRecords, Counted
    <2>2. QED
      BY <1>1, <2>1, CountMoves DEF Inv
  <1>7. HoldInv'
    BY <1>1, <1>2, <1>5, HoldKept DEF Inv, ReadingAhead
  <1>8. CASE AddIrpEnqueue(i)
    <2>1. list'.main = Append(list.main, i) /\ list.main \in Seq(Irps)
      BY <1>8 DEF AddIrpEnqueue, TypeOK, ListRecords
    <2>2. irp[i].stage = "counted" /\ irp'[i].stage = "queued" /\ ~queue.StopPending
      BY <1>8, AddIrpSteps DEF AddIrpEnqueue
    <2>3. MainQueueOK'
      <3>1. \A k \in DOMAIN list.main : list.main[k] \in Irps \ {i}
        BY <2>2 DEF Inv, Responsible, MainQueueOK, TypeOK, ListRecords
      <3>2. \A k \in DOMAIN list'.main : \/ k \in DOMAIN list.main /\ list'.main[k] = list.main[k]
                                         \/ k = Len(list.main) + 1 /\ list'.main[k] = i
        BY <2>1
      <3>3. \A k \in DOMAIN list'.main : irp'[list'.main[k]].stage = "queued"
        BY <1>1, <2>2, <3>1, <3>2 DEF Inv, Responsible, MainQueueOK
      <3>4. \A j, k \in DOMAIN list'.main : list'.main[j] = list'.main[k] => j = k
        BY <3>1, <3>2, Zenon DEF Inv, Responsible, MainQueueOK
      <3>5. Waits => main.irp \in Irps \ {i}
        BY <2>2, WaitsForIrp DEF Inv, Responsible, MainQueueOK
      <3>6. Of(list'.main) = Of(list.main) \cup {i}
        BY <2>1, OfAppend
      <3>7. Waits' => irp'[main'.irp].stage = "queued" /\ main'.irp \notin Of(list'.main)
        BY <1>1, <3>5, <3>6 DEF Inv, Responsible, MainQueueOK, Waits
      <3>8. QED
        BY <3>3, <3>4, <3>7 DEF MainQueueOK
    <2>4. Responsible'
      BY <1>1, <1>2, <1>3, <1>4, <2>2, <2>3, AsideKept DEF Inv, Late
    <2>5. StopInv'
      BY <1>1, <1>5, <2>2 DEF Inv, StopInv
    <2>6. QED
      BY <1>6, <1>7, <2>4, <2>5 DEF Inv
  <1>9. CASE ~AddIrpEnqueue(i)
    <2>1. list' = list /\ irp'[i].stage \in {"counted", "refusing", "rejected"}
      BY <1>9, AddIrpSteps DEF AddIrp, AddIrpCount, AddIrpRefuse, AddIrpRefuseSignal
    <2>2. Responsible'
      BY <1>1, <1>2, <1>4, <2>1, AsideKept DEF Inv, Late
    <2>3. StopInv'
      BY <1>1, <1>5, <2>1, StopKept DEF Inv
    <2>4. QED
      BY <1>6, <1>7, <2>2, <2>3 DEF Inv
  <1>10. QED
    BY <1>8, <1>9

(* The completion routine: the IRP is uncounted, then answered *)
LEMMA WorkKept ==
    ASSUME TypeOK, Inv, NEW i \in Irps, WorkCount(i) \/ WorkCompleteIrp(i)
    PROVE  Inv'
  <1> USE DEF WorkCount, WorkCompleteIrp
  <1>1. /\ UNCHANGED <<list, pool, buffer, store, main, io, comp, hold, stop>>
        /\ \A j \in Irps \ {i} : irp'[j] = irp[j] /\ worker'[j] = worker[j]
    BY DEF TypeOK
  <1>2. worker[i] # "none" /\ irp[i].stage \in {"active", "uncounted", "completed"}
    BY DEF Inv, Responsible, WorkerOK
  <1>3. irp'[i].stage \in {"uncounted", "completed"} /\ worker'[i] \in Late
    BY DEF TypeOK, IrpRecords, Late
  <1>4. Responsible'
    BY <1>1, <1>2, <1>3, AsideKept DEF Inv, Late
  <1>5. /\ queue'.Suspended = queue.Suspended /\ queue'.QueueResumedEvent = queue.QueueResumedEvent
        /\ queue'.StopPending = queue.StopPending /\ queue'.ThreadExitRequested = queue.ThreadExitRequested
    BY DEF DecrementOutstandingIoCount, TypeOK, QueueRecords
  <1>6. CountIsOutstanding'
    <2>1. CASE WorkCount(i)
      <3>1. Counted(i) /\ ~Counted(i)'
        BY <2>1, <1>3 DEF Inv, Responsible, WorkerOK, Counted
      <3>2. queue'.OutstandingIoCount = queue.OutstandingIoCount - 1
        BY <2>1 DEF DecrementOutstandingIoCount, TypeOK, QueueRecords
      <3>3. QED
        BY <1>1, <3>1, <3>2, CountMoves DEF Inv
    <2>2. CASE WorkCompleteIrp(i)
      <3>1. Counted(i)' = Counted(i)
        BY <2>2, <1>3 DEF Inv, Responsible, WorkerOK, Counted
      <3>2. queue'.OutstandingIoCount = queue.OutstandingIoCount
        BY <2>2
      <3>3. QED
        BY <1>1, <3>1, <3>2, CountMoves DEF Inv
    <2>3. QED
      BY <2>1, <2>2
  <1>7. HoldInv'
    BY <1>1, <1>3, <1>5, HoldKept DEF Inv, ReadingAhead
  <1>8. StopInv'
    BY <1>1, <1>3, <1>5, StopKept DEF Inv
  <1>9. QED
    BY <1>4, <1>6, <1>7, <1>8 DEF Inv

(* The main thread takes an IRP that waits *)
LEMMA MainDequeueKept ==
    ASSUME TypeOK, Inv, MainDequeue
    PROVE  Inv'
  <1> USE DEF MainDequeue
  <1>1. UNCHANGED <<irp, queue, buffer, io, comp, worker, hold, stop>> /\ list'.io = list.io /\ list'.comp = list.comp
    BY DEF TypeOK, ListRecords
  <1>2. list.main \in Seq(Irps) /\ list.main # <<>> /\ list'.main = Tail(list.main) /\ main'.irp = Head(list.main)
    BY DEF TypeOK, ListRecords, MainOK, MainRecords
  <1>3. ~(Whole' \/ Cutting') /\ main'.pc = "suspendCheck"
    BY DEF TypeOK, MainOK, MainRecords, Whole, Cutting
  <1>4. MainQueueOK'
    <2>1. /\ Head(list.main) = list.main[1] /\ 1 \in DOMAIN list.main
          /\ \A k \in DOMAIN Tail(list.main) : /\ k + 1 \in DOMAIN list.main /\ k + 1 # 1 /\ k \in Int
                                               /\ Tail(list.main)[k] = list.main[k + 1]
      BY <1>2
    <2>2. \A k \in DOMAIN list'.main : irp'[list'.main[k]].stage = "queued"
      BY <1>1, <1>2, <2>1 DEF Inv, Responsible, MainQueueOK
    <2>3. \A j, k \in DOMAIN list'.main : list'.main[j] = list'.main[k] => j = k
      <3>1. \A j, k \in DOMAIN Tail(list.main) : j + 1 = k + 1 => j = k
        BY <2>1
      <3>2. \A j, k \in DOMAIN list.main : list.main[j] = list.main[k] => j = k
        BY DEF Inv, Responsible, MainQueueOK
      <3>3. QED
        BY <1>2, <2>1, <3>1, <3>2
    <2>4. irp'[main'.irp].stage = "queued"
      BY <1>1, <1>2, <2>1 DEF Inv, Responsible, MainQueueOK
    <2>5. main'.irp \notin Of(list'.main)
      <3>1. \A k \in DOMAIN list.main : list.main[k] = list.main[1] => k = 1
        BY <2>1 DEF Inv, Responsible, MainQueueOK
      <3>2. \A k \in DOMAIN Tail(list.main) : Tail(list.main)[k] # Head(list.main)
        BY <2>1, <3>1
      <3>3. QED
        BY <1>2, <3>2 DEF Of
    <2>6. QED
      BY <2>2, <2>3, <2>4, <2>5 DEF MainQueueOK
  <1>5. SameIrps /\ SameWorkers /\ IoKept /\ CompKept /\ QueueKept /\ ReadingAhead' = ReadingAhead
    BY <1>1 DEF SameIrps, SameWorkers, IoKept, CompKept, QueueKept, ReadingAhead
  <1>6. IoHas' = IoHas /\ CompHas' = CompHas /\ Of(list.io)' = Of(list.io) /\ Of(list.comp)' = Of(list.comp) /\ Fragments' = Fragments
    BY <1>1 DEF IoHas, CompHas, Fragments
  <1>7. NoFragmentOutlivesIrp' /\ FragmentOrder' /\ FragmentKind' /\ WorkerOK'
    BY <1>1, <1>6 DEF Inv, Responsible, NoFragmentOutlivesIrp, FragmentOrder, FragmentKind, WorkerOK
  <1>8. MainHasIrp'
    BY <1>3 DEF MainHasIrp
  <1>9. CountIsOutstanding'
    BY <1>5, CountKept DEF Inv, QueueKept, ReadingAhead
  <1>10. HoldInv' /\ StopInv'
    BY <1>1, <1>5, HoldKept, StopKept DEF Inv
  <1>11. QED
    BY <1>4, <1>7, <1>8, <1>9, <1>10 DEF Inv, Responsible

(* ... and admits it, unless the queue is suspended *)
LEMMA MainAdmitKept ==
    ASSUME TypeOK, Inv, MainSuspendCheck \/ MainResumed
    PROVE  Inv'
  <1> DEFINE i == main.irp
  <1>1. Waits /\ i \in Irps
    BY WaitsForIrp DEF MainSuspendCheck, MainResumed, Waits
  <1>2. CASE ~Admit
    <2>1. MainSuspendCheck /\ main' = [main EXCEPT !.pc = "suspended"] /\ irp' = irp
      BY <1>2 DEF MainSuspendCheck, MainResumed
    <2>2. SameIrps /\ SameWorkers /\ ListsKept /\ IoKept /\ CompKept /\ QueueKept /\ ReadingAhead' = ReadingAhead
      BY <2>1 DEF MainSuspendCheck, SameIrps, SameWorkers, ListsKept, IoKept, CompKept, QueueKept, ReadingAhead
    <2>3. MainKept
      BY <2>1, <1>1 DEF MainSuspendCheck, MainKept, Waits, Whole, Cutting, TypeOK, MainOK, MainRecords
    <2>4. QED
      BY <2>1, <2>2, <2>3, InvKept DEF MainSuspendCheck
  <1>3. CASE Admit
    <2> HIDE DEF i
    <2>1. /\ irp' = [irp EXCEPT ![i].stage = "active"] /\ main' = [main EXCEPT !.pc = "getItem"]
          /\ UNCHANGED <<list, buffer, io, comp, worker, hold, stop>>
      BY <1>3 DEF Admit, i, MainSuspendCheck, MainResumed
    <2>2. irp[i].stage = "queued" /\ i \notin Of(list.main)
      BY <1>1 DEF Inv, Responsible, MainQueueOK, i
    <2>3. irp'[i].stage = "active" /\ irp'[i].op = irp[i].op /\ \A j \in Irps \ {i} : irp'[j] = irp[j]
      BY <1>1, <2>1 DEF TypeOK, IrpRecords
    <2>4. main'.pc = "getItem" /\ main'.irp = i
      BY <2>1 DEF TypeOK, MainOK, MainRecords, i
    <2>5. worker[i] = "none" /\ \A r \in Fragments : r.irp \in Irps \ {i}
      BY <1>1, <2>2, NoWorker, NoFragments DEF Inv, Responsible
    <2>6. IoHas' = IoHas /\ CompHas' = CompHas /\ Of(list.io)' = Of(list.io) /\ Of(list.comp)' = Of(list.comp) /\ Fragments' = Fragments
      BY <2>1 DEF IoHas, CompHas, Fragments
    <2>7. NoFragmentOutlivesIrp'
      BY <2>1, <2>3, <2>5, <2>6 DEF Inv, Responsible, NoFragmentOutlivesIrp
    <2>8. FragmentOrder'
      BY <2>1, <2>6 DEF Inv, Responsible, FragmentOrder
    <2>9. FragmentKind'
      <3>1. \A r \in Fragments : irp'[r.irp] = irp[r.irp]
        BY <2>3, <2>5
      <3>2. io.pc \in {"readDone", "complete"} => io.req \in Fragments
        BY DEF Fragments, IoHas
      <3>3. Of(list.comp) \cup CompHas \subseteq Fragments
        BY DEF Fragments
      <3>4. QED
        BY <2>1, <2>6, <3>1, <3>2, <3>3 DEF Inv, Responsible, FragmentKind
    <2>10. MainQueueOK'
      <3>1. ~Waits' /\ \A k \in DOMAIN list.main : list.main[k] \in Irps \ {i}
        BY <2>2, <2>4 DEF Of, Waits, TypeOK, ListRecords
      <3>2. QED
        BY <2>1, <2>3, <3>1 DEF Inv, Responsible, MainQueueOK
    <2>11. MainHasIrp'
      BY <2>1, <2>3, <2>4, <2>5, <2>6 DEF MainHasIrp, Whole, Cutting
    <2>12. WorkerOK'
      BY <2>1, <2>3, <2>5 DEF Inv, Responsible, WorkerOK
    <2>13. /\ queue'.OutstandingIoCount = queue.OutstandingIoCount /\ queue'.Suspended = queue.Suspended
           /\ queue'.StopPending = queue.StopPending /\ queue'.ThreadExitRequested = queue.ThreadExitRequested
           /\ queue'.QueueResumedEvent => queue.QueueResumedEvent
      BY DEF MainSuspendCheck, MainResumed, TypeOK, QueueRecords
    <2>14. CountIsOutstanding'
      BY <1>1, <2>1, <2>2, <2>3, <2>13, CountMoves DEF Inv, Counted
    <2>15. HoldInv'
      <3>1. ~queue.Suspended \/ queue.QueueResumedEvent
        BY <1>3 DEF MainSuspendCheck, MainResumed, Admit, TypeOK, MainOK, MainRecords
      <3>2. ~Held /\ hold' = hold
        BY <2>1, <3>1 DEF Inv, HoldInv, Held
      <3>3. QED
        BY <2>13, <3>2 DEF Inv, HoldInv, Held
    <2>16. StopInv'
      <3>1. ~queue.ThreadExitRequested
        BY <1>1, <2>2 DEF Inv, StopInv
      <3>2. QED
        BY <2>1, <2>13, <3>1 DEF Inv, StopInv
    <2>17. QED
      BY <2>7, <2>8, <2>9, <2>10, <2>11, <2>12, <2>14, <2>15, <2>16 DEF Inv, Responsible
  <1>4. QED
    BY <1>2, <1>3

----------------------------------------------------------------------------
(* Steps of the main thread that pass an IRP on *)

LEMMA FragmentsKept ==
    ASSUME UNCHANGED <<io, comp>>, list'.io = list.io, list'.comp = list.comp
    PROVE  /\ IoHas' = IoHas /\ CompHas' = CompHas /\ Fragments' = Fragments
           /\ Of(list.io)' = Of(list.io) /\ Of(list.comp)' = Of(list.comp)
           /\ FragmentOrder => FragmentOrder'
  <1>1. IoHas' = IoHas /\ CompHas' = CompHas /\ Of(list.io)' = Of(list.io) /\ Of(list.comp)' = Of(list.comp)
    BY DEF IoHas, CompHas
  <1>2. QED
    BY <1>1 DEF Fragments, FragmentOrder

(* The IRP is completed without a fragment *)
LEMMA MainCompleteKept ==
    ASSUME TypeOK, Inv, MainComplete
    PROVE  Inv'
  <1> DEFINE i == main.irp
  <1>1. Whole /\ i \in Irps
    BY WaitsForIrp DEF MainComplete, Whole
  <1>2. irp[i].stage = "active" /\ \A r \in Fragments : r.irp # i
    BY <1>1 DEF Inv, Responsible, MainHasIrp
  <1> HIDE DEF i
  <1>3. /\ worker' = [worker EXCEPT ![i] = "start"]
        /\ UNCHANGED <<irp, queue, list, buffer, io, comp, hold, stop>>
    BY DEF MainComplete, QueueIrpCompletion, i
  <1>4. ~Waits' /\ ~Whole' /\ ~Cutting' /\ main'.pc = "drain"
    BY DEF MainComplete, Waits, Whole, Cutting, TypeOK, MainOK, MainRecords
  <1>5. IoHas' = IoHas /\ CompHas' = CompHas /\ Fragments' = Fragments /\ Of(list.comp)' = Of(list.comp) /\ FragmentOrder'
    BY <1>3, FragmentsKept DEF Inv, Responsible
  <1>6. \A j \in Irps : worker'[j] = IF j = i THEN "start" ELSE worker[j]
    BY <1>3 DEF TypeOK
  <1>7. NoFragmentOutlivesIrp'
    BY <1>2, <1>3, <1>5, <1>6, FragmentTypes DEF Inv, Responsible, NoFragmentOutlivesIrp
  <1>8. FragmentKind'
    BY <1>3, <1>5 DEF Inv, Responsible, FragmentKind
  <1>9. MainQueueOK' /\ MainHasIrp'
    BY <1>3, <1>4 DEF Inv, Responsible, MainQueueOK, MainHasIrp
  <1>10. WorkerOK'
    BY <1>2, <1>3, <1>6 DEF Inv, Responsible, WorkerOK
  <1>11. SameIrps /\ ReadingAhead' = ReadingAhead
    BY <1>3 DEF SameIrps, ReadingAhead
  <1>12. CountIsOutstanding'
    BY <1>3, <1>11, CountKept DEF Inv, ReadingAhead
  <1>13. HoldInv' /\ StopInv'
    BY <1>3, <1>11, HoldKept, StopKept DEF Inv
  <1>14. QED
    BY <1>5, <1>7, <1>8, <1>9, <1>10, <1>12, <1>13 DEF Inv, Responsible

(* The main thread's next fragment goes behind all others; the last one takes the IRP with it *)
LEMMA EnqueueKept ==
    ASSUME TypeOK, Inv, Cutting, NEW r \in Requests, r.irp = main.irp,
           irp[main.irp].op.kind = "flush" => r.last,
           list'.main = list.main, list'.io = Append(list.io, r), list'.comp = list.comp,
           UNCHANGED <<irp, queue, io, comp, worker, hold, stop>>,
           buffer'.aheadValid => buffer.aheadValid,
           \/ r.last /\ main'.pc = "drain"
           \/ ~r.last /\ main'.pc = "fragment" /\ main'.irp = main.irp
    PROVE  Inv'
  <1>1. /\ main.irp \in Irps /\ irp[main.irp].stage = "active" /\ worker[main.irp] = "none"
        /\ \A q \in Fragments : q.irp = r.irp => ~q.last
    BY WaitsForIrp DEF Inv, Responsible, MainHasIrp
  <1>2. list.io \in Seq(Requests)
    BY ListFields
  <1>3. Of(list.io)' = Of(list.io) \cup {r}
    BY <1>2, OfAppend
  <1>4. IoHas' = IoHas /\ CompHas' = CompHas /\ Of(list.comp)' = Of(list.comp)
    BY DEF IoHas, CompHas
  <1>5. Fragments' = Fragments \cup {r}
    BY <1>3, <1>4 DEF Fragments
  <1>6. NoFragmentOutlivesIrp'
    BY <1>1, <1>5 DEF Inv, Responsible, NoFragmentOutlivesIrp
  <1>7. FragmentOrder'
    <2>1. Precedes(Of(list.io), {r}) /\ Precedes(Of(list.comp), {r}) /\ Precedes(IoHas, {r}) /\ Precedes(CompHas, {r})
      BY <1>1 DEF Precedes, Fragments
    <2>2. Ordered(list.io)'
      BY <1>2, <2>1, OrderedAppend DEF Inv, Responsible, FragmentOrder
    <2>3. \A A, B : Precedes(A, B) /\ Precedes(A, {r}) => Precedes(A, B \cup {r})
      BY DEF Precedes
    <2>4. Precedes(IoHas, Of(list.io) \cup {r})
      BY <2>1, <2>3 DEF Inv, Responsible, FragmentOrder
    <2>5. Precedes(Of(list.comp), IoHas \cup (Of(list.io) \cup {r}))
      BY <2>1 DEF Precedes, Inv, Responsible, FragmentOrder
    <2>6. Precedes(CompHas, Of(list.comp) \cup IoHas \cup (Of(list.io) \cup {r}))
      BY <2>1 DEF Precedes, Inv, Responsible, FragmentOrder
    <2>7. QED
      BY <1>3, <1>4, <2>2, <2>4, <2>5, <2>6 DEF Inv, Responsible, FragmentOrder
  <1>8. FragmentKind'
    BY <1>4, <1>5 DEF Inv, Responsible, FragmentKind
  <1>9. ~Waits' /\ ~Whole' /\ main'.pc # "acquire" /\ (Cutting' => ~r.last /\ main'.irp = main.irp)
    BY DEF Waits, Whole, Cutting
  <1>10. MainQueueOK' /\ MainHasIrp'
    BY <1>1, <1>5, <1>9 DEF Inv, Responsible, MainQueueOK, MainHasIrp
  <1>11. WorkerOK'
    BY DEF Inv, Responsible, WorkerOK
  <1>12. SameIrps /\ ReadingAhead' = ReadingAhead
    BY DEF SameIrps, ReadingAhead
  <1>13. CountIsOutstanding'
    BY <1>12, CountKept DEF Inv, ReadingAhead
  <1>14. HoldInv' /\ StopInv'
    BY <1>12, HoldKept, StopKept DEF Inv
  <1>15. QED
    BY <1>6, <1>7, <1>8, <1>10, <1>11, <1>13, <1>14 DEF Inv, Responsible

LEMMA MainGetRequestKept ==
    ASSUME TypeOK, Inv, MainGetRequest
    PROVE  Inv'
  <1>1. Cutting /\ main.irp \in Irps /\ main.pc = "getRequest"
    BY WaitsForIrp DEF MainGetRequest, Cutting
  <1>2. UNCHANGED <<irp, queue, buffer, io, comp, worker, hold, stop>>
    BY DEF MainGetRequest
  <1>3. CASE irp[main.irp].op.kind = "flush"
    <2> DEFINE r == FlushRequest(main.irp)
    <2>1. r \in Requests /\ r.irp = main.irp /\ r.last
      BY <1>1 DEF FlushRequest, Requests, Buffers
    <2>2. EnqueueIo(r) /\ main' = [main EXCEPT !.pc = "drain", !.irp = "none"]
      BY <1>3 DEF MainGetRequest
    <2> HIDE DEF r
    <2>3. list'.main = list.main /\ list'.io = Append(list.io, r) /\ list'.comp = list.comp /\ main'.pc = "drain"
      BY <2>2 DEF EnqueueIo, TypeOK, ListRecords, MainOK, MainRecords
    <2>4. QED
      BY <1>1, <1>2, <2>1, <2>3, EnqueueKept
  <1>4. CASE irp[main.irp].op.kind # "flush"
    <2>1. main' = [main EXCEPT !.pc = "acquire", !.req = NextRequest] /\ list' = list
      BY <1>4 DEF MainGetRequest
    <2>2. NextRequest.irp = main.irp
      BY DEF NextRequest
    <2>3. main'.pc = "acquire" /\ main'.irp = main.irp /\ main'.req = NextRequest
      BY <2>1 DEF TypeOK, MainOK, MainRecords
    <2>4. ~Waits' /\ ~Whole'
      BY <2>3 DEF Waits, Whole
    <2>5. IoHas' = IoHas /\ CompHas' = CompHas /\ Fragments' = Fragments /\ Of(list.comp)' = Of(list.comp) /\ FragmentOrder'
      BY <1>2, <2>1, FragmentsKept DEF Inv, Responsible
    <2>6. NoFragmentOutlivesIrp' /\ FragmentKind' /\ MainQueueOK' /\ WorkerOK'
      BY <1>2, <2>1, <2>4, <2>5 DEF Inv, Responsible, NoFragmentOutlivesIrp, FragmentKind, MainQueueOK, WorkerOK
    <2>7. MainHasIrp'
      BY <1>1, <1>2, <1>4, <2>2, <2>3, <2>4, <2>5 DEF Inv, Responsible, MainHasIrp
    <2>8. SameIrps /\ ReadingAhead' = ReadingAhead
      BY <1>2 DEF SameIrps, ReadingAhead
    <2>9. CountIsOutstanding'
      BY <1>2, <2>8, CountKept DEF Inv, ReadingAhead
    <2>10. HoldInv' /\ StopInv'
      BY <1>2, <2>8, HoldKept, StopKept DEF Inv
    <2>11. QED
      BY <2>5, <2>6, <2>7, <2>9, <2>10 DEF Inv, Responsible
  <1>5. QED
    BY <1>3, <1>4

LEMMA MainAcquireKept ==
    ASSUME TypeOK, Inv, MainAcquire
    PROVE  Inv'
  <1> DEFINE r == main.req
  <1>1. Cutting /\ r \in Requests /\ main.pc = "acquire"
    BY DEF MainAcquire, Cutting, TypeOK, MainOK
  <1>2. r.irp = main.irp /\ irp[main.irp].op.kind # "flush"
    BY <1>1 DEF Inv, Responsible, MainHasIrp
  <1>3. FillAndQueue(r)
    BY DEF MainAcquire
  <1> HIDE DEF r
  <1>4. list'.main = list.main /\ list'.io = Append(list.io, r) /\ list'.comp = list.comp
    BY <1>3 DEF FillAndQueue, EnqueueIo, TypeOK, ListRecords
  <1>5. buffer'.aheadValid = buffer.aheadValid
    BY <1>3 DEF FillAndQueue, TypeOK, BufferRecords
  <1>6. \/ r.last /\ main'.pc = "drain"
        \/ ~r.last /\ main'.pc = "fragment" /\ main'.irp = main.irp
    BY <1>3 DEF FillAndQueue, TypeOK, MainOK, MainRecords
  <1>7. UNCHANGED <<irp, queue, io, comp, worker, hold, stop>>
    BY <1>3 DEF FillAndQueue
  <1>8. QED
    BY <1>1, <1>2, <1>4, <1>5, <1>6, <1>7, EnqueueKept

LEMMA MainKeeps ==
    ASSUME TypeOK, Inv, MainThreadProc
    PROVE  Inv'
  BY MainStaysKept, MainDequeueKept, MainAdmitKept, MainCompleteKept, MainGetRequestKept, MainAcquireKept
     DEF MainThreadProc, MainStays

----------------------------------------------------------------------------
(* Steps of the I/O thread and the completion thread *)

LEMMA PrecedesSubset ==
    ASSUME NEW A, NEW B, NEW C, NEW D, Precedes(A, B), C \subseteq A, D \subseteq B
    PROVE  Precedes(C, D)
  BY DEF Precedes

(* A request moves on, or is dropped *)
LEMMA MovedKept ==
    ASSUME TypeOK, Responsible, SameIrps, UNCHANGED <<main, worker>>, list'.main = list.main,
           Fragments' \subseteq Fragments, FragmentOrder',
           \A r \in (Of(list.comp) \cup CompHas)' : irp[r.irp].op.kind = "read",
           io'.pc \in {"readDone", "complete"} => io'.req \in Fragments,
           io'.pc = "readDone" => irp[io'.req.irp].op.kind = "read",
           io'.pc = "complete" => io'.req.last /\ irp[io'.req.irp].op.kind # "read",
           comp'.pc = "complete" => comp'.req.last
    PROVE  Responsible'
  <1>1. MainKept /\ SameWorkers
    BY DEF MainKept, SameWorkers, Waits, Whole, Cutting
  <1>2. NoFragmentOutlivesIrp'
    BY OutlivesKept DEF Responsible, NoFragmentOutlivesIrp
  <1>3. MainHasIrp'
    BY <1>1, MainHasKept DEF Responsible, MainHasIrp
  <1>4. MainQueueOK' /\ WorkerOK'
    BY <1>1, MainQueueKept, WorkerKept DEF Responsible
  <1>5. FragmentKind'
    <2>1. \A r \in Fragments : irp'[r.irp].op = irp[r.irp].op
      BY FragmentTypes DEF SameIrps
    <2>2. (Of(list.comp) \cup CompHas)' \subseteq Fragments
      BY DEF Fragments
    <2>3. \A r \in Fragments' : irp'[r.irp].op.kind = "flush" => r.last
      BY <2>1 DEF Responsible, FragmentKind
    <2>4. \A r \in (Of(list.comp) \cup CompHas)' : irp'[r.irp].op.kind = "read"
      BY <2>1, <2>2
    <2>5. io'.pc = "readDone" => irp'[io'.req.irp].op.kind = "read"
      BY <2>1
    <2>6. io'.pc = "complete" => io'.req.last /\ irp'[io'.req.irp].op.kind # "read"
      BY <2>1
    <2>7. QED
      BY <2>3, <2>4, <2>5, <2>6 DEF FragmentKind
  <1>6. QED
    BY <1>2, <1>3, <1>4, <1>5 DEF Responsible

(* The last fragment of an IRP, in a thread's hands, is its only one *)
LEMMA CompletedKept ==
    ASSUME TypeOK, Responsible, NEW r \in Fragments, r.last,
           UNCHANGED <<irp, main>>, list' = list, worker' = [worker EXCEPT ![r.irp] = "start"],
           Fragments' \subseteq Fragments, \A q \in Fragments' : q.irp # r.irp,
           FragmentOrder', FragmentKind'
    PROVE  Responsible'
  <1>1. r.irp \in Irps /\ irp[r.irp].stage = "active"
    BY FragmentTypes DEF Responsible, NoFragmentOutlivesIrp
  <1>2. \A j \in Irps : worker'[j] = IF j = r.irp THEN "start" ELSE worker[j]
    BY DEF TypeOK
  <1>3. NoFragmentOutlivesIrp'
    BY <1>2, FragmentTypes DEF Responsible, NoFragmentOutlivesIrp
  <1>4. Whole \/ Cutting => main.irp \in Irps /\ main.irp # r.irp
    BY WaitsForIrp DEF Responsible, MainHasIrp
  <1>5. SameIrps /\ MainKept
    BY DEF SameIrps, MainKept, Waits, Whole, Cutting
  <1>6. MainHasIrp'
    BY <1>2, <1>4, <1>5, MainHasKept DEF Responsible, MainHasIrp
  <1>7. MainQueueOK'
    BY <1>5, MainQueueKept DEF Responsible
  <1>8. WorkerOK'
    BY <1>1, <1>2 DEF Responsible, WorkerOK
  <1>9. QED
    BY <1>3, <1>6, <1>7, <1>8 DEF Responsible

(* The other parts of the invariant, when no IRP changes its stage *)
LEMMA RestKept ==
    ASSUME TypeOK, Inv, SameIrps, UNCHANGED <<queue, hold, stop>>, ReadingAhead' = ReadingAhead,
           buffer'.aheadValid => buffer.aheadValid
    PROVE  CountIsOutstanding' /\ HoldInv' /\ StopInv'
  <1>1. CountIsOutstanding'
    BY CountKept DEF Inv, ReadingAhead
  <1>2. \A i \in Irps : irp'[i].stage = irp[i].stage
    BY DEF SameIrps
  <1>3. HoldInv' /\ StopInv'
    BY <1>2, HoldKept, StopKept DEF Inv
  <1>4. QED
    BY <1>1, <1>3

LEMMA IoDequeueKept ==
    ASSUME TypeOK, Inv, IoDequeue
    PROVE  Inv'
  <1> USE DEF IoDequeue
  <1>1. /\ UNCHANGED <<irp, queue, buffer, main, comp, worker, hold, stop>>
        /\ list'.main = list.main /\ list'.comp = list.comp /\ list'.io = Tail(list.io) /\ list.io # <<>>
        /\ io'.pc = "io" /\ io'.req = Head(list.io) /\ io.pc = "drain"
    BY DEF TypeOK, ListRecords
  <1>2. list.io \in Seq(Requests) /\ Of(list.io) = Of(list.io)' \cup {Head(list.io)}
    BY <1>1, ListFields, OfTail
  <1>3. IoHas = {} /\ IoHas' = {Head(list.io)} /\ CompHas' = CompHas /\ Of(list.comp)' = Of(list.comp)
    BY <1>1 DEF IoHas, CompHas
  <1>4. Fragments' = Fragments
    BY <1>2, <1>3 DEF Fragments
  <1>5. FragmentOrder'
    <2>1. Ordered(list.io)' /\ Precedes(IoHas', Of(list.io)')
      BY <1>1, <1>2, <1>3, OrderedTail DEF Inv, Responsible, FragmentOrder
    <2>2. IoHas' \cup Of(list.io)' = IoHas \cup Of(list.io)
      BY <1>2, <1>3
    <2>3. Precedes(Of(list.comp)', IoHas' \cup Of(list.io)')
      BY <1>3, <2>2 DEF Inv, Responsible, FragmentOrder
    <2>4. Precedes(CompHas', Of(list.comp)' \cup IoHas' \cup Of(list.io)')
      BY <1>3, <2>2, PrecedesSubset DEF Inv, Responsible, FragmentOrder
    <2>5. Ordered(list.comp)'
      BY <1>1 DEF Inv, Responsible, FragmentOrder
    <2>6. QED
      BY <2>1, <2>3, <2>4, <2>5 DEF FragmentOrder
  <1>6. SameIrps /\ ReadingAhead' = ReadingAhead
    BY <1>1 DEF SameIrps, ReadingAhead
  <1>7. Responsible'
    BY <1>1, <1>3, <1>4, <1>5, <1>6, MovedKept DEF Inv, Responsible, FragmentKind
  <1>8. QED
    BY <1>1, <1>6, <1>7, RestKept DEF Inv

(* A request at the device: its IRP changes in status and data only *)
LEMMA TransferSameIrps ==
    ASSUME TypeOK, IoFlush \/ IoWrite \/ IoRead
    PROVE  SameIrps
  <1> DEFINE i == io.req.irp
  <1>1. i \in Irps
    BY DEF IoFlush, IoWrite, IoRead, TypeOK, IoOK, Requests
  <1>2. irp \in [Irps -> IrpRecords]
    BY DEF TypeOK
  <1>3. irp[i] \in IrpRecords
    BY <1>1, <1>2
  <1>4. CASE irp' = irp
    BY <1>4 DEF SameIrps
  <1>5. CASE IoFlush
    <2>1. PICK done \in Outcomes(io.req.irp) :
            irp' = [irp EXCEPT ![i].status = IF @ = "ok" /\ (IsFilterDevice \/ ~done) THEN "failed" ELSE @]
      BY <1>5 DEF IoFlush
    <2>2. QED
      BY <1>1, <1>2, <1>3, <2>1 DEF SameIrps, IrpRecords
  <1>6. CASE IoWrite /\ irp' # irp
    <2>1. PICK done \in [Pieces(io.req) -> Outcomes(io.req.irp)], W \in SUBSET Extent(io.req) :
            irp' = [irp EXCEPT ![i].todo = @ \ W, ![i].status = StatusOf(io.req, done)]
      BY <1>6 DEF IoWrite, DeviceWrite
    <2>2. QED
      BY <1>1, <1>2, <1>3, <2>1 DEF SameIrps, IrpRecords
  <1>7. CASE IoRead /\ irp' # irp
    <2>1. \/ irp' = [irp EXCEPT ![i].status = "failed"]
          \/ \E T, d : irp' = [irp EXCEPT ![i].todo = @ \ T, ![i].data = d]
      <3>1. PICK done \in [Pieces(io.req) -> Outcomes(io.req.irp)] :
              irp' = IF StatusOf(io.req, done) # "ok"
                     THEN [irp EXCEPT ![i].status = "failed"]
                     ELSE [irp EXCEPT ![i].todo = @ \ Transferred(io.req, done),
                                      ![i].data = [s \in Sectors |->
                                         IF s \notin Extent(io.req) THEN @[s]
                                         ELSE IF s \notin Transferred(io.req, done) THEN Garbage
                                         ELSE CachedCell(Piece(io.req, CHOOSE k \in Pieces(io.req) : s \in PieceSectors(io.req, k)), s)]]
        BY <1>7 DEF IoRead, DeviceRead
      <3>2. QED
        BY <3>1
    <2>2. CASE irp' = [irp EXCEPT ![i].status = "failed"]
      BY <1>1, <1>2, <1>3, <2>2 DEF SameIrps, IrpRecords
    <2>3. CASE \E T, d : irp' = [irp EXCEPT ![i].todo = @ \ T, ![i].data = d]
      <3>1. PICK T, d : irp' = [irp EXCEPT ![i].todo = @ \ T, ![i].data = d]
        BY <2>3
      <3>2. QED
        BY <1>1, <1>2, <1>3, <3>1 DEF SameIrps, IrpRecords
    <2>4. QED
      BY <2>1, <2>2, <2>3
  <1>8. QED
    BY <1>4, <1>5, <1>6, <1>7

LEMMA IoTransferKept ==
    ASSUME TypeOK, Inv, IoFlush \/ IoWrite \/ IoRead
    PROVE  Inv'
  <1>1. /\ UNCHANGED <<queue, list, main, comp, worker, hold, stop>> /\ io.pc = "io"
        /\ io.req \in Requests /\ io.req.irp \in Irps
    BY DEF IoFlush, IoWrite, IoRead, TypeOK, IoOK, Requests
  <1>2. SameIrps
    BY TransferSameIrps
  <1>3. \/ /\ io'.pc = "complete" /\ io'.req = io.req
           /\ irp[io.req.irp].op.kind # "read" /\ (irp[io.req.irp].op.kind = "flush" \/ io.req.last)
        \/ io'.pc = "readDone" /\ io'.req = io.req /\ irp[io.req.irp].op.kind = "read"
        \/ io'.pc = "drain"
    BY DEF IoFlush, IoWrite, IoRead, TypeOK, IoOK, IoRecords
  <1>4. buffer'.aheadValid => buffer.aheadValid
    BY DEF IoFlush, IoWrite, IoRead, ReleaseFragment, TypeOK, BufferRecords
  <1>5. IoHas = {io.req} /\ IoHas' \subseteq IoHas /\ CompHas' = CompHas
    BY <1>1, <1>3 DEF IoHas, CompHas
  <1>6. Of(list.io)' = Of(list.io) /\ Of(list.comp)' = Of(list.comp)
    BY <1>1
  <1>7. Fragments' \subseteq Fragments /\ io.req \in Fragments
    BY <1>5, <1>6 DEF Fragments
  <1>8. FragmentOrder'
    <2>1. Precedes(IoHas', Of(list.io)')
      BY <1>5, <1>6, PrecedesSubset DEF Inv, Responsible, FragmentOrder
    <2>2. Precedes(Of(list.comp)', IoHas' \cup Of(list.io)')
      BY <1>5, <1>6 DEF Precedes, Inv, Responsible, FragmentOrder
    <2>3. Precedes(CompHas', Of(list.comp)' \cup IoHas' \cup Of(list.io)')
      BY <1>5, <1>6 DEF Precedes, Inv, Responsible, FragmentOrder
    <2>4. QED
      BY <1>1, <2>1, <2>2, <2>3 DEF Inv, Responsible, FragmentOrder
  <1>9. Responsible'
    BY <1>1, <1>2, <1>3, <1>5, <1>6, <1>7, <1>8, MovedKept DEF Inv, Responsible, FragmentKind
  <1>10. ReadingAhead' = ReadingAhead
    BY <1>1, <1>3 DEF ReadingAhead
  <1>11. QED
    BY <1>1, <1>2, <1>4, <1>9, <1>10, RestKept DEF Inv

LEMMA IoCompleteKept ==
    ASSUME TypeOK, Inv, IoComplete
    PROVE  Inv'
  <1> DEFINE r == io.req
  <1>1. io.pc = "complete" /\ io'.pc = "release"
    BY DEF IoComplete, TypeOK, IoOK, IoRecords
  <1>2. IoHas = {r} /\ IoHas' = {} /\ r \in Fragments
    BY <1>1 DEF IoHas, Fragments
  <1>3. r.last /\ irp[r.irp].op.kind # "read"
    BY <1>1 DEF Inv, Responsible, FragmentKind
  <1>4. /\ worker' = [worker EXCEPT ![r.irp] = "start"]
        /\ UNCHANGED <<irp, queue, list, buffer, main, comp, hold, stop>>
    BY DEF IoComplete, QueueIrpCompletion
  <1> HIDE DEF r
  <1>5. CompHas' = CompHas /\ Of(list.io)' = Of(list.io) /\ Of(list.comp)' = Of(list.comp)
    BY <1>4 DEF CompHas
  <1>6. Fragments' = Of(list.io) \cup Of(list.comp) \cup CompHas /\ Fragments' \subseteq Fragments
    BY <1>2, <1>5 DEF Fragments
  <1>7. \A q \in Fragments' : q.irp # r.irp
    BY <1>2, <1>3, <1>6 DEF Inv, Responsible, FragmentOrder, FragmentKind, Precedes
  <1>8. FragmentOrder'
    <2>1. Precedes(IoHas', Of(list.io)')
      BY <1>2 DEF Precedes
    <2>2. Precedes(Of(list.comp)', IoHas' \cup Of(list.io)')
      BY <1>2, <1>5 DEF Precedes, Inv, Responsible, FragmentOrder
    <2>3. Precedes(CompHas', Of(list.comp)' \cup IoHas' \cup Of(list.io)')
      BY <1>2, <1>5 DEF Precedes, Inv, Responsible, FragmentOrder
    <2>4. QED
      BY <1>4, <2>1, <2>2, <2>3 DEF Inv, Responsible, FragmentOrder
  <1>9. FragmentKind'
    BY <1>1, <1>4, <1>5, <1>6 DEF Inv, Responsible, FragmentKind
  <1>10. Responsible'
    BY <1>2, <1>3, <1>4, <1>6, <1>7, <1>8, <1>9, CompletedKept DEF Inv
  <1>11. SameIrps /\ ReadingAhead' = ReadingAhead
    BY <1>1, <1>4 DEF SameIrps, ReadingAhead
  <1>12. QED
    BY <1>4, <1>10, <1>11, RestKept DEF Inv

(* A counted read-ahead starts or ends *)
LEMMA AheadMoves ==
    ASSUME TypeOK, CountIsOutstanding, SameIrps,
           queue'.OutstandingIoCount = queue.OutstandingIoCount + (Ahead' - Ahead)
    PROVE  CountIsOutstanding'
  <1>1. \A i \in Irps : Counted(i)' = Counted(i)
    BY DEF SameIrps, Counted
  <1>2. CountedIrps' = CountedIrps
    BY <1>1 DEF CountedIrps
  <1>3. IsFiniteSet(CountedIrps) /\ Cardinality(CountedIrps) \in Nat /\ queue.OutstandingIoCount \in Int
    BY QueueAssumption, FS_Subset, FS_CardinalityType DEF CountedIrps, TypeOK, QueueRecords
  <1>4. /\ queue.OutstandingIoCount = Cardinality(CountedIrps) + Ahead
        /\ CountIsOutstanding' <=> queue'.OutstandingIoCount = Cardinality(CountedIrps') + Ahead'
    BY DEF CountIsOutstanding, CountedIrps, Ahead
  <1>5. Ahead \in Int /\ Ahead' \in Int
    BY DEF Ahead
  <1>6. QED
    BY <1>2, <1>3, <1>4, <1>5

LEMMA IoReadQueueKept ==
    ASSUME TypeOK, Inv, IoReadQueue
    PROVE  Inv'
  <1> DEFINE r == io.req
  <1>1. /\ UNCHANGED <<irp, buffer, main, comp, worker, hold, stop>>
        /\ io.pc = "readDone" /\ r \in Requests
    BY DEF IoReadQueue, TypeOK, IoOK
  <1>2. list'.main = list.main /\ list'.io = list.io /\ list'.comp = Append(list.comp, r) /\ list.comp \in Seq(Requests)
    BY DEF IoReadQueue, TypeOK, ListRecords
  <1>3. \/ io'.pc = "readAhead" /\ queue' = [queue EXCEPT !.OutstandingIoCount = @ + 1]
        \/ io'.pc = "drain" /\ queue' = queue
    BY DEF IoReadQueue, TypeOK, IoOK, IoRecords
  <1>4. IoHas = {r} /\ IoHas' = {}
    BY <1>1, <1>3 DEF IoHas
  <1>5. irp[r.irp].op.kind = "read"
    BY <1>1 DEF Inv, Responsible, FragmentKind
  <1> HIDE DEF r
  <1>6. CompHas' = CompHas /\ Of(list.io)' = Of(list.io) /\ Of(list.comp)' = Of(list.comp) \cup {r}
    BY <1>1, <1>2, OfAppend DEF CompHas
  <1>7. Fragments' = Fragments /\ r \in Fragments
    BY <1>4, <1>6 DEF Fragments
  <1>8. FragmentOrder'
    <2>1. Precedes(Of(list.comp), {r})
      BY <1>4 DEF Precedes, Inv, Responsible, FragmentOrder
    <2>2. Ordered(list.comp)' /\ Ordered(list.io)'
      BY <1>1, <1>2, <2>1, OrderedAppend DEF Inv, Responsible, FragmentOrder
    <2>3. Precedes(IoHas', Of(list.io)')
      BY <1>4 DEF Precedes
    <2>4. Precedes(Of(list.comp)', IoHas' \cup Of(list.io)')
      BY <1>4, <1>6 DEF Precedes, Inv, Responsible, FragmentOrder
    <2>5. Precedes(CompHas', Of(list.comp)' \cup IoHas' \cup Of(list.io)')
      BY <1>4, <1>6 DEF Precedes, Inv, Responsible, FragmentOrder
    <2>6. QED
      BY <2>2, <2>3, <2>4, <2>5 DEF FragmentOrder
  <1>9. SameIrps
    BY <1>1 DEF SameIrps
  <1>10. Responsible'
    <2>1. \A q \in (Of(list.comp) \cup CompHas)' : irp[q.irp].op.kind = "read"
      BY <1>5, <1>6 DEF Inv, Responsible, FragmentKind
    <2>2. comp'.pc = "complete" => comp'.req.last
      BY <1>1 DEF Inv, Responsible, FragmentKind
    <2>3. QED
      BY <1>1, <1>2, <1>3, <1>7, <1>8, <1>9, <2>1, <2>2, MovedKept DEF Inv
  <1>11. CountIsOutstanding'
    <2>1. queue'.OutstandingIoCount = queue.OutstandingIoCount + (Ahead' - Ahead)
      BY <1>1, <1>3 DEF Ahead, TypeOK, QueueRecords
    <2>2. QED
      BY <1>9, <2>1, AheadMoves DEF Inv
  <1>12. /\ queue'.Suspended = queue.Suspended /\ queue'.QueueResumedEvent = queue.QueueResumedEvent
         /\ queue'.StopPending = queue.StopPending /\ queue'.ThreadExitRequested = queue.ThreadExitRequested
    BY <1>3 DEF TypeOK, QueueRecords
  <1>13. r.irp \in Irps /\ irp[r.irp].stage = "active"
    BY <1>7, FragmentTypes DEF Inv, Responsible, NoFragmentOutlivesIrp
  <1>14. HoldInv' /\ StopInv'
    BY <1>1, <1>12, <1>13 DEF Inv, HoldInv, StopInv, Held
  <1>15. QED
    BY <1>10, <1>11, <1>14 DEF Inv

LEMMA IoReadAheadKept ==
    ASSUME TypeOK, Inv, IoReadAhead \/ IoReadAheadDone
    PROVE  Inv'
  <1>1. /\ UNCHANGED <<irp, list, main, comp, worker, hold, stop>> /\ ReadingAhead
        /\ io.pc \notin IoBusy /\ io'.pc \notin IoBusy
    <2>1. UNCHANGED <<irp, list, main, comp, worker, hold, stop>> /\ io.pc \in {"readAhead", "readAheadDone"}
      BY Zenon DEF IoReadAhead, IoReadAheadDone
    <2>2. IoReadAhead => io' = [pc |-> "readAheadDone", req |-> NoRequest]
      BY Zenon DEF IoReadAhead
    <2>3. IoReadAheadDone => io'.pc \in {"signal", "drain"}
      BY DEF IoReadAheadDone, TypeOK, IoOK, IoRecords
    <2>4. io'.pc \in {"readAheadDone", "signal", "drain"}
      BY <2>2, <2>3
    <2>5. QED
      BY <2>1, <2>4 DEF ReadingAhead, IoBusy
  <1>2. SameIrps /\ SameWorkers /\ ListsKept /\ MainKept /\ IoKept /\ CompKept
    BY <1>1 DEF SameIrps, SameWorkers, ListsKept, MainKept, IoKept, CompKept, Waits, Whole, Cutting
  <1>3. Responsible'
    BY <1>2, ResponsibleKept DEF Inv
  <1>4. CountIsOutstanding'
    <2>1. CASE IoReadAhead
      <3>1. queue' = queue /\ io.pc = "readAhead" /\ io'.pc = "readAheadDone"
        <4>1. queue' = queue /\ io.pc = "readAhead" /\ io' = [pc |-> "readAheadDone", req |-> NoRequest]
          BY <2>1, Zenon DEF IoReadAhead
        <4>2. QED
          BY <4>1
      <3>2. QED
        BY <1>2, <3>1, CountKept DEF Inv
    <2>2. CASE IoReadAheadDone
      <3>1. queue' = [queue EXCEPT !.OutstandingIoCount = @ - 1] /\ io.pc = "readAheadDone" /\ io'.pc \in {"signal", "drain"}
        BY <2>2 DEF IoReadAheadDone, DecrementOutstandingIoCount, TypeOK, IoOK, IoRecords
      <3>2. queue'.OutstandingIoCount = queue.OutstandingIoCount + (Ahead' - Ahead)
        BY <3>1 DEF Ahead, TypeOK, QueueRecords
      <3>3. QED
        BY <1>2, <3>2, AheadMoves DEF Inv
    <2>3. QED
      BY <2>1, <2>2
  <1>5. /\ queue'.Suspended = queue.Suspended /\ queue'.QueueResumedEvent = queue.QueueResumedEvent
        /\ queue'.StopPending = queue.StopPending /\ queue'.ThreadExitRequested = queue.ThreadExitRequested
    <2>1. queue' = queue \/ queue' = [queue EXCEPT !.OutstandingIoCount = @ - 1]
      BY Zenon DEF IoReadAhead, IoReadAheadDone, DecrementOutstandingIoCount
    <2>2. QED
      BY <2>1 DEF TypeOK, QueueRecords
  <1>6. HoldInv' /\ StopInv'
    BY <1>1, <1>5 DEF Inv, HoldInv, StopInv, Held, ReadingAhead
  <1>7. QED
    BY <1>3, <1>4, <1>6 DEF Inv

LEMMA IoKeeps ==
    ASSUME TypeOK, Inv, IoThreadProc
    PROVE  Inv'
  BY IoStaysKept, IoDequeueKept, IoTransferKept, IoReadQueueKept, IoReadAheadKept, IoCompleteKept
     DEF IoThreadProc, IoStays

LEMMA CompDecryptKept ==
    ASSUME TypeOK, Inv, CompDecrypt
    PROVE  Inv'
  <1> DEFINE r == Head(list.comp)
  <1>1. /\ UNCHANGED <<queue, buffer, main, io, worker, hold, stop>>
        /\ list.comp # <<>> /\ comp.pc = "drain"
        /\ list' = [list EXCEPT !.comp = Tail(@)]
        /\ comp' = [pc |-> IF r.last THEN "complete" ELSE "release", req |-> r]
    BY Zenon DEF CompDecrypt
  <1>2. \E d : irp' = [irp EXCEPT ![r.irp].data = d]
    BY DEF CompDecrypt
  <1>3. list'.main = list.main /\ list'.io = list.io /\ list'.comp = Tail(list.comp) /\ list.comp \in Seq(Requests)
    BY <1>1 DEF TypeOK, ListRecords
  <1>4. r \in Requests
    BY <1>1, <1>3
  <1> HIDE DEF r
  <1>5. Of(list.comp) = Of(list.comp)' \cup {r}
    BY <1>1, <1>3, OfTail DEF r
  <1>6. SameIrps
    <2>1. PICK d : irp' = [irp EXCEPT ![r.irp].data = d]
      BY <1>2
    <2>2. r.irp \in Irps /\ irp \in [Irps -> IrpRecords]
      BY <1>4 DEF Requests, TypeOK
    <2>3. QED
      BY <2>1, <2>2 DEF SameIrps, IrpRecords
  <1>7. CompHas = {} /\ CompHas' = (IF r.last THEN {r} ELSE {}) /\ (comp'.pc = "complete" => comp'.req.last)
    BY <1>1 DEF CompHas
  <1>8. IoHas' = IoHas /\ Of(list.io)' = Of(list.io)
    BY <1>1, <1>3 DEF IoHas
  <1>9. Fragments' \subseteq Fragments
    BY <1>5, <1>7, <1>8 DEF Fragments
  <1>10. FragmentOrder'
    <2>1. Ordered(list.comp)' /\ Ordered(list.io)' /\ Precedes({r}, Of(list.comp)')
      BY <1>1, <1>3, OrderedTail DEF Inv, Responsible, FragmentOrder, r
    <2>2. Precedes(IoHas', Of(list.io)')
      BY <1>8 DEF Inv, Responsible, FragmentOrder
    <2>3. Precedes(Of(list.comp)', IoHas' \cup Of(list.io)')
      BY <1>5, <1>8 DEF Precedes, Inv, Responsible, FragmentOrder
    <2>4. Precedes({r}, IoHas' \cup Of(list.io)')
      BY <1>5, <1>8 DEF Precedes, Inv, Responsible, FragmentOrder
    <2>5. Precedes(CompHas', Of(list.comp)' \cup IoHas' \cup Of(list.io)')
      BY <1>7, <2>1, <2>4 DEF Precedes
    <2>6. QED
      BY <2>1, <2>2, <2>3, <2>5 DEF FragmentOrder
  <1>11. Responsible'
    <2>1. \A q \in (Of(list.comp) \cup CompHas)' : irp[q.irp].op.kind = "read"
      BY <1>5, <1>7 DEF Inv, Responsible, FragmentKind
    <2>2. io'.pc \in {"readDone", "complete"} => io'.req \in Fragments
      BY <1>1 DEF Fragments, IoHas
    <2>3. /\ io'.pc = "readDone" => irp[io'.req.irp].op.kind = "read"
          /\ io'.pc = "complete" => io'.req.last /\ irp[io'.req.irp].op.kind # "read"
      BY <1>1 DEF Inv, Responsible, FragmentKind
    <2>4. QED
      BY <1>1, <1>3, <1>6, <1>7, <1>9, <1>10, <2>1, <2>2, <2>3, MovedKept DEF Inv
  <1>12. ReadingAhead' = ReadingAhead
    BY <1>1 DEF ReadingAhead
  <1>13. QED
    BY <1>1, <1>6, <1>11, <1>12, RestKept DEF Inv

LEMMA CompCompleteKept ==
    ASSUME TypeOK, Inv, CompComplete
    PROVE  Inv'
  <1> DEFINE r == comp.req
  <1>1. comp.pc = "complete" /\ comp'.pc = "release"
    BY DEF CompComplete, TypeOK, CompOK, CompRecords
  <1>2. CompHas = {r} /\ CompHas' = {} /\ r \in Fragments
    BY <1>1 DEF CompHas, Fragments
  <1>3. r.last
    BY <1>1 DEF Inv, Responsible, FragmentKind
  <1>4. /\ worker' = [worker EXCEPT ![r.irp] = "start"]
        /\ UNCHANGED <<irp, queue, list, buffer, main, io, hold, stop>>
    BY DEF CompComplete, QueueIrpCompletion
  <1> HIDE DEF r
  <1>5. IoHas' = IoHas /\ Of(list.io)' = Of(list.io) /\ Of(list.comp)' = Of(list.comp)
    BY <1>4 DEF IoHas
  <1>6. Fragments' = Of(list.io) \cup Of(list.comp) \cup IoHas /\ Fragments' \subseteq Fragments
    BY <1>2, <1>5 DEF Fragments
  <1>7. \A q \in Fragments' : q.irp # r.irp
    BY <1>2, <1>3, <1>6 DEF Inv, Responsible, FragmentOrder, Precedes
  <1>8. FragmentOrder'
    <2>1. Precedes(CompHas', Of(list.comp)' \cup IoHas' \cup Of(list.io)')
      BY <1>2 DEF Precedes
    <2>2. QED
      BY <1>4, <1>5, <2>1 DEF Inv, Responsible, FragmentOrder
  <1>9. FragmentKind'
    BY <1>1, <1>2, <1>4, <1>5, <1>6 DEF Inv, Responsible, FragmentKind
  <1>10. Responsible'
    BY <1>2, <1>3, <1>4, <1>6, <1>7, <1>8, <1>9, CompletedKept DEF Inv
  <1>11. SameIrps /\ ReadingAhead' = ReadingAhead
    BY <1>4 DEF SameIrps, ReadingAhead
  <1>12. QED
    BY <1>4, <1>10, <1>11, RestKept DEF Inv

LEMMA CompKeeps ==
    ASSUME TypeOK, Inv, CompletionThreadProc
    PROVE  Inv'
  BY CompStaysKept, CompDecryptKept, CompCompleteKept DEF CompletionThreadProc

----------------------------------------------------------------------------
(* Steps of the threads that hold and stop the queue *)

LEMMA CallerStaysKept ==
    ASSUME TypeOK, Inv, UNCHANGED <<irp, main, io, comp, worker>>, ListsKept,
           queue'.OutstandingIoCount = queue.OutstandingIoCount
    PROVE  Responsible' /\ CountIsOutstanding'
  <1>1. SameIrps /\ SameWorkers /\ MainKept /\ IoKept /\ CompKept
    BY DEF SameIrps, SameWorkers, MainKept, IoKept, CompKept, Waits, Whole, Cutting
  <1>2. QED
    BY <1>1, ResponsibleKept, CountKept DEF Inv

(* A hold is granted after the counter was found to be zero with the queue suspended *)
LEMMA HoldGrantKept ==
    ASSUME TypeOK, Inv, HoldGrant
    PROVE  HoldInv'
  <1>1. /\ hold.pc = "verify" /\ queue.OutstandingIoCount = 0 /\ UNCHANGED <<irp, io>>
        /\ queue' = [queue EXCEPT !.SuspendPending = FALSE]
        /\ buffer' = [buffer EXCEPT !.aheadValid = FALSE, !.ahead = <<>>]
    BY DEF HoldGrant, Grant, HoldStep
  <1>2. queue.Suspended /\ ~queue.QueueResumedEvent
    BY <1>1 DEF Inv, HoldInv
  <1>3. queue'.Suspended /\ ~queue'.QueueResumedEvent /\ ~buffer'.aheadValid
    BY <1>1, <1>2 DEF TypeOK, QueueRecords, BufferRecords
  <1>4. (\A i \in Irps : ~Counted(i)) /\ io.pc \notin {"readAhead", "readAheadDone"}
    BY <1>1, CountZero DEF Inv
  <1>5. \A i \in Irps : irp[i].stage # "active"
    BY <1>4 DEF Counted
  <1>6. QED
    BY <1>1, <1>3, <1>4, <1>5 DEF HoldInv

LEMMA HoldStepsKept ==
    ASSUME TypeOK, Inv, EncryptedIoQueueHoldWhenIdle \/ EncryptedIoQueueResumeFromHold
    PROVE  HoldInv'
  <1> USE DEF HoldStep
  <1>1. CASE HoldBegin \/ HoldCheck \/ HoldWait \/ HoldFail \/ HoldRecheck \/ HoldUndo \/ EncryptedIoQueueResumeFromHold
    <2>1. hold'.pc \in {"check", "wait", "clear", "recheck", "idle"}
      BY <1>1 DEF HoldBegin, HoldCheck, HoldWait, HoldFail, HoldRecheck, HoldUndo,
                  EncryptedIoQueueResumeFromHold, TypeOK, HoldOK, HoldRecords
    <2>2. QED
      BY <2>1 DEF HoldInv, Held
  <1>2. CASE HoldClear
    <2>1. hold'.pc = "suspend" /\ ~queue'.QueueResumedEvent
      BY <1>2 DEF HoldClear, TypeOK, HoldOK, HoldRecords, QueueRecords
    <2>2. QED
      BY <2>1 DEF HoldInv, Held
  <1>3. CASE HoldSuspend
    <2>1. hold.pc = "suspend" /\ hold'.pc = "verify" /\ queue'.Suspended /\ queue'.QueueResumedEvent = queue.QueueResumedEvent
      BY <1>3 DEF HoldSuspend, TypeOK, HoldOK, HoldRecords, QueueRecords
    <2>2. QED
      BY <2>1 DEF Inv, HoldInv, Held
  <1>4. QED
    BY <1>1, <1>2, <1>3, HoldGrantKept DEF EncryptedIoQueueHoldWhenIdle

LEMMA CallerKept ==
    ASSUME TypeOK, Inv, Caller
    PROVE  Inv'
  <1>1. CASE EncryptedIoQueueHoldWhenIdle \/ EncryptedIoQueueResumeFromHold
    <2> USE DEF EncryptedIoQueueHoldWhenIdle, HoldBegin, HoldCheck, HoldWait, HoldFail, HoldRecheck, HoldClear,
                HoldSuspend, HoldGrant, Grant, HoldUndo, EncryptedIoQueueResumeFromHold
    <2>1. UNCHANGED <<irp, list, main, io, comp, worker, stop>>
      BY <1>1
    <2>2. /\ queue'.OutstandingIoCount = queue.OutstandingIoCount
          /\ queue'.StopPending = queue.StopPending /\ queue'.ThreadExitRequested = queue.ThreadExitRequested
      BY <1>1 DEF TypeOK, QueueRecords
    <2>3. Responsible' /\ CountIsOutstanding'
      BY <2>1, <2>2, CallerStaysKept DEF ListsKept
    <2>4. StopInv'
      BY <2>1, <2>2, StopKept DEF Inv
    <2>5. QED
      BY <1>1, <2>3, <2>4, HoldStepsKept DEF Inv
  <1>2. CASE HeldRead \/ HeldWrite
    <2>1. UNCHANGED <<irp, queue, list, buffer, main, io, comp, worker, stop>>
      BY <1>2 DEF HeldRead, HeldWrite
    <2>2. Held /\ hold'.pc \in {"encrypting", "decrypting", "moved"}
      BY <1>2 DEF HeldRead, HeldWrite, Held, TypeOK, HoldOK, HoldRecords
    <2>3. Responsible' /\ CountIsOutstanding'
      BY <2>1, CallerStaysKept DEF ListsKept
    <2>4. HoldInv'
      BY <2>1, <2>2 DEF Inv, HoldInv, Held
    <2>5. StopInv'
      BY <2>1, StopKept DEF Inv
    <2>6. QED
      BY <2>3, <2>4, <2>5 DEF Inv
  <1>3. QED
    BY <1>1, <1>2 DEF Caller

LEMMA StopStepsKept ==
    ASSUME TypeOK, Inv, EncryptedIoQueueStop
    PROVE  Inv'
  <1> USE DEF EncryptedIoQueueStop, StopBegin, StopWait, StopThreads, StopFree, StopStep
  <1>1. UNCHANGED <<irp, buffer, main, io, comp, worker>>
    OBVIOUS
  <1>1a. hold'.pc = hold.pc
    BY DEF TypeOK, HoldOK, HoldRecords
  <1>2. ListsKept
    BY DEF ListsKept, TypeOK, ListRecords
  <1>3. /\ queue'.OutstandingIoCount = queue.OutstandingIoCount /\ queue'.Suspended = queue.Suspended
        /\ queue'.QueueResumedEvent = queue.QueueResumedEvent
    BY DEF TypeOK, QueueRecords
  <1>4. Responsible' /\ CountIsOutstanding'
    BY <1>1, <1>2, <1>3, CallerStaysKept
  <1>5. HoldInv'
    BY <1>1, <1>1a, <1>3, HoldKept DEF Inv, ReadingAhead
  <1>6. StopInv'
    <2>1. queue'.StopPending
      BY DEF Inv, StopInv, TypeOK, QueueRecords
    <2>2. CASE queue'.ThreadExitRequested = queue.ThreadExitRequested
      BY <1>1, <2>1, <2>2 DEF Inv, StopInv
    <2>3. CASE queue'.ThreadExitRequested # queue.ThreadExitRequested
      <3>1. queue.OutstandingIoCount = 0
        BY <2>3 DEF TypeOK, QueueRecords
      <3>2. \A i \in Irps : irp[i].stage \notin {"queued", "active"}
        BY <3>1, CountZero DEF Inv, Counted
      <3>3. QED
        BY <1>1, <2>1, <3>2 DEF StopInv
    <2>4. QED
      BY <2>2, <2>3
  <1>7. QED
    BY <1>4, <1>5, <1>6 DEF Inv

----------------------------------------------------------------------------
(* The theorems *)

LEMMA InitInv == Init => Inv
  <1> SUFFICES ASSUME Init PROVE Inv
    OBVIOUS
  <1>1. /\ list.main = <<>> /\ list.io = <<>> /\ list.comp = <<>>
        /\ main.pc = "wait" /\ io.pc = "wait" /\ comp.pc = "wait" /\ hold.pc = "idle" /\ stop = "running"
        /\ queue.OutstandingIoCount = 0 /\ ~queue.ThreadExitRequested
    BY DEF Init
  <1>2. \A i \in Irps : irp[i].stage = "unissued" /\ worker[i] = "none"
    BY DEF Init, Unissued
  <1>3. Of(list.main) = {} /\ Of(list.io) = {} /\ Of(list.comp) = {} /\ IoHas = {} /\ CompHas = {}
    BY <1>1 DEF Of, IoHas, CompHas
  <1>4. Fragments = {}
    BY <1>3 DEF Fragments
  <1>5. NoFragmentOutlivesIrp /\ FragmentOrder /\ FragmentKind
    BY <1>1, <1>3, <1>4 DEF NoFragmentOutlivesIrp, FragmentOrder, FragmentKind, Ordered, Precedes
  <1>6. MainQueueOK /\ MainHasIrp /\ WorkerOK
    BY <1>1, <1>2 DEF MainQueueOK, MainHasIrp, WorkerOK, Waits, Whole, Cutting
  <1>7. CountIsOutstanding
    <2>1. {i \in Irps : Counted(i)} = {}
      BY <1>2 DEF Counted
    <2>2. Cardinality({}) = 0
      BY FS_EmptySet
    <2>3. io.pc \notin {"readAhead", "readAheadDone"}
      BY <1>1
    <2>4. Cardinality({i \in Irps : Counted(i)}) = 0
      BY <2>1, <2>2
    <2>5. QED
      BY <1>1, <2>3, <2>4 DEF CountIsOutstanding
  <1>8. HoldInv /\ StopInv
    BY <1>1 DEF HoldInv, StopInv, Held
  <1>9. QED
    BY <1>5, <1>6, <1>7, <1>8 DEF Inv, Responsible

LEMMA InvStep == TypeOK /\ Inv /\ [Next]_vars => Inv'
  <1> SUFFICES ASSUME TypeOK, Inv, [Next]_vars PROVE Inv'
    OBVIOUS
  <1>1. CASE Next
    BY <1>1, AddIrpKept, WorkKept, WorkStaysKept, MainKeeps, IoKeeps, CompKeeps, CallerKept, StopStepsKept
       DEF Next, CompleteIrpWorkItemRoutine
  <1>2. CASE UNCHANGED vars
    BY <1>2, StutterKept
  <1>3. QED
    BY <1>1, <1>2

LEMMA Invariant == Spec => []Inv
  BY InitInv, InvStep, TypeCorrect, PTL DEF Spec

(* Where no IRP is admitted there is no fragment on a list or in a thread *)
LEMMA NothingAdmitted ==
    ASSUME TypeOK, Inv, \A i \in Irps : irp[i].stage # "active"
    PROVE  list.io = <<>> /\ list.comp = <<>> /\ io.pc \notin IoBusy /\ comp.pc # "complete"
  <1>1. Fragments = {}
    BY FragmentTypes DEF Inv, Responsible, NoFragmentOutlivesIrp
  <1>2. Of(list.io) = {} /\ Of(list.comp) = {} /\ IoHas = {} /\ CompHas = {}
    BY <1>1 DEF Fragments
  <1>3. list.io \in Seq(Requests) /\ list.comp \in Seq(Requests)
    BY ListFields
  <1>4. list.io = <<>> /\ list.comp = <<>>
    BY <1>2, <1>3, OfMembers
  <1>5. QED
    BY <1>2, <1>4 DEF IoHas, CompHas, IoBusy

(* EncryptedIoQueue's OutstandingIoCount is exact at every step, for any    *)
(* number of IRPs: no path through AddIrp, the three threads, the           *)
(* completion work items and the read-ahead counts twice or forgets         *)
THEOREM CounterExact == Spec => []CountIsOutstanding
  <1>1. Inv => CountIsOutstanding
    BY DEF Inv
  <1>2. QED
    BY <1>1, Invariant, PTL

(* An EncryptedIoQueueItem is never used by a thread after the work item    *)
(* that completes its IRP has been queued, and is completed once            *)
THEOREM FragmentsWithinIrp == Spec => []NoFragmentOutlivesIrp
  <1>1. Inv => NoFragmentOutlivesIrp
    BY DEF Inv, Responsible
  <1>2. QED
    BY <1>1, Invariant, PTL

(* Between EncryptedIoQueueHoldWhenIdle's success and                       *)
(* EncryptedIoQueueResumeFromHold nothing else uses the device, whichever   *)
(* IRPs arrive while the queue is being suspended                           *)
THEOREM HoldIsExclusive == Spec => []HoldExclusive
  <1>1. TypeOK /\ Inv => HoldExclusive
    <2> SUFFICES ASSUME TypeOK, Inv, Held
                 PROVE  /\ \A i \in Irps : irp[i].stage # "active"
                        /\ list.io = <<>> /\ list.comp = <<>>
                        /\ io.pc \notin {"io", "readDone", "readAhead", "readAheadDone", "complete"}
                        /\ ~buffer.aheadValid
      BY Zenon DEF HoldExclusive
    <2>1. (\A i \in Irps : irp[i].stage # "active") /\ io.pc \notin {"readAhead", "readAheadDone"} /\ ~buffer.aheadValid
      BY DEF Inv, HoldInv
    <2>2. list.io = <<>> /\ list.comp = <<>> /\ io.pc \notin IoBusy
      BY <2>1, NothingAdmitted
    <2>3. QED
      BY <2>1, <2>2 DEF IoBusy
  <1>2. QED
    BY <1>1, Invariant, TypeCorrect, PTL

(* EncryptedIoQueueStop asks the threads to exit only when every IRP that   *)
(* was accepted has been answered, and none is accepted afterwards          *)
THEOREM StopIsDrained == Spec => []StopDrains
  <1>1. TypeOK /\ Inv => StopDrains
    <2> SUFFICES ASSUME TypeOK, Inv, queue.ThreadExitRequested
                 PROVE  /\ list.main = <<>> /\ list.io = <<>> /\ list.comp = <<>>
                        /\ \A i \in Irps : irp[i].stage \notin {"queued", "active"}
      BY Zenon DEF StopDrains
    <2>1. \A i \in Irps : irp[i].stage \notin {"queued", "active"}
      BY DEF Inv, StopInv
    <2>2. list.io = <<>> /\ list.comp = <<>>
      BY <2>1, NothingAdmitted
    <2>3. list.main = <<>>
      <3>1. list.main \in Seq(Irps)
        BY ListFields
      <3>2. list.main # <<>> => 1 \in DOMAIN list.main /\ list.main[1] \in Irps
        BY <3>1
      <3>3. QED
        BY <2>1, <3>2 DEF Inv, Responsible, MainQueueOK
    <2>4. QED
      BY <2>1, <2>2, <2>3
  <1>2. QED
    BY <1>1, Invariant, TypeCorrect, PTL

----------------------------------------------------------------------------
(* What no step of the system changes of an IRP that has been issued *)

Fixed(i) ==
    /\ irp'[i].stage # "unissued" /\ irp'[i].op = irp[i].op
    /\ irp[i].status # "ok" => irp'[i].status # "ok"

LEMMA AddIrpEffect ==
    ASSUME TypeOK, NEW j \in Irps, AddIrp(j), NEW i \in Irps
    PROVE  \/ irp'[i] = irp[i]
           \/ /\ irp[i].stage \in {"unissued", "counted", "refusing"}
              /\ irp'[i].stage \in {"counted", "queued", "refusing", "rejected"}
              /\ irp[i].stage # "unissued" => Fixed(i)
  <1>0. irp \in [Irps -> IrpRecords]
    BY DEF TypeOK
  <1>1. CASE i # j
    BY <1>0, <1>1 DEF AddIrp, AddIrpCount, AddIrpEnqueue, AddIrpRefuse, AddIrpRefuseSignal
  <1>2. CASE i = j /\ AddIrpCount(i)
    BY <1>2, AddIrpSteps
  <1>3. CASE i = j /\ AddIrpEnqueue(i)
    BY <1>0, <1>3 DEF AddIrpEnqueue, Fixed, IrpRecords
  <1>4. CASE i = j /\ AddIrpRefuse(i)
    <2>1. PICK x \in {"refusing", "rejected"} : irp' = [irp EXCEPT ![i] = [irp[i] EXCEPT !.stage = x, !.status = "failed"]]
      BY <1>4 DEF AddIrpRefuse
    <2>2. irp'[i].stage = x /\ irp'[i].status = "failed" /\ irp'[i].op = irp[i].op
      BY <1>0, <2>1 DEF IrpRecords
    <2>3. irp[i].stage = "counted"
      BY <1>4 DEF AddIrpRefuse
    <2>4. QED
      BY <2>2, <2>3 DEF Fixed
  <1>5. CASE i = j /\ AddIrpRefuseSignal(i)
    BY <1>0, <1>5 DEF AddIrpRefuseSignal, Fixed, IrpRecords
  <1>6. QED
    BY <1>1, <1>2, <1>3, <1>4, <1>5 DEF AddIrp

LEMMA WorkEffect ==
    ASSUME TypeOK, Inv, NEW j \in Irps, CompleteIrpWorkItemRoutine(j), NEW i \in Irps
    PROVE  \/ irp'[i] = irp[i]
           \/ /\ irp[i].stage \in {"active", "uncounted", "completed"}
              /\ irp'[i].stage \in {"uncounted", "completed"}
              /\ Fixed(i)
  <1>0. irp \in [Irps -> IrpRecords]
    BY DEF TypeOK
  <1>1. CASE WorkSignal(j) \/ WorkLeave(j) \/ WorkReturn(j)
    BY <1>1 DEF WorkSignal, WorkLeave, WorkReturn
  <1>2. CASE WorkCount(j) \/ WorkCompleteIrp(j)
    <2>1. irp[j].stage \in {"active", "uncounted", "completed"}
      BY <1>2 DEF WorkCount, WorkCompleteIrp, Inv, Responsible, WorkerOK
    <2>2. PICK x \in {"uncounted", "completed"} : irp' = [irp EXCEPT ![j].stage = x]
      BY <1>2 DEF WorkCount, WorkCompleteIrp
    <2>3. QED
      BY <1>0, <2>1, <2>2 DEF Fixed, IrpRecords
  <1>3. QED
    BY <1>1, <1>2 DEF CompleteIrpWorkItemRoutine

LEMMA TransferEffect ==
    ASSUME TypeOK, IoFlush \/ IoWrite \/ IoRead \/ CompDecrypt, NEW i \in Irps
    PROVE  /\ irp'[i].stage = irp[i].stage /\ irp'[i].op = irp[i].op
           /\ irp[i].status # "ok" => irp'[i].status # "ok"
  <1>0. irp \in [Irps -> IrpRecords]
    BY DEF TypeOK
  <1>1. CASE irp'[i] = irp[i]
    BY <1>1
  <1>2. CASE IoFlush
    <2>1. PICK done \in Outcomes(io.req.irp) :
            irp' = [irp EXCEPT ![io.req.irp].status = IF @ = "ok" /\ (IsFilterDevice \/ ~done) THEN "failed" ELSE @]
      BY <1>2 DEF IoFlush
    <2>2. QED
      BY <1>0, <2>1 DEF IrpRecords
  <1>3. CASE IoWrite \/ IoRead
    <2>1. irp'[i].stage = irp[i].stage /\ irp'[i].op = irp[i].op
      BY <1>3, TransferSameIrps DEF SameIrps
    <2>2. CASE irp[io.req.irp].status # "ok"
      BY <1>1, <1>3, <2>2 DEF IoWrite, DeviceWrite, IoRead, DeviceRead
    <2>3. CASE IoWrite /\ irp[io.req.irp].status = "ok"
      <3>1. PICK done \in [Pieces(io.req) -> Outcomes(io.req.irp)], W \in SUBSET Extent(io.req) :
              irp' = [irp EXCEPT ![io.req.irp].todo = @ \ W, ![io.req.irp].status = StatusOf(io.req, done)]
        BY <2>3 DEF IoWrite, DeviceWrite
      <3>2. i # io.req.irp => irp'[i] = irp[i]
        BY <1>0, <3>1
      <3>3. QED
        BY <2>1, <2>3, <3>2
    <2>4. CASE IoRead /\ irp[io.req.irp].status = "ok"
      <3>1. PICK done \in [Pieces(io.req) -> Outcomes(io.req.irp)] :
              irp' = IF StatusOf(io.req, done) # "ok"
                     THEN [irp EXCEPT ![io.req.irp].status = "failed"]
                     ELSE [irp EXCEPT ![io.req.irp].todo = @ \ Transferred(io.req, done),
                                      ![io.req.irp].data = [s \in Sectors |->
                                         IF s \notin Extent(io.req) THEN @[s]
                                         ELSE IF s \notin Transferred(io.req, done) THEN Garbage
                                         ELSE CachedCell(Piece(io.req, CHOOSE k \in Pieces(io.req) : s \in PieceSectors(io.req, k)), s)]]
        BY <2>4 DEF IoRead, DeviceRead
      <3>2. i # io.req.irp => irp'[i] = irp[i]
        BY <1>0, <3>1
      <3>3. QED
        BY <2>1, <2>4, <3>2
    <2>5. QED
      BY <1>3, <2>2, <2>3, <2>4
  <1>4. CASE CompDecrypt
    <2>1. \E d : irp' = [irp EXCEPT ![Head(list.comp).irp].data = d]
      BY <1>4 DEF CompDecrypt
    <2>2. PICK d : irp' = [irp EXCEPT ![Head(list.comp).irp].data = d]
      BY <2>1
    <2>3. QED
      BY <1>0, <2>2 DEF IrpRecords
  <1>5. QED
    BY <1>2, <1>3, <1>4

LEMMA DecisionEffect ==
    ASSUME TypeOK, MainReject \/ MainDeny \/ MainMisaligned, NEW i \in Irps
    PROVE  /\ irp'[i].stage = irp[i].stage /\ irp'[i].op = irp[i].op
           /\ irp[i].status # "ok" => irp'[i].status # "ok"
  <1>0. irp \in [Irps -> IrpRecords]
    BY DEF TypeOK
  <1>1. CASE MainReject \/ MainDeny
    <2>1. PICK status \in {"cancelled", "invalid", "failed", "protected"} : irp' = [irp EXCEPT ![main.irp].status = status]
      BY <1>1 DEF MainReject, MainDeny, MainFinish
    <2>2. QED
      BY <1>0, <2>1 DEF IrpRecords
  <1>2. CASE MainMisaligned
    <2>1. \E d : irp' = [irp EXCEPT ![main.irp].todo = {}, ![main.irp].data = d]
      BY <1>2 DEF MainMisaligned
    <2>2. PICK d : irp' = [irp EXCEPT ![main.irp].todo = {}, ![main.irp].data = d]
      BY <2>1
    <2>3. QED
      BY <1>0, <2>2 DEF IrpRecords
  <1>3. QED
    BY <1>1, <1>2

(* The steps that do nothing to an IRP *)
Decides == MainReject \/ MainDeny \/ MainMisaligned
Admits == MainSuspendCheck \/ MainResumed
TransfersData == IoFlush \/ IoWrite \/ IoRead \/ CompDecrypt

LEMMA OthersKeepIrps ==
    ASSUME [Next]_vars, ~(\E j \in Irps : AddIrp(j) \/ CompleteIrpWorkItemRoutine(j)), ~Decides, ~Admits, ~TransfersData
    PROVE  UNCHANGED irp
  BY DEF Next, Decides, Admits, TransfersData,
         MainThreadProc, MainWait, MainIdle, MainDequeue, MainGetItem, MainPoolEmpty, MainPoolWait,
         MainFlush, MainComplete, MainFragment, MainGetRequest, MainAcquire, FillAndQueue,
         IoThreadProc, IoWait, IoIdle, IoDequeue, IoReadQueue, IoReadAhead, IoReadAheadDone,
         IoSignal, IoComplete, IoRelease,
         CompletionThreadProc, CompWait, CompIdle, CompComplete, CompRelease,
         Caller, EncryptedIoQueueHoldWhenIdle, HoldBegin, HoldCheck, HoldWait, HoldFail, HoldRecheck,
         HoldClear, HoldSuspend, HoldGrant, Grant, HoldUndo, HeldRead, HeldWrite, EncryptedIoQueueResumeFromHold,
         EncryptedIoQueueStop, StopBegin, StopWait, StopThreads, StopFree, vars

(* The operation of an IRP never changes, and a failure is never forgotten *)
LEMMA IssuedFixed ==
    ASSUME TypeOK, Inv, [Next]_vars, NEW i \in Irps, irp[i].stage # "unissued"
    PROVE  Fixed(i)
  <1>1. CASE irp'[i] = irp[i]
    BY <1>1 DEF Fixed
  <1>2. CASE \E j \in Irps : AddIrp(j) \/ CompleteIrpWorkItemRoutine(j)
    BY <1>1, <1>2, AddIrpEffect, WorkEffect
  <1>3. CASE Decides \/ TransfersData
    BY <1>3, DecisionEffect, TransferEffect DEF Decides, TransfersData, Fixed
  <1>4. CASE Admits
    <2>1. irp' = irp \/ irp' = [irp EXCEPT ![main.irp].stage = "active"]
      BY <1>4 DEF Admits, MainSuspendCheck, MainResumed, Admit
    <2>2. QED
      BY <2>1 DEF Fixed, TypeOK, IrpRecords
  <1>5. QED
    BY <1>1, <1>2, <1>3, <1>4, OthersKeepIrps

(* The I/O thread's request until its fragment buffer is released *)
IoIn == IF io.pc = "io" THEN {io.req} ELSE {}

LEMMA WaitingFixed ==
    ASSUME TypeOK, Inv, [Next]_vars, NEW r \in Of(list.io) \cup IoIn
    PROVE  r \in Requests /\ r.irp \in Irps /\ Fixed(r.irp)
  <1>1. r \in Fragments
    BY DEF Fragments, IoIn, IoHas
  <1>2. r \in Requests /\ r.irp \in Irps /\ irp[r.irp].stage = "active"
    BY <1>1, FragmentTypes DEF Inv, Responsible, NoFragmentOutlivesIrp
  <1>3. QED
    BY <1>2, IssuedFixed

----------------------------------------------------------------------------
(* Fragment buffers.  Among the requests s on the list of the I/O thread   *)
(* and those it has taken, no two have the same fragment buffer, and a     *)
(* buffer is free if and only if none of them has it                       *)

Owned(s, taken, free) ==
    /\ \A j, k \in DOMAIN s : s[j].buf = s[k].buf /\ s[j].buf \in FragmentBuffers => j = k
    /\ \A r \in taken : \A k \in DOMAIN s : s[k].buf = r.buf => r.buf \notin FragmentBuffers
    /\ \A b \in FragmentBuffers :
          free[b] <=> (\A k \in DOMAIN s : s[k].buf # b) /\ (\A r \in taken : r.buf # b)

LEMMA OwnedAppend ==
    ASSUME NEW s \in Seq(Requests), NEW r \in Requests, NEW taken, NEW free \in [FragmentBuffers -> BOOLEAN],
           Owned(s, taken, free), r.buf \in FragmentBuffers => free[r.buf]
    PROVE  Owned(Append(s, r), taken, [free EXCEPT ![r.buf] = FALSE])
  <1> DEFINE t == Append(s, r)
             after == [free EXCEPT ![r.buf] = FALSE]
             n == Len(s) + 1
  <1>1. DOMAIN t = DOMAIN s \cup {n} /\ n \notin DOMAIN s
    OBVIOUS
  <1>2. (\A k \in DOMAIN s : t[k] = s[k]) /\ t[n] = r
    OBVIOUS
  <1>3. \A b \in FragmentBuffers : after[b] = IF b = r.buf THEN FALSE ELSE free[b]
    OBVIOUS
  <1>4. r.buf \in FragmentBuffers => (\A k \in DOMAIN s : s[k].buf # r.buf) /\ (\A x \in taken : x.buf # r.buf)
    BY Zenon DEF Owned
  <1> HIDE DEF t, after, n
  <1>5. \A j, k \in DOMAIN t : t[j].buf = t[k].buf /\ t[j].buf \in FragmentBuffers => j = k
    BY <1>1, <1>2, <1>4 DEF Owned
  <1>6. \A x \in taken : \A k \in DOMAIN t : t[k].buf = x.buf => x.buf \notin FragmentBuffers
    BY <1>1, <1>2, <1>4 DEF Owned
  <1>7. \A b \in FragmentBuffers :
           after[b] <=> (\A k \in DOMAIN t : t[k].buf # b) /\ (\A x \in taken : x.buf # b)
    <2> SUFFICES ASSUME NEW b \in FragmentBuffers
                 PROVE  after[b] <=> (\A k \in DOMAIN t : t[k].buf # b) /\ (\A x \in taken : x.buf # b)
      OBVIOUS
    <2>1. CASE b = r.buf
      BY <1>1, <1>2, <1>3, <2>1
    <2>2. CASE b # r.buf
      <3>1. (\A k \in DOMAIN t : t[k].buf # b) <=> (\A k \in DOMAIN s : s[k].buf # b)
        BY <1>1, <1>2, <2>2
      <3>2. after[b] = free[b]
        BY <1>3, <2>2
      <3>3. QED
        BY <3>1, <3>2, Zenon DEF Owned
    <2>3. QED
      BY <2>1, <2>2
  <1>8. QED
    BY <1>5, <1>6, <1>7, Zenon DEF Owned, t, after

LEMMA OwnedTail ==
    ASSUME NEW s \in Seq(Requests), s # <<>>, NEW free, Owned(s, {}, free)
    PROVE  Owned(Tail(s), {Head(s)}, free)
  <1> DEFINE t == Tail(s)
             h == Head(s)
  <1>1. \A k \in DOMAIN t : k \in Int /\ k + 1 \in DOMAIN s /\ k + 1 # 1 /\ t[k] = s[k + 1]
    OBVIOUS
  <1>2. \A k \in DOMAIN s : k = 1 \/ (k - 1 \in DOMAIN t /\ t[k - 1] = s[k])
    OBVIOUS
  <1>3. h = s[1] /\ 1 \in DOMAIN s
    OBVIOUS
  <1> HIDE DEF t, h
  <1>4. ASSUME NEW j \in DOMAIN t, NEW k \in DOMAIN t, t[j].buf = t[k].buf, t[j].buf \in FragmentBuffers
        PROVE  j = k
    <2>1. j + 1 = k + 1
      BY SMTT(30), <1>1, <1>4 DEF Owned
    <2>2. QED
      BY <1>1, <2>1
  <1>5. ASSUME NEW k \in DOMAIN t, t[k].buf = h.buf
        PROVE  h.buf \notin FragmentBuffers
    <2>1. k + 1 \in DOMAIN s /\ k + 1 # 1 /\ s[k + 1].buf = s[1].buf
      BY <1>1, <1>3, <1>5
    <2>2. QED
      BY <1>3, <2>1, Zenon DEF Owned
  <1>6. ASSUME NEW b \in FragmentBuffers
        PROVE  free[b] <=> (\A k \in DOMAIN t : t[k].buf # b) /\ h.buf # b
    <2>1. (\A k \in DOMAIN s : s[k].buf # b) <=> (\A k \in DOMAIN t : t[k].buf # b) /\ h.buf # b
      BY ZenonT(60), <1>1, <1>2, <1>3
    <2>2. QED
      BY <2>1 DEF Owned
  <1>7. QED
    BY <1>4, <1>5, <1>6 DEF Owned, t, h

LEMMA OwnedRelease ==
    ASSUME NEW s \in Seq(Requests), NEW r \in Requests, NEW free \in [FragmentBuffers -> BOOLEAN],
           Owned(s, {r}, free)
    PROVE  Owned(s, {}, [free EXCEPT ![r.buf] = TRUE])
  <1>1. \A b \in FragmentBuffers : [free EXCEPT ![r.buf] = TRUE][b] = IF b = r.buf THEN TRUE ELSE free[b]
    OBVIOUS
  <1>2. QED
    BY <1>1 DEF Owned

(* What a step leaves alone that does not queue, take or transfer a request *)
BuffersKept ==
    /\ list'.io = list.io /\ IoIn' = IoIn /\ buffer'.free = buffer.free
    /\ main'.pc = "acquire" => main.pc = "acquire" /\ main'.req = main.req

MovesBuffer == MainGetRequest \/ MainAcquire \/ IoDequeue \/ IoFlush \/ IoWrite \/ IoRead

LEMMA OthersKeepBuffers ==
    ASSUME TypeOK, [Next]_vars, ~MovesBuffer
    PROVE  BuffersKept
  <1>0. /\ list \in ListRecords /\ main \in MainRecords /\ io \in IoRecords
        /\ buffer \in BufferRecords
    BY DEF TypeOK, MainOK, IoOK
  <1>1. CASE \E i \in Irps : AddIrp(i)
    BY <1>0, <1>1 DEF BuffersKept, IoIn, ListRecords, AddIrp, AddIrpCount, AddIrpEnqueue, AddIrpRefuse, AddIrpRefuseSignal
  <1>2. CASE \E i \in Irps : CompleteIrpWorkItemRoutine(i)
    BY <1>2 DEF BuffersKept, IoIn, CompleteIrpWorkItemRoutine, WorkCount, WorkSignal, WorkCompleteIrp, WorkLeave, WorkReturn
  <1>3. CASE MainThreadProc
    <2>1. UNCHANGED <<io, buffer>>
      BY <1>3 DEF MovesBuffer,
            MainThreadProc, MainWait, MainIdle, MainDequeue, MainSuspendCheck, MainResumed, MainGetItem,
            MainPoolEmpty, MainPoolWait, MainReject, MainDeny, MainMisaligned, MainFlush, MainComplete, MainFragment
    <2>2. list'.io = list.io
      <3>1. CASE MainWait \/ MainDequeue \/ MainFlush \/ MainFragment
        BY <1>0, <3>1 DEF ListRecords, MainWait, MainDequeue, MainFlush, MainFragment
      <3>2. CASE ~(MainWait \/ MainDequeue \/ MainFlush \/ MainFragment)
        <4>1. UNCHANGED list
          BY <1>3, <3>2 DEF MovesBuffer,
              MainThreadProc, MainIdle, MainSuspendCheck, MainResumed, MainGetItem,
              MainPoolEmpty, MainPoolWait, MainReject, MainDeny, MainMisaligned, MainComplete
        <4>2. QED
          BY <4>1
      <3>3. QED
        BY <3>1, <3>2
    <2>3. main'.pc # "acquire"
      <3>1. CASE MainWait \/ MainIdle \/ MainDequeue \/ MainGetItem \/ MainPoolEmpty \/ MainPoolWait
        BY <1>0, <3>1 DEF MainRecords, MainWait, MainIdle, MainDequeue, MainGetItem, MainPoolEmpty, MainPoolWait
      <3>2. CASE MainSuspendCheck \/ MainResumed
        BY <1>0, <3>2 DEF MainRecords, MainSuspendCheck, MainResumed, Admit
      <3>3. CASE MainReject \/ MainDeny
        <4>1. main' = [main EXCEPT !.pc = "complete"]
          BY <3>3, Zenon DEF MainReject, MainDeny, MainFinish
        <4>2. QED
          BY <1>0, <4>1 DEF MainRecords
      <3>4. CASE MainMisaligned \/ MainFlush \/ MainComplete \/ MainFragment
        BY <1>0, <3>4 DEF MainRecords, MainMisaligned, MainFlush, MainComplete, MainFragment
      <3>5. QED
        BY <1>3, <3>1, <3>2, <3>3, <3>4 DEF MainThreadProc, MovesBuffer
    <2>4. QED
      BY <2>1, <2>2, <2>3 DEF BuffersKept, IoIn
  <1>4. CASE IoThreadProc
    <2>1. UNCHANGED main /\ io.pc # "io"
      BY <1>4 DEF MovesBuffer,
            IoThreadProc, IoWait, IoIdle, IoReadQueue, IoReadAhead, IoReadAheadDone, IoSignal, IoComplete, IoRelease
    <2>2. io'.pc # "io"
      <3>1. CASE IoReadAhead \/ IoRelease
        <4>1. \/ io' = [pc |-> "readAheadDone", req |-> NoRequest]
              \/ io' = [pc |-> "drain", req |-> NoRequest]
          BY <3>1, Zenon DEF IoReadAhead, IoRelease
        <4>2. QED
          BY <4>1
      <3>2. CASE IoReadQueue
        BY <1>0, <3>2 DEF IoRecords, IoReadQueue
      <3>3. CASE IoWait \/ IoIdle
        BY <1>0, <3>3 DEF IoRecords, IoWait, IoIdle
      <3>4. CASE IoReadAheadDone \/ IoSignal \/ IoComplete
        BY <1>0, <3>4 DEF IoRecords, IoReadAheadDone, IoSignal, IoComplete
      <3>5. QED
        BY <1>4, <3>1, <3>2, <3>3, <3>4 DEF MovesBuffer, IoThreadProc
    <2>3. list'.io = list.io
      BY <1>0, <1>4 DEF MovesBuffer, ListRecords,
            IoThreadProc, IoWait, IoIdle, IoReadQueue, IoReadAhead, IoReadAheadDone, IoSignal, IoComplete, IoRelease
    <2>4. buffer'.free = buffer.free
      <3>1. CASE IoReadAhead
        BY <1>0, <3>1 DEF IoReadAhead, BufferRecords
      <3>2. CASE ~IoReadAhead
        BY <1>4, <3>2 DEF MovesBuffer, IoThreadProc, IoWait, IoIdle, IoReadQueue, IoReadAheadDone, IoSignal, IoComplete, IoRelease
      <3>3. QED
        BY <3>1, <3>2
    <2>5. QED
      BY <2>1, <2>2, <2>3, <2>4 DEF BuffersKept, IoIn
  <1>5. CASE CompletionThreadProc
    BY <1>0, <1>5 DEF BuffersKept, IoIn, ListRecords, CompletionThreadProc, CompWait, CompIdle, CompDecrypt, CompComplete,
                      CompRelease
  <1>6. CASE Caller
    BY <1>0, <1>6 DEF BuffersKept, IoIn, BufferRecords, Caller, EncryptedIoQueueHoldWhenIdle, HoldBegin, HoldCheck, HoldWait,
                      HoldFail, HoldRecheck, HoldClear, HoldSuspend, HoldGrant, Grant, HoldUndo, HeldRead, HeldWrite,
                      EncryptedIoQueueResumeFromHold
  <1>7. CASE EncryptedIoQueueStop
    BY <1>0, <1>7 DEF BuffersKept, IoIn, ListRecords, EncryptedIoQueueStop, StopBegin, StopWait, StopThreads, StopFree
  <1>8. CASE UNCHANGED vars
    BY <1>8 DEF BuffersKept, IoIn, vars
  <1>9. QED
    BY <1>1, <1>2, <1>3, <1>4, <1>5, <1>6, <1>7, <1>8 DEF Next

(* A flush has no fragment buffer, and the main thread acquires one for all else *)
BufferInv ==
    /\ Owned(list.io, IoIn, buffer.free)
    /\ \A r \in Of(list.io) \cup IoIn : irp[r.irp].op.kind = "flush" => r.buf \notin FragmentBuffers
    /\ main.pc = "acquire" => main.req.buf \in FragmentBuffers

LEMMA InitBuffers == Init => BufferInv
  <1> SUFFICES ASSUME Init PROVE BufferInv
    OBVIOUS
  <1>1. list.io = <<>> /\ IoIn = {} /\ Of(list.io) = {} /\ main.pc = "wait"
    BY DEF Init, IoIn, Of
  <1>2. \A b \in FragmentBuffers : buffer.free[b] = TRUE
    BY DEF Init
  <1>3. Owned(list.io, IoIn, buffer.free)
    BY <1>1, <1>2 DEF Owned
  <1>4. QED
    BY <1>1, <1>3 DEF BufferInv

LEMMA EnqueueBuffer ==
    ASSUME TypeOK, Inv, BufferInv, [Next]_vars, NEW r \in Requests,
           r.buf \in FragmentBuffers => buffer.free[r.buf],
           irp[r.irp].op.kind = "flush" => r.buf \notin FragmentBuffers,
           r.irp \in Irps, irp[r.irp].stage # "unissued",
           list'.io = Append(list.io, r), buffer'.free = [buffer.free EXCEPT ![r.buf] = FALSE],
           IoIn' = IoIn, main'.pc # "acquire"
    PROVE  BufferInv'
  <1>1. list.io \in Seq(Requests) /\ buffer.free \in [FragmentBuffers -> BOOLEAN]
    BY DEF TypeOK, ListRecords, BufferRecords
  <1>2. Owned(Append(list.io, r), IoIn, [buffer.free EXCEPT ![r.buf] = FALSE])
    BY <1>1, OwnedAppend DEF BufferInv
  <1>3. Of(list.io)' = Of(list.io) \cup {r}
    BY <1>1, OfAppend
  <1>4. \A x \in Of(list.io) \cup IoIn \cup {r} : irp'[x.irp].op = irp[x.irp].op
    BY WaitingFixed, IssuedFixed DEF Fixed
  <1>5. \A x \in (Of(list.io) \cup IoIn)' : irp'[x.irp].op.kind = "flush" => x.buf \notin FragmentBuffers
    BY <1>3, <1>4 DEF BufferInv
  <1>6. QED
    BY <1>2, <1>5 DEF BufferInv

LEMMA GetRequestBuffer ==
    ASSUME TypeOK, Inv, BufferInv, [Next]_vars, MainGetRequest
    PROVE  BufferInv'
  <1>1. main.pc = "getRequest" /\ UNCHANGED <<irp, buffer, io>> /\ IoIn' = IoIn
    BY DEF MainGetRequest, IoIn
  <1>2. main \in MainRecords /\ main.irp \in Irps /\ irp[main.irp].stage = "active"
    BY <1>1, WaitsForIrp DEF TypeOK, MainOK, Cutting, Inv, Responsible, MainHasIrp
  <1>3. CASE irp[main.irp].op.kind = "flush"
    <2> DEFINE r == FlushRequest(main.irp)
    <2>1. r \in Requests /\ r.irp = main.irp /\ r.buf = "none" /\ r.buf \notin FragmentBuffers
      BY <1>2 DEF FlushRequest, Requests, Buffers, FragmentBuffers
    <2>2. list'.io = Append(list.io, r) /\ main'.pc = "drain"
      BY <1>2, <1>3 DEF MainGetRequest, EnqueueIo, TypeOK, ListRecords, MainRecords
    <2>3. buffer.free \in [FragmentBuffers -> BOOLEAN]
      BY DEF TypeOK, BufferRecords
    <2>4. buffer'.free = [buffer.free EXCEPT ![r.buf] = FALSE]
      BY <1>1, <2>1, <2>3
    <2> HIDE DEF r
    <2>5. QED
      BY <1>1, <1>2, <2>1, <2>2, <2>4, EnqueueBuffer
  <1>4. CASE irp[main.irp].op.kind # "flush"
    <2>1. list' = list /\ main'.req = NextRequest
      BY <1>2, <1>4 DEF MainGetRequest, MainRecords
    <2>2. main'.req.buf \in FragmentBuffers
      BY <1>2, <2>1 DEF NextRequest, MainRecords
    <2>3. QED
      BY <1>1, <2>1, <2>2 DEF BufferInv
  <1>5. QED
    BY <1>3, <1>4

LEMMA AcquireBuffer ==
    ASSUME TypeOK, Inv, BufferInv, [Next]_vars, MainAcquire
    PROVE  BufferInv'
  <1>1. main.pc = "acquire" /\ buffer.free[main.req.buf] /\ UNCHANGED <<irp, io>> /\ IoIn' = IoIn
    BY DEF MainAcquire, FillAndQueue, IoIn
  <1>2. main \in MainRecords /\ main.irp \in Irps /\ irp[main.irp].stage = "active" /\ main.req \in Requests
    BY <1>1, WaitsForIrp DEF TypeOK, MainOK, Cutting, Inv, Responsible, MainHasIrp
  <1>3. main.req.irp = main.irp /\ irp[main.irp].op.kind # "flush"
    BY <1>1 DEF Inv, Responsible, MainHasIrp
  <1>4. list'.io = Append(list.io, main.req) /\ main'.pc # "acquire"
    BY <1>2 DEF MainAcquire, FillAndQueue, EnqueueIo, TypeOK, ListRecords, MainRecords
  <1>5. buffer'.free = [buffer.free EXCEPT ![main.req.buf] = FALSE]
    BY DEF MainAcquire, FillAndQueue, TypeOK, BufferRecords
  <1>6. QED
    BY <1>1, <1>2, <1>3, <1>4, <1>5, EnqueueBuffer

LEMMA DequeueBuffer ==
    ASSUME TypeOK, Inv, BufferInv, [Next]_vars, IoDequeue
    PROVE  BufferInv'
  <1>1. io.pc = "drain" /\ list.io # <<>> /\ list.io \in Seq(Requests) /\ UNCHANGED <<irp, buffer, main>>
    BY DEF IoDequeue, TypeOK, ListRecords
  <1>2. list'.io = Tail(list.io) /\ io'.pc = "io" /\ io'.req = Head(list.io)
    BY DEF IoDequeue, TypeOK, ListRecords
  <1>3. IoIn = {} /\ IoIn' = {Head(list.io)}
    BY <1>1, <1>2 DEF IoIn
  <1>4. Owned(Tail(list.io), {Head(list.io)}, buffer.free)
    BY <1>1, <1>3, OwnedTail DEF BufferInv
  <1>5. (Of(list.io) \cup IoIn)' = Of(list.io)
    BY <1>1, <1>2, <1>3, OfTail
  <1>6. QED
    BY <1>1, <1>2, <1>3, <1>4, <1>5 DEF BufferInv

LEMMA TransferBuffer ==
    ASSUME TypeOK, Inv, BufferInv, [Next]_vars, IoFlush \/ IoWrite \/ IoRead
    PROVE  BufferInv'
  <1>1. io.pc = "io" /\ list' = list /\ main' = main /\ io.req \in Requests /\ IoIn = {io.req}
    BY DEF IoFlush, IoWrite, IoRead, TypeOK, IoOK, IoIn
  <1>2. IoIn' = {}
    BY DEF IoFlush, IoWrite, IoRead, TypeOK, IoOK, IoRecords, IoIn
  <1>3. list.io \in Seq(Requests) /\ buffer.free \in [FragmentBuffers -> BOOLEAN]
    BY DEF TypeOK, ListRecords, BufferRecords
  <1>4. Owned(list.io, {}, [buffer.free EXCEPT ![io.req.buf] = TRUE])
    BY <1>1, <1>3, OwnedRelease DEF BufferInv
  <1>5. buffer'.free = [buffer.free EXCEPT ![io.req.buf] = TRUE]
    <2>1. CASE IoFlush
      <3>1. buffer' = buffer /\ irp[io.req.irp].op.kind = "flush"
        BY <2>1 DEF IoFlush
      <3>2. io.req.buf \notin FragmentBuffers
        BY <1>1, <3>1 DEF BufferInv
      <3>3. QED
        BY <1>3, <3>1, <3>2
    <2>2. CASE IoWrite \/ IoRead
      BY <2>2 DEF IoWrite, IoRead, ReleaseFragment, TypeOK, BufferRecords
    <2>3. QED
      BY <2>1, <2>2
  <1>6. \A r \in Of(list.io) : irp'[r.irp].op = irp[r.irp].op
    BY WaitingFixed DEF Fixed
  <1>7. QED
    BY <1>1, <1>2, <1>4, <1>5, <1>6 DEF BufferInv

LEMMA BufferStep == TypeOK /\ Inv /\ BufferInv /\ [Next]_vars => BufferInv'
  <1> SUFFICES ASSUME TypeOK, Inv, BufferInv, [Next]_vars PROVE BufferInv'
    OBVIOUS
  <1>1. CASE MovesBuffer
    BY <1>1, GetRequestBuffer, AcquireBuffer, DequeueBuffer, TransferBuffer DEF MovesBuffer
  <1>2. CASE ~MovesBuffer
    <2>1. BuffersKept
      BY <1>2, OthersKeepBuffers
    <2>2. \A r \in Of(list.io) \cup IoIn : irp'[r.irp].op = irp[r.irp].op
      BY WaitingFixed DEF Fixed
    <2>3. QED
      BY <2>1, <2>2 DEF BufferInv, BuffersKept, Of
  <1>3. QED
    BY <1>1, <1>2

(* The fragment buffer of a request, from AcquireFragmentBuffer until       *)
(* ReleaseFragmentBuffer, is that request's alone, and the event the main   *)
(* thread waits for is set exactly when no request has the buffer           *)
THEOREM BufferHasOneOwner == Spec => []FragmentOwnership
  <1>1. TypeOK /\ BufferInv => FragmentOwnership
    <2> SUFFICES ASSUME TypeOK, BufferInv, NEW b \in FragmentBuffers
                 PROVE  Cardinality(Owners(b)) <= 1 /\ (buffer.free[b] <=> Owners(b) = {})
      BY Zenon DEF FragmentOwnership
    <2> DEFINE queued == {k \in DOMAIN list.io : list.io[k].buf = b}
               taken == {0 : x \in {y \in {io} : y.pc = "io" /\ y.req.buf = b}}
    <2>1. Owners(b) = queued \cup taken
      BY DEF Owners
    <2>2. taken # {} => IoIn = {io.req} /\ io.req.buf = b
      BY DEF IoIn
    <2>3. taken = {} => \A r \in IoIn : r.buf # b
      BY DEF IoIn
    <2>4. buffer.free[b] <=> queued = {} /\ taken = {}
      BY <2>2, <2>3 DEF BufferInv, Owned
    <2>5. \A j, k \in queued : j = k
      BY Zenon DEF BufferInv, Owned
    <2>6. taken # {} => queued = {}
      <3> SUFFICES ASSUME taken # {}, NEW k \in DOMAIN list.io PROVE list.io[k].buf # b
        OBVIOUS
      <3>1. io.req \in IoIn /\ io.req.buf = b
        BY <2>2
      <3>2. QED
        BY <3>1, Zenon DEF BufferInv, Owned
    <2>7. \A x \in taken : x = 0
      OBVIOUS
    <2> HIDE DEF queued, taken
    <2>8. \A j, k \in Owners(b) : j = k
      BY <2>1, <2>5, <2>6, <2>7
    <2>9. Owners(b) = {} \/ \E k : Owners(b) = {k}
      BY <2>8
    <2>10. Cardinality(Owners(b)) <= 1
      <3>1. Cardinality({}) = 0 /\ \A k : Cardinality({k}) = 1
        BY FS_EmptySet, FS_Singleton
      <3>2. QED
        BY <2>9, <3>1
    <2>11. QED
      BY <2>1, <2>4, <2>10
  <1>2. Spec => []BufferInv
    BY InitBuffers, BufferStep, TypeCorrect, Invariant, PTL DEF Spec
  <1>3. QED
    BY <1>1, <1>2, TypeCorrect, PTL

----------------------------------------------------------------------------
(* Sectors that must not be written.  A write is denied before it is cut   *)
(* into fragments, so the fragments of a write that is not denied avoid    *)
(* these sectors, and so does every device operation, remapped or not      *)

Forbidden == ProtectedArea \cup SecRegion
Avoids(r) == irp[r.irp].op.kind = "write" => Extent(r) \cap Forbidden = {}
FragmentsAvoid == \A r \in Of(list.io) \cup IoIn : Avoids(r)
MainAvoids ==
    /\ main.pc = "acquire" => Avoids(main.req)
    /\ Cutting /\ irp[main.irp].op.kind = "write" =>
          LET op == irp[main.irp].op
          IN op.off <= main.off /\ (op.off .. (op.off + op.len - 1)) \cap Forbidden = {}

(* The thread that holds the queue writes a block back with the writer it had *)
HolderAvoids ==
    /\ hold.pc \in {"encrypting", "decrypting"} => RemapOffset = 0
    /\ hold.pc = "encrypting" /\ NextBlock \in Forbidden => hold.cell.writer = "format"
    /\ hold.pc = "decrypting" /\ store.end \in Forbidden => hold.cell.writer = "format"

WriteInv == FragmentsAvoid /\ MainAvoids /\ HolderAvoids /\ ProtectedIntact

LEMMA InitWrites == Init => WriteInv
  <1> SUFFICES ASSUME Init PROVE WriteInv
    OBVIOUS
  <1> USE QueueAssumption
  <1>1. Of(list.io) = {} /\ IoIn = {} /\ main.pc = "wait" /\ hold.pc = "idle"
    BY DEF Init, IoIn, Of
  <1>2. \A p \in PhysicalSectors : store.disk[p].writer = "format"
    BY DEF Init, Cell
  <1>3. \A s \in Forbidden : Location(s) \in PhysicalSectors
    BY DEF Forbidden, Location, PhysicalSectors, Sectors
  <1>4. ProtectedIntact
    BY <1>2, <1>3 DEF ProtectedIntact, Forbidden
  <1>5. QED
    BY <1>1, <1>4 DEF WriteInv, FragmentsAvoid, MainAvoids, HolderAvoids, Cutting

(* Requests reach the I/O thread from the main thread's hands only *)
LEMMA QueuedFrom ==
    ASSUME TypeOK, Inv, [Next]_vars, NEW r \in (Of(list.io) \cup IoIn)'
    PROVE  r \in Of(list.io) \cup IoIn \/ (MainAcquire /\ r = main.req) \/ (MainGetRequest /\ irp[r.irp].op.kind = "flush")
  <1>0. list.io \in Seq(Requests) /\ io \in IoRecords
    BY DEF TypeOK, ListRecords, IoOK
  <1>1. CASE ~MovesBuffer
    BY <1>1, OthersKeepBuffers DEF BuffersKept, Of
  <1>2. CASE MainGetRequest
    <2>1. IoIn' = IoIn /\ main.irp \in Irps
      BY <1>2, WaitsForIrp DEF MainGetRequest, IoIn, Cutting
    <2>2. CASE list'.io = list.io
      BY <2>1, <2>2 DEF Of
    <2>3. CASE list'.io # list.io
      <3>1. irp[main.irp].op.kind = "flush" /\ list'.io = Append(list.io, FlushRequest(main.irp))
        BY <1>2, <2>3 DEF MainGetRequest, EnqueueIo, TypeOK, ListRecords
      <3>2. FlushRequest(main.irp) \in Requests /\ FlushRequest(main.irp).irp = main.irp
        BY <2>1 DEF FlushRequest, Requests, Buffers
      <3>3. Of(list.io)' = Of(list.io) \cup {FlushRequest(main.irp)}
        BY <1>0, <3>1, <3>2, OfAppend
      <3>4. QED
        BY <1>2, <2>1, <3>1, <3>2, <3>3
    <2>4. QED
      BY <2>2, <2>3
  <1>3. CASE MainAcquire
    <2>1. IoIn' = IoIn /\ main.req \in Requests
      BY <1>3 DEF MainAcquire, FillAndQueue, IoIn, TypeOK, MainOK
    <2>2. list'.io = Append(list.io, main.req)
      BY <1>3 DEF MainAcquire, FillAndQueue, EnqueueIo, TypeOK, ListRecords
    <2>3. Of(list.io)' = Of(list.io) \cup {main.req}
      BY <1>0, <2>1, <2>2, OfAppend
    <2>4. QED
      BY <1>3, <2>1, <2>3
  <1>4. CASE IoDequeue
    <2>1. list'.io = Tail(list.io) /\ io'.pc = "io" /\ io'.req = Head(list.io) /\ list.io # <<>>
      BY <1>4 DEF IoDequeue, TypeOK, ListRecords
    <2>2. (Of(list.io) \cup IoIn)' = Of(list.io)
      BY <1>0, <2>1, OfTail DEF IoIn
    <2>3. QED
      BY <2>2
  <1>5. CASE IoFlush \/ IoWrite \/ IoRead
    <2>1. IoIn' = {} /\ list' = list
      BY <1>0, <1>5 DEF IoFlush, IoWrite, IoRead, IoRecords, IoIn
    <2>2. QED
      BY <2>1 DEF Of
  <1>6. QED
    BY <1>1, <1>2, <1>3, <1>4, <1>5 DEF MovesBuffer

LEMMA FragmentsAvoidStep ==
    ASSUME TypeOK, Inv, WriteInv, [Next]_vars
    PROVE  FragmentsAvoid'
  <1> SUFFICES ASSUME NEW r \in (Of(list.io) \cup IoIn)' PROVE Avoids(r)'
    BY DEF FragmentsAvoid
  <1>1. CASE r \in Of(list.io) \cup IoIn
    <2>1. irp'[r.irp].op = irp[r.irp].op
      BY <1>1, WaitingFixed DEF Fixed
    <2>2. QED
      BY <1>1, <2>1 DEF WriteInv, FragmentsAvoid, Avoids, Extent
  <1>2. CASE MainAcquire /\ r = main.req
    BY <1>2 DEF MainAcquire, FillAndQueue, WriteInv, MainAvoids, Avoids, Extent
  <1>3. CASE MainGetRequest /\ irp[r.irp].op.kind = "flush"
    BY <1>3 DEF MainGetRequest, Avoids
  <1>4. QED
    BY <1>1, <1>2, <1>3, QueuedFrom

MainCuts == MainFlush \/ MainFragment \/ MainGetRequest \/ MainAcquire

LEMMA OnlyMain ==
    ASSUME [Next]_vars, ~MainThreadProc
    PROVE  UNCHANGED main
  BY DEF Next, AddIrp, AddIrpCount, AddIrpEnqueue, AddIrpRefuse, AddIrpRefuseSignal,
         CompleteIrpWorkItemRoutine, WorkCount, WorkSignal, WorkCompleteIrp, WorkLeave, WorkReturn,
         IoThreadProc, IoWait, IoIdle, IoDequeue, IoFlush, IoWrite, IoRead, IoReadQueue, IoReadAhead,
         IoReadAheadDone, IoSignal, IoComplete, IoRelease,
         CompletionThreadProc, CompWait, CompIdle, CompDecrypt, CompComplete, CompRelease,
         Caller, EncryptedIoQueueHoldWhenIdle, HoldBegin, HoldCheck, HoldWait, HoldFail, HoldRecheck,
         HoldClear, HoldSuspend, HoldGrant, Grant, HoldUndo, HeldRead, HeldWrite, EncryptedIoQueueResumeFromHold,
         EncryptedIoQueueStop, StopBegin, StopWait, StopThreads, StopFree, vars

LEMMA OthersDoNotCut ==
    ASSUME TypeOK, [Next]_vars, ~MainCuts
    PROVE  /\ Cutting' => Cutting /\ main'.irp = main.irp /\ main'.off = main.off
           /\ main'.pc = "acquire" => main.pc = "acquire" /\ main'.req = main.req
  <1>1. CASE MainThreadProc
    BY <1>1 DEF TypeOK, MainOK, MainRecords, Cutting, MainCuts,
                MainThreadProc, MainWait, MainIdle, MainDequeue, MainSuspendCheck, MainResumed, Admit, MainGetItem,
                MainPoolEmpty, MainPoolWait, MainReject, MainDeny, MainFinish, MainMisaligned, MainComplete
  <1>2. CASE ~MainThreadProc
    <2>1. UNCHANGED main
      BY <1>2, OnlyMain
    <2>2. QED
      BY <2>1 DEF Cutting
  <1>3. QED
    BY <1>1, <1>2

(* What the main thread is cutting was admitted, and stays what it is *)
LEMMA MainIrpFixed ==
    ASSUME TypeOK, Inv, [Next]_vars, Whole \/ Cutting
    PROVE  main.irp \in Irps /\ irp[main.irp].op.off \in Nat /\ irp[main.irp].op.len \in Nat /\ Fixed(main.irp)
  <1>1. main.irp \in Irps /\ irp[main.irp].stage = "active"
    BY WaitsForIrp DEF Inv, Responsible, MainHasIrp
  <1>2. irp[main.irp].op \in Ops \cup {Unissued.op}
    BY <1>1 DEF TypeOK, IrpRecords
  <1>3. irp[main.irp].op.off \in Nat /\ irp[main.irp].op.len \in Nat
    BY <1>2, QueueAssumption DEF Unissued
  <1>4. QED
    BY <1>1, <1>3, IssuedFixed

LEMMA MainAvoidsStep ==
    ASSUME TypeOK, Inv, WriteInv, [Next]_vars
    PROVE  MainAvoids'
  <1>0. main \in MainRecords
    BY DEF TypeOK, MainOK
  <1>1. CASE ~MainCuts
    <2>1. CASE ~Cutting'
      BY <2>1 DEF MainAvoids, Cutting
    <2>2. CASE Cutting'
      <3>1. Cutting /\ main'.irp = main.irp /\ main'.off = main.off
        BY <1>1, <2>2, OthersDoNotCut
      <3>2. irp'[main.irp].op = irp[main.irp].op
        BY <3>1, MainIrpFixed DEF Fixed
      <3>3. main'.pc = "acquire" => main.pc = "acquire" /\ main'.req = main.req /\ main.req.irp = main.irp
        BY <1>1, OthersDoNotCut DEF Inv, Responsible, MainHasIrp
      <3>4. main'.pc = "acquire" => Avoids(main.req)'
        BY <3>2, <3>3 DEF WriteInv, MainAvoids, Avoids, Extent
      <3>5. QED
        BY <3>1, <3>2, <3>3, <3>4 DEF WriteInv, MainAvoids, Avoids
    <2>3. QED
      BY <2>1, <2>2
  <1>2. CASE MainCuts
    <2>1. irp' = irp /\ (Whole \/ Cutting)
      BY <1>2 DEF MainCuts, MainFlush, MainFragment, MainGetRequest, MainAcquire, FillAndQueue, Whole, Cutting
    <2> DEFINE op == irp[main.irp].op
    <2>2. main.irp \in Irps /\ op.off \in Nat /\ op.len \in Nat
      BY <2>1, MainIrpFixed
    <2>3. CASE MainFlush
      BY <1>0, <2>1, <2>3 DEF MainFlush, MainAvoids, MainRecords
    <2>4. CASE MainFragment
      <3>1. main'.irp = main.irp /\ main'.pc = "getRequest" /\ main'.off = IF main.pc = "dispatch" THEN op.off ELSE main.off
        BY <1>0, <2>4 DEF MainFragment, MainRecords
      <3>2. CASE main.pc = "dispatch"
        <4>1. op.kind = "write" => (op.off .. (op.off + op.len - 1)) \cap Forbidden = {}
          BY <2>4, <3>2 DEF MainFragment, Transfers, Denied, Forbidden
        <4>2. QED
          BY <2>1, <2>2, <3>1, <3>2, <4>1 DEF MainAvoids
      <3>3. CASE main.pc = "fragment"
        BY <2>1, <3>1, <3>3 DEF WriteInv, MainAvoids, Cutting
      <3>4. QED
        BY <2>4, <3>2, <3>3 DEF MainFragment
    <2>5. CASE MainGetRequest /\ op.kind = "flush"
      BY <1>0, <2>1, <2>5 DEF MainGetRequest, MainAvoids, Cutting, MainRecords
    <2>6. CASE MainGetRequest /\ op.kind # "flush"
      <3>1. main'.irp = main.irp /\ main'.off = main.off /\ main'.pc = "acquire" /\ main'.req = NextRequest
        BY <1>0, <2>6 DEF MainGetRequest, MainRecords
      <3>2. op.kind = "write" => op.off <= main.off /\ (op.off .. (op.off + op.len - 1)) \cap Forbidden = {}
        BY <2>6 DEF MainGetRequest, WriteInv, MainAvoids, Cutting
      <3>3. main.off \in Nat /\ FragmentSize \in Nat
        BY <1>0, QueueAssumption DEF MainRecords
      <3>4. NextRequest.irp = main.irp /\ NextRequest.off = main.off
            /\ NextRequest.len \in Int /\ NextRequest.len <= op.off + op.len - main.off
        BY <2>2, <3>3 DEF NextRequest
      <3>5. op.kind = "write" => Extent(NextRequest) \subseteq op.off .. (op.off + op.len - 1)
        BY <2>2, <3>2, <3>3, <3>4 DEF Extent, Sectors
      <3>6. QED
        BY <2>1, <3>1, <3>2, <3>4, <3>5 DEF MainAvoids, Avoids, Extent
    <2>7. CASE MainAcquire
      <3>1. main'.pc # "acquire" /\ (Cutting' => main'.irp = main.irp /\ main'.off = main.off + FragmentSize)
        BY <1>0, <2>7 DEF MainAcquire, FillAndQueue, MainRecords, Cutting
      <3>2. Cutting /\ main.off \in Nat /\ FragmentSize \in Nat
        BY <1>0, <2>7, QueueAssumption DEF MainAcquire, Cutting, MainRecords
      <3>3. op.kind = "write" => op.off <= main.off + FragmentSize
        BY <2>2, <3>2 DEF WriteInv, MainAvoids
      <3>4. QED
        BY <2>1, <3>1, <3>2, <3>3 DEF WriteInv, MainAvoids
    <2>8. QED
      BY <1>2, <2>3, <2>4, <2>5, <2>6, <2>7 DEF MainCuts
  <1>3. QED
    BY <1>1, <1>2

(* The steps that write to the disk, or move a block of it *)
TouchesDisk == IoWrite \/ HeldRead \/ HeldWrite

LEMMA OthersKeepDisk ==
    ASSUME TypeOK, [Next]_vars, ~TouchesDisk
    PROVE  /\ store'.disk = store.disk /\ store'.start = store.start /\ store'.end = store.end
           /\ hold'.pc \in {"encrypting", "decrypting"} => hold' = hold
  <1>0. store \in StoreRecords /\ hold \in HoldRecords
    BY DEF TypeOK, HoldOK
  <1>1. CASE Caller
    BY <1>0, <1>1 DEF TouchesDisk, HoldRecords, Caller, EncryptedIoQueueHoldWhenIdle, HoldStep, HoldBegin, HoldCheck,
                      HoldWait, HoldFail, HoldRecheck, HoldClear, HoldSuspend, HoldGrant, Grant, HoldUndo,
                      EncryptedIoQueueResumeFromHold
  <1>2. CASE ~Caller
    <2>1. UNCHANGED hold \/ (hold.pc = "idle" /\ hold' = [hold EXCEPT !.left = 0])
      BY <1>2 DEF Next, AddIrp, AddIrpCount, AddIrpEnqueue, AddIrpRefuse, AddIrpRefuseSignal,
                  CompleteIrpWorkItemRoutine, WorkCount, WorkSignal, WorkCompleteIrp, WorkLeave, WorkReturn,
                  MainThreadProc, MainWait, MainIdle, MainDequeue, MainSuspendCheck, MainResumed, MainGetItem,
                  MainPoolEmpty, MainPoolWait, MainReject, MainDeny, MainMisaligned, MainFlush, MainComplete,
                  MainFragment, MainGetRequest, MainAcquire, FillAndQueue,
                  IoThreadProc, IoWait, IoIdle, IoDequeue, IoFlush, IoWrite, IoRead, IoReadQueue, IoReadAhead,
                  IoReadAheadDone, IoSignal, IoComplete, IoRelease,
                  CompletionThreadProc, CompWait, CompIdle, CompDecrypt, CompComplete, CompRelease,
                  EncryptedIoQueueStop, StopBegin, StopWait, StopThreads, StopFree, vars
    <2>2. UNCHANGED store \/ \E x : store' = [store EXCEPT !.triggered = x]
      BY <1>2 DEF TouchesDisk, Next, AddIrp, AddIrpCount, AddIrpEnqueue, AddIrpRefuse, AddIrpRefuseSignal,
                  CompleteIrpWorkItemRoutine, WorkCount, WorkSignal, WorkCompleteIrp, WorkLeave, WorkReturn,
                  MainThreadProc, MainWait, MainIdle, MainDequeue, MainSuspendCheck, MainResumed, MainGetItem,
                  MainPoolEmpty, MainPoolWait, MainReject, MainDeny, MainMisaligned, MainFlush, MainComplete,
                  MainFragment, MainGetRequest, MainAcquire, FillAndQueue,
                  IoThreadProc, IoWait, IoIdle, IoDequeue, IoFlush, IoRead, IoReadQueue, IoReadAhead,
                  IoReadAheadDone, IoSignal, IoComplete, IoRelease,
                  CompletionThreadProc, CompWait, CompIdle, CompDecrypt, CompComplete, CompRelease,
                  EncryptedIoQueueStop, StopBegin, StopWait, StopThreads, StopFree, vars
    <2>3. QED
      BY <1>0, <2>1, <2>2 DEF StoreRecords, HoldRecords
  <1>3. QED
    BY <1>1, <1>2

(* Where a sector is on the disk, and where a request finds it.  The       *)
(* remapped area is beyond all that IRPs address.                          *)
LEMMA SectorsApart ==
    ASSUME NEW r \in Requests, NEW s \in Sectors, NEW t \in Sectors, s # t
    PROVE  DeviceSector(r, s) # Location(t)
  <1>1. DiskLength \in Nat /\ RemapOffset \in Nat /\ (RemapOffset > 0 => RemapOffset >= DiskLength)
    BY QueueAssumption
  <1>2. DeviceSector(r, s) \in {s, s + RemapOffset} /\ Location(t) \in {t, t + RemapOffset}
    BY DEF DeviceSector, Location
  <1>3. s \in Int /\ t \in Int /\ 0 <= s /\ 0 <= t /\ s < DiskLength /\ t < DiskLength
    BY <1>1 DEF Sectors
  <1>4. s + RemapOffset # t + RemapOffset /\ s # t + RemapOffset /\ s + RemapOffset # t
    BY <1>1, <1>3
  <1>5. QED
    BY <1>2, <1>4

LEMMA LocationOnDisk ==
    ASSUME NEW s \in Sectors
    PROVE  Location(s) \in PhysicalSectors
  BY QueueAssumption DEF Location, PhysicalSectors, Sectors

LEMMA LayersKeepWriter ==
    ASSUME NEW c \in Cells, NEW n
    PROVE  AddLayers(c, n).writer = c.writer
  BY DEF AddLayers, Garbage, Cell, Cells

LEMMA IoWriteAvoids ==
    ASSUME TypeOK, Inv, WriteInv, IoWrite
    PROVE  HolderAvoids' /\ ProtectedIntact'
  <1>1. io.req \in Requests /\ Extent(io.req) \cap Forbidden = {} /\ UNCHANGED hold
    BY DEF IoWrite, TypeOK, IoOK, WriteInv, FragmentsAvoid, Avoids, IoIn
  <1>2. store \in StoreRecords /\ Forbidden \subseteq Sectors
    BY QueueAssumption DEF TypeOK, Forbidden
  <1>3. store'.start = store.start /\ store'.end = store.end
    BY <1>2 DEF IoWrite, DeviceWrite, StoreRecords
  <1>4. \A s : Location(s)' = Location(s)
    BY <1>3 DEF Location, Area
  <1>5. NextBlock' = NextBlock
    BY <1>3 DEF NextBlock, Area
  <1>6. HolderAvoids'
    BY <1>1, <1>3, <1>5 DEF WriteInv, HolderAvoids
  <1>7. ASSUME NEW s \in Forbidden
        PROVE  store'.disk[Location(s)] = store.disk[Location(s)]
    <2>1. CASE store' = store
      BY <2>1
    <2>2. CASE store' # store
      <3>1. PICK W \in SUBSET Extent(io.req) :
               store' = [store EXCEPT !.disk = [p \in PhysicalSectors |->
                            IF \E x \in W : DeviceSector(io.req, x) = p
                            THEN buffer.cells[io.req.buf][CHOOSE x \in W : DeviceSector(io.req, x) = p] ELSE @[p]]]
        BY <2>2, Zenon DEF IoWrite, DeviceWrite
      <3>2. \A x \in W : x \in Sectors /\ x # s
        BY <1>1, <1>7 DEF Extent
      <3>3. \A x \in W : DeviceSector(io.req, x) # Location(s)
        BY <1>1, <1>2, <3>2, SectorsApart
      <3>4. Location(s) \in PhysicalSectors
        BY <1>2, LocationOnDisk
      <3>5. QED
        BY <1>2, <3>1, <3>3, <3>4 DEF StoreRecords
    <2>3. QED
      BY <2>1, <2>2
  <1>8. ProtectedIntact'
    BY <1>4, <1>7 DEF WriteInv, ProtectedIntact, Forbidden
  <1>9. QED
    BY <1>6, <1>8

LEMMA HeldReadAvoids ==
    ASSUME TypeOK, WriteInv, HeldRead
    PROVE  HolderAvoids' /\ ProtectedIntact'
  <1>0. hold \in HoldRecords /\ store \in StoreRecords /\ Forbidden \subseteq Sectors /\ UNCHANGED store /\ RemapOffset = 0
    BY QueueAssumption DEF TypeOK, HoldOK, Forbidden, HeldRead
  <1>1. ProtectedIntact' /\ NextBlock' = NextBlock
    BY <1>0 DEF WriteInv, ProtectedIntact, Location, Area, NextBlock
  <1>2. \A s \in Forbidden : s \in PhysicalSectors /\ store.disk[s] \in Cells /\ store.disk[s].writer = "format"
    <2> SUFFICES ASSUME NEW s \in Forbidden
                 PROVE  s \in PhysicalSectors /\ store.disk[s] \in Cells /\ store.disk[s].writer = "format"
      OBVIOUS
    <2>1. s \in Int /\ s \in Sectors
      BY <1>0 DEF Sectors
    <2>2. Location(s) = s
      BY <1>0, <2>1 DEF Location
    <2>3. s \in PhysicalSectors
      BY <2>1, <2>2, LocationOnDisk
    <2>4. QED
      BY <1>0, <2>2, <2>3 DEF WriteInv, ProtectedIntact, Forbidden, StoreRecords
  <1>3. CASE NextBlock < DiskLength /\ hold' = [hold EXCEPT !.pc = "encrypting", !.cell = AddLayers(store.disk[NextBlock], 1)]
    <2>1. hold'.pc = "encrypting" /\ hold'.cell = AddLayers(store.disk[NextBlock], 1)
      BY <1>0, <1>3 DEF HoldRecords
    <2>2. NextBlock \in Forbidden => hold'.cell.writer = "format"
      BY <1>2, <2>1, LayersKeepWriter
    <2>3. QED
      BY <1>0, <1>1, <2>1, <2>2 DEF HolderAvoids
  <1>4. CASE hold' = [hold EXCEPT !.pc = "decrypting", !.cell = AddLayers(store.disk[store.end], -1)]
    <2>1. hold'.pc = "decrypting" /\ hold'.cell = AddLayers(store.disk[store.end], -1)
      BY <1>0, <1>4 DEF HoldRecords
    <2>2. store.end \in Forbidden => hold'.cell.writer = "format"
      BY <1>2, <2>1, LayersKeepWriter
    <2>3. QED
      BY <1>0, <1>1, <2>1, <2>2 DEF HolderAvoids
  <1>5. QED
    BY <1>3, <1>4 DEF HeldRead

LEMMA HeldWriteAvoids ==
    ASSUME TypeOK, WriteInv, HeldWrite
    PROVE  HolderAvoids' /\ ProtectedIntact'
  <1>0. hold \in HoldRecords /\ store \in StoreRecords /\ Forbidden \subseteq Sectors /\ RemapOffset = 0 /\ hold'.pc = "moved"
    BY QueueAssumption DEF TypeOK, HoldOK, Forbidden, HeldWrite, WriteInv, HolderAvoids, HoldRecords
  <1>1. HolderAvoids'
    BY <1>0 DEF HolderAvoids
  <1>2. \A s \in Forbidden : Location(s) = s /\ Location(s)' = s
    BY <1>0 DEF Location, Sectors
  <1>3. ASSUME NEW s \in Forbidden
        PROVE  store'.disk[s].writer = "format"
    <2>1. store.disk[s].writer = "format"
      BY <1>2 DEF WriteInv, ProtectedIntact, Forbidden
    <2>2. CASE hold.pc = "encrypting"
      <3>1. store'.disk = [store.disk EXCEPT ![NextBlock] = hold.cell]
        BY <1>0, <2>2 DEF HeldWrite, StoreRecords
      <3>2. QED
        BY <1>0, <2>1, <2>2, <3>1 DEF WriteInv, HolderAvoids, StoreRecords
    <2>3. CASE hold.pc = "decrypting"
      <3>1. store'.disk = [store.disk EXCEPT ![store.end] = hold.cell]
        BY <1>0, <2>3 DEF HeldWrite, StoreRecords
      <3>2. QED
        BY <1>0, <2>1, <2>3, <3>1 DEF WriteInv, HolderAvoids, StoreRecords
    <2>4. QED
      BY <2>2, <2>3 DEF HeldWrite
  <1>4. ProtectedIntact'
    BY <1>2, <1>3 DEF ProtectedIntact, Forbidden
  <1>5. QED
    BY <1>1, <1>4

LEMMA WriteStep == TypeOK /\ Inv /\ WriteInv /\ [Next]_vars => WriteInv'
  <1> SUFFICES ASSUME TypeOK, Inv, WriteInv, [Next]_vars PROVE WriteInv'
    OBVIOUS
  <1>1. FragmentsAvoid' /\ MainAvoids'
    BY FragmentsAvoidStep, MainAvoidsStep
  <1>2. CASE TouchesDisk
    BY <1>1, <1>2, IoWriteAvoids, HeldReadAvoids, HeldWriteAvoids DEF TouchesDisk, WriteInv
  <1>3. CASE ~TouchesDisk
    <2>1. /\ store'.disk = store.disk /\ store'.start = store.start /\ store'.end = store.end
          /\ hold'.pc \in {"encrypting", "decrypting"} => hold' = hold
      BY <1>3, OthersKeepDisk
    <2>2. NextBlock' = NextBlock /\ \A s : Location(s)' = Location(s)
      BY <2>1 DEF NextBlock, Location, Area
    <2>3. HolderAvoids' /\ ProtectedIntact'
      BY <2>1, <2>2 DEF WriteInv, HolderAvoids, ProtectedIntact
    <2>4. QED
      BY <1>1, <2>3 DEF WriteInv
  <1>4. QED
    BY <1>2, <1>3

(* No sector of a hidden volume's area, of the boot header or of the region *)
(* that reads replace is ever written through the queue: neither by a       *)
(* fragment of a write, remapped or not, nor otherwise than as it was by    *)
(* the thread that re-encrypts a block of the disk                          *)
THEOREM ProtectedIsIntact == Spec => []ProtectedIntact
  <1>1. WriteInv => ProtectedIntact
    BY DEF WriteInv
  <1>2. QED
    BY <1>1, InitWrites, WriteStep, TypeCorrect, Invariant, PTL DEF Spec

----------------------------------------------------------------------------
(* After a write was denied.  A write that was issued later either waits   *)
(* for the decision of the main thread, which denies it, or has failed.    *)

Waiting(i) == irp[i].stage \in {"unissued", "counted", "refusing", "rejected", "queued"}
Undecided(i) == main.irp = i /\ main.pc \in {"getItem", "itemWait", "dispatch"}
Doomed(i) ==
    /\ store.triggered
    /\ Waiting(i) \/ irp[i].op.kind # "write" \/ irp[i].status # "ok" \/ Undecided(i)

(* The latch is never reset: a filter device never sets it *)
LatchOK == store.triggered => ~IsFilterDevice

LEMMA LatchStep == TypeOK /\ LatchOK /\ [Next]_vars => LatchOK' /\ (store.triggered => store'.triggered)
  <1> SUFFICES ASSUME TypeOK, LatchOK, [Next]_vars PROVE LatchOK' /\ (store.triggered => store'.triggered)
    OBVIOUS
  <1>0. store \in StoreRecords /\ IsFilterDevice \in BOOLEAN
    BY QueueAssumption DEF TypeOK
  <1>1. CASE MainDeny
    BY <1>0, <1>1 DEF MainDeny, LatchOK, StoreRecords
  <1>2. CASE IoWrite \/ HeldWrite
    <2>1. store'.triggered = store.triggered
      <3>1. CASE IoWrite /\ store' # store
        <4>1. PICK W \in SUBSET Extent(io.req) :
               store' = [store EXCEPT !.disk = [p \in PhysicalSectors |->
                            IF \E x \in W : DeviceSector(io.req, x) = p
                            THEN buffer.cells[io.req.buf][CHOOSE x \in W : DeviceSector(io.req, x) = p] ELSE @[p]]]
          BY <3>1, Zenon DEF IoWrite, DeviceWrite
        <4>2. QED
          BY <1>0, <4>1 DEF StoreRecords
      <3>2. CASE HeldWrite
        BY <1>0, <3>2 DEF HeldWrite, StoreRecords
      <3>3. QED
        BY <1>2, <3>1, <3>2
    <2>2. QED
      BY <2>1 DEF LatchOK
  <1>3. CASE ~(MainDeny \/ IoWrite \/ HeldWrite)
    <2>1. UNCHANGED store
      BY <1>3 DEF Next, AddIrp, AddIrpCount, AddIrpEnqueue, AddIrpRefuse, AddIrpRefuseSignal,
                  CompleteIrpWorkItemRoutine, WorkCount, WorkSignal, WorkCompleteIrp, WorkLeave, WorkReturn,
                  MainThreadProc, MainWait, MainIdle, MainDequeue, MainSuspendCheck, MainResumed, MainGetItem,
                  MainPoolEmpty, MainPoolWait, MainReject, MainMisaligned, MainFlush, MainComplete,
                  MainFragment, MainGetRequest, MainAcquire, FillAndQueue,
                  IoThreadProc, IoWait, IoIdle, IoDequeue, IoFlush, IoRead, IoReadQueue, IoReadAhead,
                  IoReadAheadDone, IoSignal, IoComplete, IoRelease,
                  CompletionThreadProc, CompWait, CompIdle, CompDecrypt, CompComplete, CompRelease,
                  Caller, EncryptedIoQueueHoldWhenIdle, HoldBegin, HoldCheck, HoldWait, HoldFail, HoldRecheck,
                  HoldClear, HoldSuspend, HoldGrant, Grant, HoldUndo, HeldRead, EncryptedIoQueueResumeFromHold,
                  EncryptedIoQueueStop, StopBegin, StopWait, StopThreads, StopFree, vars
    <2>2. QED
      BY <2>1 DEF LatchOK
  <1>4. QED
    BY <1>1, <1>2, <1>3

(* An IRP stops waiting when the main thread admits it *)
LEMMA WaitingEnds ==
    ASSUME TypeOK, Inv, [Next]_vars, NEW i \in Irps
    PROVE  Waiting(i)' = Waiting(i) \/ ((MainSuspendCheck \/ MainResumed) /\ main.irp = i)
  <1>1. CASE irp'[i].stage = irp[i].stage
    BY <1>1 DEF Waiting
  <1>2. CASE \E j \in Irps : AddIrp(j) \/ CompleteIrpWorkItemRoutine(j)
    BY <1>1, <1>2, AddIrpEffect, WorkEffect DEF Waiting
  <1>3. CASE Decides \/ TransfersData
    BY <1>1, <1>3, DecisionEffect, TransferEffect DEF Decides, TransfersData
  <1>4. CASE Admits
    BY <1>1, <1>4 DEF Admits, MainSuspendCheck, MainResumed, Admit, TypeOK, IrpRecords
  <1>5. QED
    BY <1>1, <1>2, <1>3, <1>4, OthersKeepIrps

LEMMA DoomedStep ==
    ASSUME TypeOK, Inv, LatchOK, [Next]_vars, NEW i \in Irps, Doomed(i)
    PROVE  Doomed(i)'
  <1>0. store.triggered /\ store'.triggered /\ irp \in [Irps -> IrpRecords] /\ main \in MainRecords
    BY LatchStep DEF Doomed, TypeOK, MainOK
  <1>1. CASE Waiting(i)
    <2>1. CASE Waiting(i)'
      BY <1>0, <2>1 DEF Doomed
    <2>2. CASE ~Waiting(i)'
      <3>1. (MainSuspendCheck \/ MainResumed) /\ main.irp = i /\ irp' # irp
        BY <1>1, <2>2, WaitingEnds DEF Waiting
      <3>2. main' = [main EXCEPT !.pc = "getItem"]
        BY <3>1 DEF MainSuspendCheck, MainResumed, Admit
      <3>3. QED
        BY <1>0, <3>1, <3>2 DEF Doomed, Undecided, MainRecords
    <2>3. QED
      BY <2>1, <2>2
  <1>2. CASE ~Waiting(i)
    <2>1. Fixed(i)
      BY <1>2, IssuedFixed DEF Waiting
    <2>2. CASE irp[i].op.kind # "write" \/ irp[i].status # "ok"
      BY <1>0, <2>1, <2>2 DEF Fixed, Doomed
    <2>3. CASE Undecided(i) /\ irp[i].op.kind = "write"
      <3>1. CASE ~MainThreadProc
        BY <1>0, <2>3, <3>1, OnlyMain DEF Doomed, Undecided
      <3>2. CASE MainGetItem \/ MainPoolEmpty \/ MainPoolWait
        BY <1>0, <2>3, <3>2 DEF Doomed, Undecided, MainGetItem, MainPoolEmpty, MainPoolWait, MainRecords
      <3>3. CASE MainReject \/ MainDeny
        <4>1. \E status : status # "ok" /\ irp' = [irp EXCEPT ![i].status = status]
          BY <2>3, <3>3 DEF Undecided, MainReject, MainDeny, MainFinish
        <4>2. irp'[i].status # "ok"
          BY <1>0, <4>1 DEF IrpRecords
        <4>3. QED
          BY <1>0, <4>2 DEF Doomed
      <3>4. ~MainFragment /\ ~MainFlush /\ ~MainMisaligned
        BY <1>0, <2>3 DEF Undecided, MainFragment, MainFlush, MainMisaligned, Misaligned, Transfers, Denied
      <3>5. QED
        BY <2>3, <3>1, <3>2, <3>3, <3>4 DEF Undecided, MainThreadProc, MainWait, MainIdle, MainDequeue,
           MainSuspendCheck, MainResumed, MainComplete, MainGetRequest, MainAcquire
    <2>4. QED
      BY <1>2, <2>2, <2>3 DEF Doomed
  <1>3. QED
    BY <1>1, <1>2

(* Once a write into the protected area of a hidden volume was denied, no   *)
(* write that is issued later is ever completed with success, whichever     *)
(* thread has it when the denial is decided                                 *)
THEOREM DenialIsFinal == Spec => NoWriteAfterTrigger
  <1> DEFINE After(i) == store.triggered /\ irp[i].stage = "unissued"
             Written(i) == irp[i].stage = "completed" /\ irp[i].op.kind = "write" /\ irp[i].status = "ok"
  <1>1. Spec => []LatchOK
    <2>1. Init => LatchOK
      BY DEF Init, LatchOK
    <2>2. QED
      BY <2>1, LatchStep, TypeCorrect, PTL DEF Spec
  <1>2. ASSUME NEW i \in Irps
        PROVE  Spec => [](After(i) => []~Written(i))
    <2>1. After(i) => Doomed(i)
      BY DEF Doomed, Waiting
    <2>2. TypeOK /\ Inv /\ LatchOK /\ [Next]_vars /\ Doomed(i) => Doomed(i)'
      BY DoomedStep
    <2>3. TypeOK /\ Inv /\ Doomed(i) => ~Written(i)
      BY DEF Doomed, Waiting, Undecided, Inv, Responsible, MainHasIrp, Whole
    <2> HIDE DEF After, Written
    <2>4. QED
      BY <1>1, <2>1, <2>2, <2>3, TypeCorrect, Invariant, PTL DEF Spec
  <1>3. (\A i \in Irps : (Spec => [](After(i) => []~Written(i)))) => (Spec => NoWriteAfterTrigger)
    BY DEF NoWriteAfterTrigger
  <1>4. QED
    BY <1>2, <1>3
=============================================================================
