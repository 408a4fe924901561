-------------------- MODULE EncryptedIoQueue_refinement --------------------
(***************************************************************************)
(* The queue implements BlockDevice, for every set of IRPs, every geometry *)
(* of the disk and every size of the pools: whoever issues the IRPs cannot *)
(* tell the encrypted, fragmented, read-ahead and re-encrypted disk from a *)
(* plain one.                                                              *)
(*                                                                         *)
(* Every step of the queue is a step of the device or changes nothing its  *)
(* user sees.  Which one it is, is known only with four more invariants,   *)
(* each preserved by the steps from states of the earlier ones:            *)
(*   PathInv     an operation on its way to the disk goes where the IRP    *)
(*               asked for, in parts that agree with the encrypted area;   *)
(*   StoreInv    what was read ahead, what the buffers of writes and the   *)
(*               holder of the queue contain;                              *)
(*   TodoInv     which sectors of an IRP are still to be transferred;      *)
(*   PendingInv  the data of a read that is not decrypted yet.             *)
(***************************************************************************)
EXTENDS EncryptedIoQueue_proof

----------------------------------------------------------------------------
(* Steps of the abstract device, as what a step of the queue has to show   *)

OthersSame(i) == \A j \in Irps : j # i => PlainRequest(j)' = PlainRequest(j)
PlainRequests == [k \in Irps |-> PlainRequest(k)]

LEMMA RequestMoves ==
    ASSUME NEW i \in Irps, OthersSame(i), NEW v, PlainRequest(i)' = v
    PROVE  PlainRequests' = [PlainRequests EXCEPT ![i] = v]
<1>1. \A k \in Irps : PlainRequests'[k] = [PlainRequests EXCEPT ![i] = v][k]
  BY DEF OthersSame, PlainRequests
<1>. QED  BY <1>1 DEF PlainRequests

LEMMA RecordMoves ==
    ASSUME NEW w \in BOOLEAN, NEW T, NEW U, NEW d
    PROVE  [Device!Request("ok", w, T, d) EXCEPT !.todo = U] = Device!Request("ok", w, U, d)
  BY DEF Device!Request

LEMMA IssueStep ==
    ASSUME NEW i \in Irps, OthersSame(i), PlainContent' = PlainContent, PlainRequest(i) = Device!Unissued,
           NEW S \in SUBSET Sectors, NEW w \in BOOLEAN,
           PlainRequest(i)' = Device!Request("ok", w, S, Device!NothingRead)
    PROVE  Device!Next
<1>1. PlainRequests' = [PlainRequests EXCEPT ![i] = Device!Request("ok", w, S, Device!NothingRead)]
  BY RequestMoves
<1>2. PlainRequests[i] = Device!Unissued
  BY DEF PlainRequests
<1>3. Device!Issue(i)
  BY <1>1, <1>2 DEF Device!Issue, PlainRequests
<1>. QED  BY <1>3 DEF Device!Next

LEMMA WriteTransfer ==
    ASSUME NEW i \in Irps, OthersSame(i), NEW S, S \subseteq PlainRequest(i).todo,
           PlainRequest(i).state = "ok", PlainRequest(i).write,
           NEW U, U = PlainRequest(i).todo \ S, PlainRequest(i)' = [PlainRequest(i) EXCEPT !.todo = U],
           \A s \in Sectors : PlainContent'[s] = IF s \in S THEN Device!Written(i, s) ELSE PlainContent[s]
    PROVE  Device!Next
<1>0. PlainContent' = [s \in Sectors |-> IF s \in S THEN Device!Written(i, s) ELSE PlainContent[s]]
  BY DEF PlainContent
<1>1. PlainRequests[i] = PlainRequest(i)
  BY DEF PlainRequests
<1>2. PlainRequests' = [PlainRequests EXCEPT ![i] = [PlainRequests[i] EXCEPT !.todo = U]]
  BY <1>1, RequestMoves
<1>3. PlainRequests' = [PlainRequests EXCEPT ![i].todo = @ \ S]
  BY <1>1, <1>2
<1>4. Device!Transfer(i, S)
  BY <1>0, <1>1, <1>3 DEF Device!Transfer, PlainRequests
<1>. QED  BY <1>1, <1>4 DEF Device!Next, PlainRequests

LEMMA WriteFails ==
    ASSUME NEW i \in Irps, OthersSame(i), NEW S, S \subseteq PlainRequest(i).todo,
           PlainRequest(i).state = "ok", PlainRequest(i).write,
           PlainRequest(i)' = Device!Request("failed", FALSE, {}, Device!NothingRead),
           \A s \in Sectors : PlainContent'[s] = IF s \in S THEN Device!Written(i, s) ELSE PlainContent[s]
    PROVE  Device!Next
<1>1. PlainRequests[i] = PlainRequest(i)
  BY DEF PlainRequests
<1>0. PlainContent' = [s \in Sectors |-> IF s \in S /\ PlainRequests[i].write THEN Device!Written(i, s) ELSE PlainContent[s]]
  BY <1>1 DEF PlainContent
<1>2. PlainRequests' = [PlainRequests EXCEPT ![i] = Device!Request("failed", FALSE, {}, Device!NothingRead)]
  BY RequestMoves
<1>3. Device!Fail(i, S)
  BY <1>0, <1>1, <1>2 DEF Device!Fail, PlainRequests
<1>. QED  BY <1>1, <1>3 DEF Device!Next, PlainRequests

LEMMA ReadTransfer ==
    ASSUME NEW i \in Irps, OthersSame(i), PlainContent' = PlainContent, NEW T, NEW S, S \subseteq T,
           PlainRequest(i) = Device!Request("ok", FALSE, T, PlainData(i)),
           PlainRequest(i)' = Device!Request("ok", FALSE, T \ S, PlainData(i)'),
           \A s \in Sectors : PlainData(i)'[s] = IF s \in S THEN PlainContent[s] ELSE PlainData(i)[s]
    PROVE  Device!Next
<1>0. PlainData(i)' = [s \in Sectors |-> IF s \in S THEN PlainContent[s] ELSE PlainData(i)[s]]
  BY DEF PlainData
<1>1. PlainRequests[i] = Device!Request("ok", FALSE, T, PlainData(i))
  BY DEF PlainRequests
<1>2. PlainRequests[i].state = "ok" /\ ~PlainRequests[i].write /\ PlainRequests[i].todo = T /\ PlainRequests[i].data = PlainData(i)
  BY <1>1 DEF Device!Request
<1>3. PlainRequests' = [PlainRequests EXCEPT ![i] = Device!Request("ok", FALSE, T \ S, PlainData(i)')]
  BY RequestMoves
<1>4. PlainRequests' = [PlainRequests EXCEPT ![i] = Device!Request("ok", FALSE, @.todo \ S,
                           [s \in Sectors |-> IF s \in S THEN PlainContent[s] ELSE @.data[s]])]
  BY <1>0, <1>2, <1>3
<1>5. Device!Transfer(i, S)
  BY <1>2, <1>4 DEF Device!Transfer, PlainRequests
<1>. QED  BY <1>2, <1>5 DEF Device!Next, PlainRequests

LEMMA FailStep ==
    ASSUME NEW i \in Irps, OthersSame(i), PlainContent' = PlainContent, PlainRequest(i).state = "ok",
           PlainRequest(i)' = Device!Request("failed", FALSE, {}, Device!NothingRead)
    PROVE  Device!Next
<1>0. PlainContent' = [s \in Sectors |-> IF s \in {} /\ PlainRequests[i].write THEN Device!Written(i, s) ELSE PlainContent[s]]
  BY DEF PlainContent
<1>1. PlainRequests[i] = PlainRequest(i)
  BY DEF PlainRequests
<1>2. PlainRequests' = [PlainRequests EXCEPT ![i] = Device!Request("failed", FALSE, {}, Device!NothingRead)]
  BY RequestMoves
<1>3. Device!Fail(i, {})
  BY <1>0, <1>1, <1>2 DEF Device!Fail, PlainRequests
<1>. QED  BY <1>1, <1>3 DEF Device!Next, PlainRequests

LEMMA SuccessStep ==
    ASSUME NEW i \in Irps, OthersSame(i), NEW d, NEW w \in BOOLEAN, PlainContent' = PlainContent,
           PlainRequest(i) = Device!Request("ok", w, {}, d),
           PlainRequest(i)' = Device!Request("done", w, {}, d)
    PROVE  Device!Next
<1>1. PlainRequests' = [PlainRequests EXCEPT ![i] = Device!Request("done", w, {}, d)]
  BY RequestMoves
<1>2. PlainRequests[i] = Device!Request("ok", w, {}, d)
  BY DEF PlainRequests
<1>3. [PlainRequests[i] EXCEPT !.state = "done"] = Device!Request("done", w, {}, d)
  BY <1>2 DEF Device!Request
<1>4. PlainRequests' = [PlainRequests EXCEPT ![i].state = "done"]
  BY <1>1, <1>3
<1>5. PlainRequests[i].state = "ok" /\ PlainRequests[i].todo = {}
  BY <1>2 DEF Device!Request
<1>6. Device!Succeed(i)
  BY <1>4, <1>5 DEF Device!Succeed, PlainRequests
<1>. QED  BY <1>6 DEF Device!Next

LEMMA NoStep ==
    ASSUME PlainContent' = PlainContent, \A i \in Irps : PlainRequest(i)' = PlainRequest(i)
    PROVE  UNCHANGED Device!vars
<1>1. PlainRequests' = PlainRequests
  BY DEF PlainRequests
<1>. QED  BY <1>1 DEF Device!vars, PlainRequests

----------------------------------------------------------------------------
(* The requests in the hands of the I/O thread and on its list and the      *)
(* completion thread's.  Those of one IRP have no sector in common.         *)

IoPart == IF io.pc \in {"io", "readDone"} THEN {io.req} ELSE {}
Underway == Of(list.io) \cup IoPart \cup Of(list.comp)
Apart(r, q) == r.irp = q.irp => Extent(r) \cap Extent(q) = {}
Separate(s) == \A j, k \in DOMAIN s : j # k => Apart(s[j], s[k])
AllApart(A, B) == \A a \in A, b \in B : Apart(a, b)
SeparateInv ==
    /\ Separate(list.io) /\ Separate(list.comp)
    /\ AllApart(IoPart, Of(list.io))
    /\ AllApart(Of(list.comp), IoPart \cup Of(list.io))

(* A request lies within its IRP and the device, and its encrypted part is  *)
(* what of it lies in the encrypted area                                   *)
Shape(r) ==
    LET op == irp[r.irp].op IN
    /\ r.off + r.len <= DiskLength /\ op.off <= r.off /\ r.off + r.len <= op.off + op.len
    /\ r.encOff + r.encLen <= r.len
    /\ Enc(r) = Extent(r) \cap Area
ShapeInv == \A r \in Underway : Shape(r)

(* The main thread cuts an IRP into requests that follow one another        *)
CutOp == irp[main.irp].op
CutInv ==
    Cutting /\ CutOp.kind # "flush" =>
        /\ CutOp.kind \in {"read", "write"} /\ CutOp.aligned /\ CutOp.off + CutOp.len <= DiskLength
        /\ CutOp.off <= main.off /\ main.off < CutOp.off + CutOp.len
        /\ \A r \in Underway : r.irp = main.irp => r.off + r.len <= main.off
        /\ main.pc = "acquire" =>
              /\ Shape(main.req) /\ main.req.off = main.off /\ main.req.len > 0
              /\ IF main.req.last THEN main.off + main.req.len = CutOp.off + CutOp.len
                 ELSE main.req.len = FragmentSize /\ main.off + FragmentSize < CutOp.off + CutOp.len
PathInv == SeparateInv /\ ShapeInv /\ CutInv

LEMMA ApartSymmetric ==
    ASSUME NEW r, NEW q
    PROVE  Apart(r, q) <=> Apart(q, r)
  BY DEF Apart

LEMMA SeparateAppend ==
    ASSUME NEW s \in Seq(Requests), NEW r \in Requests, Separate(s), \A x \in Of(s) : Apart(x, r)
    PROVE  Separate(Append(s, r))
  <1> DEFINE t == Append(s, r)
             n == Len(s) + 1
  <1>1. DOMAIN t = DOMAIN s \cup {n} /\ n \notin DOMAIN s
    OBVIOUS
  <1>2. (\A k \in DOMAIN s : t[k] = s[k]) /\ t[n] = r
    OBVIOUS
  <1>3. \A k \in DOMAIN s : Apart(s[k], r) /\ Apart(r, s[k])
    <2> SUFFICES ASSUME NEW k \in DOMAIN s PROVE Apart(s[k], r) /\ Apart(r, s[k])
      OBVIOUS
    <2>1. s[k] \in Of(s)
      BY Zenon DEF Of
    <2>2. QED
      BY <2>1, ApartSymmetric
  <1> HIDE DEF t, n
  <1>4. Separate(t)
    BY <1>1, <1>2, <1>3, Zenon DEF Separate
  <1>5. QED
    BY <1>4 DEF t

LEMMA SeparateTail ==
    ASSUME NEW s \in Seq(Requests), s # <<>>, Separate(s)
    PROVE  Separate(Tail(s)) /\ \A x \in Of(Tail(s)) : Apart(Head(s), x)
  <1> DEFINE t == Tail(s)
  <1>1. \A k \in DOMAIN t : k \in Int /\ k + 1 \in DOMAIN s /\ k + 1 # 1 /\ t[k] = s[k + 1]
    OBVIOUS
  <1>2. Head(s) = s[1] /\ 1 \in DOMAIN s
    OBVIOUS
  <1> HIDE DEF t
  <1>3. \A k \in DOMAIN t : Apart(Head(s), t[k])
    <2> SUFFICES ASSUME NEW k \in DOMAIN t PROVE Apart(Head(s), t[k])
      OBVIOUS
    <2>1. k + 1 \in DOMAIN s /\ 1 # k + 1 /\ t[k] = s[k + 1]
      BY <1>1
    <2>2. QED
      BY <1>2, <2>1, Zenon DEF Separate
  <1>4. Separate(t)
    <2> SUFFICES ASSUME NEW j \in DOMAIN t, NEW k \in DOMAIN t, j # k PROVE Apart(t[j], t[k])
      BY Zenon DEF Separate
    <2>1. j + 1 # k + 1 /\ j + 1 \in DOMAIN s /\ k + 1 \in DOMAIN s /\ t[j] = s[j + 1] /\ t[k] = s[k + 1]
      BY <1>1
    <2>2. QED
      BY <2>1, Zenon DEF Separate
  <1>5. QED
    BY <1>3, <1>4, Zenon DEF t, Of

(* The steps that move a request *)
MovesRequest ==
    MainGetRequest \/ MainAcquire \/ IoDequeue \/ IoFlush \/ IoWrite \/ IoRead \/ IoReadQueue \/ CompDecrypt

LEMMA OthersKeepRequests ==
    ASSUME TypeOK, [Next]_vars, ~MovesRequest
    PROVE  /\ list'.io = list.io /\ list'.comp = list.comp
           /\ io.pc \in {"io", "readDone"} \/ io'.pc \in {"io", "readDone"} => io' = io
           /\ buffer'.cells = buffer.cells
  <1>0. list \in ListRecords /\ io \in IoRecords /\ buffer \in BufferRecords
    BY DEF TypeOK, IoOK
  <1>1. CASE \E i \in Irps : AddIrp(i)
    BY <1>0, <1>1 DEF ListRecords, AddIrp, AddIrpCount, AddIrpEnqueue, AddIrpRefuse, AddIrpRefuseSignal
  <1>2. CASE \E i \in Irps : CompleteIrpWorkItemRoutine(i)
    BY <1>2 DEF CompleteIrpWorkItemRoutine, WorkCount, WorkSignal, WorkCompleteIrp, WorkLeave, WorkReturn
  <1>3. CASE MainThreadProc
    <2>1. UNCHANGED <<io, buffer>>
      BY <1>3 DEF MovesRequest,
            MainThreadProc, MainWait, MainIdle, MainDequeue, MainSuspendCheck, MainResumed, MainGetItem,
            MainPoolEmpty, MainPoolWait, MainReject, MainDeny, MainMisaligned, MainFlush, MainComplete, MainFragment
    <2>2. CASE MainWait \/ MainDequeue \/ MainFlush \/ MainFragment
      BY <1>0, <2>1, <2>2 DEF ListRecords, MainWait, MainDequeue, MainFlush, MainFragment
    <2>3. CASE ~(MainWait \/ MainDequeue \/ MainFlush \/ MainFragment)
      <3>1. UNCHANGED list
        BY <1>3, <2>3 DEF MovesRequest,
            MainThreadProc, MainIdle, MainSuspendCheck, MainResumed, MainGetItem,
            MainPoolEmpty, MainPoolWait, MainReject, MainDeny, MainMisaligned, MainComplete
      <3>2. QED
        BY <2>1, <3>1
    <2>4. QED
      BY <2>2, <2>3
  <1>4. CASE IoThreadProc
    <2>1. io.pc \notin {"io", "readDone"}
      BY <1>4 DEF MovesRequest,
            IoThreadProc, IoWait, IoIdle, IoReadAhead, IoReadAheadDone, IoSignal, IoComplete, IoRelease
    <2>2. io'.pc \notin {"io", "readDone"}
      <3>1. CASE IoReadAhead \/ IoRelease
        <4>1. \/ io' = [pc |-> "readAheadDone", req |-> NoRequest]
              \/ io' = [pc |-> "drain", req |-> NoRequest]
          BY <3>1, Zenon DEF IoReadAhead, IoRelease
        <4>2. QED
          BY <4>1
      <3>2. CASE IoWait \/ IoIdle
        BY <1>0, <3>2 DEF IoRecords, IoWait, IoIdle
      <3>3. CASE IoReadAheadDone \/ IoSignal \/ IoComplete
        BY <1>0, <3>3 DEF IoRecords, IoReadAheadDone, IoSignal, IoComplete
      <3>4. QED
        BY <1>4, <3>1, <3>2, <3>3 DEF MovesRequest, IoThreadProc
    <2>3. list'.io = list.io /\ list'.comp = list.comp
      BY <1>0, <1>4 DEF MovesRequest, ListRecords,
            IoThreadProc, IoWait, IoIdle, IoReadAhead, IoReadAheadDone, IoSignal, IoComplete, IoRelease
    <2>4. buffer'.cells = buffer.cells
      <3>1. CASE IoReadAhead
        BY <1>0, <3>1 DEF IoReadAhead, BufferRecords
      <3>2. CASE ~IoReadAhead
        BY <1>4, <3>2 DEF MovesRequest, IoThreadProc, IoWait, IoIdle, IoReadAheadDone, IoSignal, IoComplete, IoRelease
      <3>3. QED
        BY <3>1, <3>2
    <2>5. QED
      BY <2>1, <2>2, <2>3, <2>4
  <1>5. CASE CompletionThreadProc
    BY <1>0, <1>5 DEF MovesRequest, ListRecords, CompletionThreadProc, CompWait, CompIdle, CompComplete, CompRelease
  <1>6. CASE Caller
    BY <1>0, <1>6 DEF BufferRecords, Caller, EncryptedIoQueueHoldWhenIdle, HoldBegin, HoldCheck, HoldWait,
                      HoldFail, HoldRecheck, HoldClear, HoldSuspend, HoldGrant, Grant, HoldUndo, HeldRead, HeldWrite,
                      EncryptedIoQueueResumeFromHold
  <1>7. CASE EncryptedIoQueueStop
    BY <1>0, <1>7 DEF ListRecords, EncryptedIoQueueStop, StopBegin, StopWait, StopThreads, StopFree
  <1>8. CASE UNCHANGED vars
    BY <1>8 DEF vars
  <1>9. QED
    BY <1>1, <1>2, <1>3, <1>4, <1>5, <1>6, <1>7, <1>8 DEF Next

(* What is on the lists after a request was moved *)
LEMMA RequestMovesEffect ==
    ASSUME TypeOK, [Next]_vars
    PROVE  /\ MainAcquire => /\ main.req \in Requests /\ list'.io = Append(list.io, main.req)
                             /\ list'.comp = list.comp /\ UNCHANGED <<io, irp, store>>
           /\ MainGetRequest => /\ list'.comp = list.comp /\ UNCHANGED <<io, irp, store, buffer>>
                                /\ \/ list'.io = list.io /\ CutOp.kind # "flush"
                                   \/ /\ FlushRequest(main.irp) \in Requests /\ CutOp.kind = "flush"
                                      /\ list'.io = Append(list.io, FlushRequest(main.irp))
           /\ IoDequeue => /\ list.io # <<>> /\ list'.io = Tail(list.io) /\ list'.comp = list.comp
                           /\ io.pc = "drain" /\ io'.pc = "io" /\ io'.req = Head(list.io)
                           /\ UNCHANGED <<irp, store, buffer, main>>
           /\ IoFlush \/ IoWrite => /\ list'.io = list.io /\ list'.comp = list.comp /\ UNCHANGED main
                                    /\ io.pc = "io" /\ io'.pc \notin {"io", "readDone"}
           /\ IoRead => /\ list'.io = list.io /\ list'.comp = list.comp /\ UNCHANGED <<main, store>>
                        /\ io.pc = "io" /\ io'.pc = "readDone" /\ io'.req = io.req
           /\ IoReadQueue => /\ list'.io = list.io /\ list'.comp = Append(list.comp, io.req)
                             /\ io.pc = "readDone" /\ io'.pc \notin {"io", "readDone"} /\ io.req \in Requests
                             /\ UNCHANGED <<irp, store, buffer, main>>
           /\ CompDecrypt => /\ list.comp # <<>> /\ list'.io = list.io /\ list'.comp = Tail(list.comp)
                             /\ UNCHANGED <<io, store, buffer, main>>
  <1>0. list \in ListRecords /\ io \in IoRecords
    BY DEF TypeOK, IoOK
  <1>2. MainAcquire => /\ main.req \in Requests /\ list'.io = Append(list.io, main.req)
                       /\ list'.comp = list.comp /\ UNCHANGED <<io, irp, store>>
    BY <1>0 DEF MainAcquire, FillAndQueue, EnqueueIo, ListRecords, TypeOK, MainOK
  <1>3. ASSUME MainGetRequest
        PROVE  /\ list'.comp = list.comp /\ UNCHANGED <<io, irp, store, buffer>>
               /\ \/ list'.io = list.io /\ CutOp.kind # "flush"
                  \/ /\ FlushRequest(main.irp) \in Requests /\ CutOp.kind = "flush"
                     /\ list'.io = Append(list.io, FlushRequest(main.irp))
    <2>1. main.irp \in Irps /\ FlushRequest(main.irp) \in Requests
      BY <1>3, WaitsForIrp DEF MainGetRequest, Cutting, FlushRequest, Requests, Buffers
    <2>2. QED
      BY <1>0, <1>3, <2>1 DEF MainGetRequest, EnqueueIo, ListRecords, CutOp
  <1>4. IoDequeue => /\ list.io # <<>> /\ list'.io = Tail(list.io) /\ list'.comp = list.comp
                     /\ io.pc = "drain" /\ io'.pc = "io" /\ io'.req = Head(list.io)
                     /\ UNCHANGED <<irp, store, buffer, main>>
    BY <1>0 DEF IoDequeue, ListRecords
  <1>5. IoFlush => /\ list'.io = list.io /\ list'.comp = list.comp /\ UNCHANGED main
                   /\ io.pc = "io" /\ io'.pc \notin {"io", "readDone"}
    BY <1>0 DEF IoFlush, IoRecords
  <1>6. IoWrite => /\ list'.io = list.io /\ list'.comp = list.comp /\ UNCHANGED main
                   /\ io.pc = "io" /\ io'.pc \notin {"io", "readDone"}
    BY <1>0 DEF IoWrite, IoRecords
  <1>7. IoRead => /\ list'.io = list.io /\ list'.comp = list.comp /\ UNCHANGED <<main, store>>
                  /\ io.pc = "io" /\ io'.pc = "readDone" /\ io'.req = io.req
    BY <1>0 DEF IoRead, IoRecords
  <1>8. IoReadQueue => /\ list'.io = list.io /\ list'.comp = Append(list.comp, io.req)
                       /\ io.pc = "readDone" /\ io'.pc \notin {"io", "readDone"} /\ io.req \in Requests
                       /\ UNCHANGED <<irp, store, buffer, main>>
    BY <1>0 DEF IoReadQueue, ListRecords, IoRecords, TypeOK, IoOK
  <1>9. CompDecrypt => /\ list.comp # <<>> /\ list'.io = list.io /\ list'.comp = Tail(list.comp)
                       /\ UNCHANGED <<io, store, buffer, main>>
    BY <1>0 DEF CompDecrypt, ListRecords
  <1>10. QED
    BY <1>2, <1>3, <1>4, <1>5, <1>6, <1>7, <1>8, <1>9

LEMMA UnderwayTypes ==
    ASSUME TypeOK, Inv, NEW r \in Underway
    PROVE  r \in Requests /\ r.irp \in Irps /\ irp[r.irp].stage = "active" /\ irp[r.irp] \in IrpRecords
  <1>1. r \in Fragments
    BY DEF Underway, IoPart, Fragments, IoHas
  <1>2. QED
    BY <1>1, FragmentTypes DEF Inv, Responsible, NoFragmentOutlivesIrp, TypeOK

(* A request comes from the hands of the main thread only *)
LEMMA Arrives ==
    ASSUME TypeOK, Inv, [Next]_vars, NEW r \in Underway'
    PROVE  \/ r \in Underway
           \/ MainAcquire /\ r = main.req
           \/ MainGetRequest /\ CutOp.kind = "flush" /\ r = FlushRequest(main.irp)
  <1>0. list.io \in Seq(Requests) /\ list.comp \in Seq(Requests)
    BY ListFields
  <1>1. CASE ~MovesRequest
    <2>1. list'.io = list.io /\ list'.comp = list.comp /\ (io'.pc \in {"io", "readDone"} => io' = io)
      BY <1>1, OthersKeepRequests
    <2>2. QED
      BY <2>1 DEF Underway, IoPart, Of
  <1>2. CASE MainAcquire
    <2>1. main.req \in Requests /\ list'.io = Append(list.io, main.req) /\ list'.comp = list.comp /\ UNCHANGED io
      BY <1>2, RequestMovesEffect
    <2>2. Of(list.io)' = Of(list.io) \cup {main.req}
      BY <1>0, <2>1, OfAppend
    <2>3. QED
      BY <1>2, <2>1, <2>2 DEF Underway, IoPart, Of
  <1>3. CASE MainGetRequest
    <2>1. /\ list'.comp = list.comp /\ UNCHANGED io
          /\ \/ list'.io = list.io /\ CutOp.kind # "flush"
             \/ /\ FlushRequest(main.irp) \in Requests /\ CutOp.kind = "flush"
                /\ list'.io = Append(list.io, FlushRequest(main.irp))
      BY <1>3, RequestMovesEffect
    <2>2. CASE list'.io = list.io
      BY <2>1, <2>2 DEF Underway, IoPart, Of
    <2>3. CASE list'.io # list.io
      <3>1. FlushRequest(main.irp) \in Requests /\ CutOp.kind = "flush" /\ list'.io = Append(list.io, FlushRequest(main.irp))
        BY <2>1, <2>3
      <3>2. Of(list.io)' = Of(list.io) \cup {FlushRequest(main.irp)}
        BY <1>0, <3>1, OfAppend
      <3>3. QED
        BY <1>3, <2>1, <3>1, <3>2 DEF Underway, IoPart, Of
    <2>4. QED
      BY <2>2, <2>3
  <1>4. CASE IoDequeue
    <2>1. list.io # <<>> /\ list'.io = Tail(list.io) /\ list'.comp = list.comp /\ io'.req = Head(list.io) /\ io'.pc = "io"
      BY <1>4, RequestMovesEffect
    <2>2. Of(list.io) = Of(list.io)' \cup {Head(list.io)}
      BY <1>0, <2>1, OfTail
    <2>3. QED
      BY <2>1, <2>2 DEF Underway, IoPart, Of
  <1>5. CASE IoFlush \/ IoWrite
    <2>1. list'.io = list.io /\ list'.comp = list.comp /\ io'.pc \notin {"io", "readDone"}
      BY <1>5, RequestMovesEffect
    <2>2. QED
      BY <2>1 DEF Underway, IoPart, Of
  <1>6. CASE IoRead
    <2>1. list'.io = list.io /\ list'.comp = list.comp /\ io.pc = "io" /\ io'.req = io.req
      BY <1>6, RequestMovesEffect
    <2>2. QED
      BY <2>1 DEF Underway, IoPart, Of
  <1>7. CASE IoReadQueue
    <2>1. list'.io = list.io /\ list'.comp = Append(list.comp, io.req) /\ io.req \in Requests
          /\ io.pc = "readDone" /\ io'.pc \notin {"io", "readDone"}
      BY <1>7, RequestMovesEffect
    <2>2. Of(list.comp)' = Of(list.comp) \cup {io.req}
      BY <1>0, <2>1, OfAppend
    <2>3. QED
      BY <2>1, <2>2 DEF Underway, IoPart, Of
  <1>8. CASE CompDecrypt
    <2>1. list.comp # <<>> /\ list'.io = list.io /\ list'.comp = Tail(list.comp) /\ UNCHANGED io
      BY <1>8, RequestMovesEffect
    <2>2. Of(list.comp) = Of(list.comp)' \cup {Head(list.comp)}
      BY <1>0, <2>1, OfTail
    <2>3. QED
      BY <2>1, <2>2 DEF Underway, IoPart, Of
  <1>9. QED
    BY <1>1, <1>2, <1>3, <1>4, <1>5, <1>6, <1>7, <1>8 DEF MovesRequest

(* The encrypted area moves only where no request is underway and no IRP is being cut *)
LEMMA AreaMoves ==
    ASSUME TypeOK, Inv, [Next]_vars, \E i \in Irps : irp[i].stage = "active"
    PROVE  Area' = Area /\ ~HeldRead /\ ~HeldWrite
  <1>1. ~Held
    BY DEF Inv, HoldInv
  <1>2. ~HeldRead /\ ~HeldWrite
    BY <1>1 DEF HeldRead, HeldWrite, Held
  <1>3. store'.start = store.start /\ store'.end = store.end
    <2>1. CASE IoWrite
      BY <2>1 DEF IoWrite, DeviceWrite, TypeOK, StoreRecords
    <2>2. CASE ~IoWrite
      BY <1>2, <2>2, OthersKeepDisk DEF TouchesDisk
    <2>3. QED
      BY <2>1, <2>2
  <1>4. QED
    BY <1>2, <1>3 DEF Area

LEMMA FlushShape ==
    ASSUME TypeOK, Inv, NEW i \in Irps, irp[i].op.kind = "flush"
    PROVE  Shape(FlushRequest(i)) /\ Extent(FlushRequest(i)) = {}
  <1>1. irp[i].op \in Ops
    BY DEF TypeOK, IrpRecords, Unissued
  <1>2. irp[i].op.off = 0 /\ irp[i].op.len = 0 /\ DiskLength \in Nat
    BY <1>1, QueueAssumption
  <1>3. QED
    BY <1>2 DEF Shape, FlushRequest, Enc, Extent, Sectors

LEMMA ShapeStep ==
    ASSUME TypeOK, Inv, PathInv, [Next]_vars
    PROVE  ShapeInv'
  <1> SUFFICES ASSUME NEW r \in Underway' PROVE Shape(r)'
    BY DEF ShapeInv
  <1>1. CASE r \in Underway
    <2>1. irp[r.irp].stage = "active" /\ r.irp \in Irps
      BY <1>1, UnderwayTypes
    <2>2. irp'[r.irp].op = irp[r.irp].op
      BY <2>1, IssuedFixed DEF Fixed
    <2>3. Area' = Area
      BY <2>1, AreaMoves
    <2>4. QED
      BY <1>1, <2>2, <2>3 DEF PathInv, ShapeInv, Shape, Enc, Extent
  <1>2. CASE MainAcquire /\ r = main.req
    <2>1. UNCHANGED <<irp, store>>
      BY <1>2, RequestMovesEffect
    <2>2. Shape(main.req)
      BY <1>2 DEF MainAcquire, PathInv, CutInv, Cutting, CutOp, Inv, Responsible, MainHasIrp
    <2>3. QED
      BY <1>2, <2>1, <2>2 DEF Shape, Area, Enc, Extent
  <1>3. CASE MainGetRequest /\ CutOp.kind = "flush" /\ r = FlushRequest(main.irp)
    <2>1. UNCHANGED <<irp, store>> /\ main.irp \in Irps
      BY <1>3, RequestMovesEffect, WaitsForIrp DEF MainGetRequest, Cutting
    <2>2. Shape(r)
      BY <1>3, <2>1, FlushShape DEF CutOp
    <2>3. QED
      BY <2>1, <2>2 DEF Shape, Area, Enc, Extent
  <1>4. QED
    BY <1>1, <1>2, <1>3, Arrives

LEMMA SeparateStep ==
    ASSUME TypeOK, Inv, PathInv, [Next]_vars
    PROVE  SeparateInv'
  <1>0. /\ list.io \in Seq(Requests) /\ list.comp \in Seq(Requests)
        /\ Separate(list.io) /\ Separate(list.comp)
        /\ AllApart(IoPart, Of(list.io)) /\ AllApart(Of(list.comp), IoPart \cup Of(list.io))
    BY ListFields DEF PathInv, SeparateInv
  <1>a. ASSUME Separate(list'.io), Separate(list'.comp),
               AllApart(IoPart', Of(list'.io)), AllApart(Of(list'.comp), IoPart' \cup Of(list'.io))
        PROVE  SeparateInv'
    BY <1>a DEF SeparateInv, AllApart, Separate, Apart, Extent, Of
  <1>1. CASE ~MovesRequest
    <2>1. list'.io = list.io /\ list'.comp = list.comp /\ (io'.pc \in {"io", "readDone"} => io' = io)
      BY <1>1, OthersKeepRequests
    <2>2. Of(list.io)' = Of(list.io) /\ Of(list.comp)' = Of(list.comp) /\ IoPart' \subseteq IoPart
      BY <2>1 DEF IoPart, Of
    <2>3. Separate(list'.io) /\ Separate(list'.comp)
      BY <1>0, <2>1
    <2>4. QED
      BY <1>0, <2>2, <2>3 DEF SeparateInv, AllApart, Separate, Apart, Extent
  <1>2. ASSUME NEW r \in Requests, list'.io = Append(list.io, r), list'.comp = list.comp, UNCHANGED io,
               \A x \in Underway : Apart(x, r)
        PROVE  SeparateInv'
    <2>1. Of(list.io)' = Of(list.io) \cup {r} /\ Of(list.comp)' = Of(list.comp) /\ IoPart' = IoPart
      BY <1>0, <1>2, OfAppend DEF IoPart, Of
    <2>2. Separate(list'.io) /\ Separate(list'.comp)
      BY <1>0, <1>2, SeparateAppend DEF Underway
    <2>3. AllApart(IoPart', Of(list.io)')
      BY <1>0, <1>2, <2>1 DEF AllApart, Underway
    <2>4. AllApart(Of(list.comp)', IoPart' \cup Of(list.io)')
      BY <1>0, <1>2, <2>1 DEF AllApart, Underway
    <2>5. QED
      BY <2>2, <2>3, <2>4 DEF SeparateInv, AllApart, Separate, Apart, Extent
  <1>3. CASE MainAcquire
    <2>1. main.req \in Requests /\ list'.io = Append(list.io, main.req) /\ list'.comp = list.comp /\ UNCHANGED io
      BY <1>3, RequestMovesEffect
    <2>2. main.req.irp = main.irp /\ Cutting /\ CutOp.kind # "flush" /\ main.pc = "acquire"
      BY <1>3 DEF MainAcquire, Cutting, CutOp, Inv, Responsible, MainHasIrp
    <2>3. main.req.off = main.off /\ (\A x \in Underway : x.irp = main.irp => x.off + x.len <= main.off)
      BY <2>2 DEF PathInv, CutInv, Shape
    <2>4. ASSUME NEW x \in Underway PROVE Apart(x, main.req)
      <3>1. x \in Requests
        BY UnderwayTypes
      <3>2. x.off \in Int /\ x.len \in Int /\ main.off \in Int /\ main.req.len \in Int
        BY <2>1, <3>1 DEF Requests, TypeOK, MainOK, MainRecords
      <3>3. QED
        BY <2>2, <2>3, <3>2 DEF Apart, Extent, Sectors
    <2>5. QED
      BY <1>2, <2>1, <2>4
  <1>4. CASE MainGetRequest
    <2>1. /\ list'.comp = list.comp /\ UNCHANGED io
          /\ \/ list'.io = list.io /\ CutOp.kind # "flush"
             \/ /\ FlushRequest(main.irp) \in Requests /\ CutOp.kind = "flush"
                /\ list'.io = Append(list.io, FlushRequest(main.irp))
      BY <1>4, RequestMovesEffect
    <2>2. CASE list'.io = list.io
      <3>1. IoPart' = IoPart
        BY <2>1 DEF IoPart
      <3>2. QED
        BY <1>0, <1>a, <2>1, <2>2, <3>1
    <2>3. CASE list'.io # list.io
      <3>1. main.irp \in Irps
        BY <1>4, WaitsForIrp DEF MainGetRequest, Cutting
      <3>2. Extent(FlushRequest(main.irp)) = {}
        BY <2>1, <2>3, <3>1, FlushShape DEF CutOp
      <3>3. \A x \in Underway : Apart(x, FlushRequest(main.irp))
        BY <3>2 DEF Apart
      <3>4. QED
        BY <1>2, <2>1, <2>3, <3>3
    <2>4. QED
      BY <2>2, <2>3
  <1>5. CASE IoDequeue
    <2>1. list.io # <<>> /\ list'.io = Tail(list.io) /\ list'.comp = list.comp /\ io'.req = Head(list.io) /\ io'.pc = "io"
      BY <1>5, RequestMovesEffect
    <2>2. Of(list.io) = Of(list'.io) \cup {Head(list.io)}
      BY <1>0, <2>1, OfTail
    <2>3. Separate(list'.io) /\ \A x \in Of(list'.io) : Apart(Head(list.io), x)
      BY <1>0, <2>1, SeparateTail
    <2>4. IoPart' = {Head(list.io)}
      BY <2>1 DEF IoPart
    <2>5. AllApart(IoPart', Of(list'.io)) /\ AllApart(Of(list'.comp), IoPart' \cup Of(list'.io))
      BY <1>0, <2>1, <2>2, <2>3, <2>4 DEF AllApart
    <2>6. QED
      BY SMTT(30), <1>0, <2>1, <2>3, <2>5 DEF SeparateInv, AllApart, Separate, Apart, Extent, Of
  <1>6. CASE IoFlush \/ IoWrite \/ IoRead
    <2>1. list'.io = list.io /\ list'.comp = list.comp /\ IoPart' \subseteq IoPart
      BY <1>6, RequestMovesEffect DEF IoPart
    <2>2. QED
      BY <1>0, <2>1 DEF SeparateInv, AllApart, Separate, Apart, Extent, Of
  <1>7. CASE IoReadQueue
    <2>1. list'.io = list.io /\ list'.comp = Append(list.comp, io.req) /\ io.req \in Requests
          /\ io.pc = "readDone" /\ io'.pc \notin {"io", "readDone"}
      BY <1>7, RequestMovesEffect
    <2>2. Of(list'.comp) = Of(list.comp) \cup {io.req} /\ IoPart = {io.req} /\ IoPart' = {}
      BY <1>0, <2>1, OfAppend DEF IoPart
    <2>3. Separate(list'.comp)
      BY <1>0, <2>1, <2>2, SeparateAppend DEF AllApart
    <2>4. AllApart(Of(list'.comp), IoPart' \cup Of(list'.io))
      BY <1>0, <2>1, <2>2 DEF AllApart
    <2>5. QED
      BY ZenonT(60), <1>0, <2>1, <2>2, <2>3, <2>4 DEF SeparateInv, AllApart, Separate, Apart, Extent, Of
  <1>8. CASE CompDecrypt
    <2>1. list.comp # <<>> /\ list'.io = list.io /\ list'.comp = Tail(list.comp) /\ UNCHANGED io
      BY <1>8, RequestMovesEffect
    <2>2. Of(list.comp) = Of(list'.comp) \cup {Head(list.comp)}
      BY <1>0, <2>1, OfTail
    <2>3. Separate(list'.comp)
      BY <1>0, <2>1, SeparateTail
    <2>4. QED
      <3>1. IoPart' = IoPart
        BY <2>1 DEF IoPart
      <3>2. AllApart(Of(list'.comp), IoPart \cup Of(list.io))
        BY <1>0, <2>2 DEF AllApart
      <3>3. QED
        BY <1>0, <1>a, <2>1, <2>3, <3>1, <3>2
  <1>9. QED
    BY <1>1, <1>3, <1>4, <1>5, <1>6, <1>7, <1>8 DEF MovesRequest

(* GetIntersection finds exactly what of a fragment lies in the area *)
LEMMA IntersectionExact ==
    ASSUME TypeOK, NEW off \in Nat, NEW len \in Nat, len > 0, off + len <= DiskLength
    PROVE  LET e == Intersection(off, len, store.start, store.end) IN
           /\ e.off \in Nat /\ e.len \in Nat /\ e.off + e.len <= len
           /\ (off + e.off) .. (off + e.off + e.len - 1) = (Sectors \cap (off .. (off + len - 1))) \cap Area
  <1> DEFINE start == store.start
             end == store.end
             first == IF off >= start THEN off ELSE start
             last == IF off + len - 1 <= end THEN off + len - 1 ELSE end
             e == Intersection(off, len, start, end)
             X == (Sectors \cap (off .. (off + len - 1))) \cap Area
  <1>a. start \in Int /\ end \in Int /\ start >= -1 /\ Area = IF start = -1 \/ end = -1 THEN {} ELSE start .. end
    BY QueueAssumption DEF TypeOK, StoreRecords, Sectors, Area
  <1> HIDE DEF start, end
  <1>0. first \in Int /\ last \in Int /\ first >= off /\ last <= off + len - 1 /\ DiskLength \in Nat
    BY <1>a, QueueAssumption
  <1>1. CASE start = -1 \/ end = -1 \/ first > last
    <2>1. e = [off |-> 0, len |-> 0]
      BY <1>1 DEF Intersection, start, end
    <2>2. X = {}
      BY <1>a, <1>1
    <2>3. e.off = 0 /\ e.len = 0
      BY <2>1
    <2> HIDE DEF e, X
    <2>4. (off + e.off) .. (off + e.off + e.len - 1) = X
      BY <2>2, <2>3
    <2>5. QED
      BY <2>3, <2>4 DEF e, X, start, end
  <1>2. CASE ~(start = -1 \/ end = -1 \/ first > last)
    <2>1. e = [off |-> first - off, len |-> last + 1 - first]
      BY <1>2 DEF Intersection, start, end
    <2>2. e.off = first - off /\ e.len = last + 1 - first
      BY <2>1
    <2>3. X = first .. last
      <3>1. \A x : x \in X <=> x \in first .. last
        BY <1>a, <1>0, <1>2 DEF Sectors
      <3>2. QED
        BY <3>1
    <2> HIDE DEF e, X, first, last
    <2>4. (off + e.off) .. (off + e.off + e.len - 1) = X
      BY <1>0, <2>2, <2>3
    <2>5. e.off \in Nat /\ e.len \in Nat /\ e.off + e.len <= len
      BY <1>0, <1>2, <2>2
    <2>6. QED
      BY <2>4, <2>5 DEF e, X, start, end
  <1>3. QED
    BY <1>1, <1>2

(* What the main thread cuts can be transferred: the dispatch has checked it *)
LEMMA TransfersWithin ==
    ASSUME TypeOK, NEW i \in Irps, Transfers(irp[i].op)
    PROVE  LET op == irp[i].op IN
           /\ op \in Ops /\ op.kind \in {"read", "write"} /\ op.aligned /\ op.len > 0
           /\ op.off \in Nat /\ op.len \in Nat /\ op.off + op.len <= DiskLength
  <1>1. irp[i].op \in Ops
    BY DEF TypeOK, IrpRecords, Unissued, Transfers
  <1>2. irp[i].op.off \in Nat /\ irp[i].op.len \in Nat /\ (IsFilterDevice => irp[i].op.off + irp[i].op.len <= DiskLength)
    BY <1>1, QueueAssumption
  <1>3. QED
    BY <1>1, <1>2, QueueAssumption DEF Transfers, Misaligned, Malformed

LEMMA NextRequestShape ==
    ASSUME TypeOK, Inv, PathInv, Cutting, CutOp.kind # "flush"
    PROVE  /\ NextRequest \in Requests
           /\ Shape(NextRequest) /\ NextRequest.off = main.off /\ NextRequest.len > 0
           /\ IF NextRequest.last THEN main.off + NextRequest.len = CutOp.off + CutOp.len
              ELSE NextRequest.len = FragmentSize /\ main.off + FragmentSize < CutOp.off + CutOp.len
           /\ NextRequest.irp = main.irp
  <1> DEFINE remaining == CutOp.off + CutOp.len - main.off
             len == IF remaining <= FragmentSize THEN remaining ELSE FragmentSize
             e == Intersection(main.off, len, store.start, store.end)
             r == NextRequest
             whole == remaining <= FragmentSize
  <1>1. main.irp \in Irps /\ CutOp.off \in Nat /\ CutOp.len \in Nat
    <2>1. main.irp \in Irps /\ CutOp \in Ops \cup {Unissued.op}
      BY WaitsForIrp DEF TypeOK, IrpRecords, CutOp
    <2>2. QED
      BY <2>1, QueueAssumption DEF Unissued
  <1>2. /\ CutOp.off + CutOp.len <= DiskLength
        /\ CutOp.off <= main.off /\ main.off < CutOp.off + CutOp.len
    BY DEF PathInv, CutInv
  <1>3. main.off \in Nat /\ FragmentSize \in Nat /\ FragmentSize > 0 /\ main.buf \in Buffers
        /\ store.start \in Int /\ store.end \in Int /\ store.start >= -1 /\ DiskLength \in Nat
    BY QueueAssumption DEF TypeOK, MainOK, MainRecords, StoreRecords, Sectors, Buffers
  <1>4. remaining \in Nat /\ remaining > 0 /\ len \in Nat /\ len > 0 /\ len <= remaining /\ main.off + len <= DiskLength
    BY <1>1, <1>2, <1>3
  <1>5. r = [irp |-> main.irp, off |-> main.off, len |-> len, buf |-> main.buf,
             encOff |-> e.off, encLen |-> e.len, last |-> whole]
    BY DEF NextRequest, CutOp
  <1>6. /\ e.off \in Nat /\ e.len \in Nat /\ e.off + e.len <= len
        /\ (main.off + e.off) .. (main.off + e.off + e.len - 1) = (Sectors \cap (main.off .. (main.off + len - 1))) \cap Area
    <2> HIDE DEF len, e
    <2>1. \A off, n \in Nat : n > 0 /\ off + n <= DiskLength =>
             LET x == Intersection(off, n, store.start, store.end) IN
             /\ x.off \in Nat /\ x.len \in Nat /\ x.off + x.len <= n
             /\ (off + x.off) .. (off + x.off + x.len - 1) = (Sectors \cap (off .. (off + n - 1))) \cap Area
      BY IntersectionExact
    <2>2. QED
      BY <1>3, <1>4, <2>1 DEF e
  <1>7. whole \in BOOLEAN /\ (~whole => len = FragmentSize /\ remaining > FragmentSize) /\ (whole => len = remaining)
    BY <1>1, <1>3
  <1> HIDE DEF len, e, r, whole
  <1>8. r.irp = main.irp /\ r.off = main.off /\ r.len = len /\ r.encOff = e.off /\ r.encLen = e.len
        /\ r.last = whole
    BY <1>5
  <1>9. r \in Requests
    BY <1>1, <1>3, <1>4, <1>5, <1>6, <1>7 DEF Requests
  <1>10. Enc(r) = Extent(r) \cap Area
    BY <1>6, <1>8 DEF Enc, Extent
  <1>11. Shape(r)
    BY <1>1, <1>2, <1>3, <1>4, <1>6, <1>8, <1>10 DEF Shape, CutOp
  <1>12. IF r.last THEN main.off + r.len = CutOp.off + CutOp.len
         ELSE r.len = FragmentSize /\ main.off + FragmentSize < CutOp.off + CutOp.len
    BY <1>1, <1>3, <1>4, <1>7, <1>8
  <1>13. QED
    BY <1>4, <1>8, <1>9, <1>11, <1>12 DEF r

LEMMA CutStep ==
    ASSUME TypeOK, Inv, PathInv, [Next]_vars
    PROVE  CutInv'
  <1>0. main \in MainRecords /\ FragmentSize \in Nat \ {0}
    BY QueueAssumption DEF TypeOK, MainOK
  <1>1. CASE ~MainCuts
    <2>1. CASE ~Cutting' \/ CutOp'.kind = "flush"
      BY <2>1 DEF CutInv
    <2>2. CASE Cutting' /\ CutOp'.kind # "flush"
      <3>1. Cutting /\ main'.irp = main.irp /\ main'.off = main.off
            /\ (main'.pc = "acquire" => main.pc = "acquire" /\ main'.req = main.req /\ main.req.irp = main.irp)
        BY <1>1, <2>2, OthersDoNotCut DEF Inv, Responsible, MainHasIrp
      <3>2. main.irp \in Irps /\ irp[main.irp].stage = "active" /\ CutOp' = CutOp
        BY <3>1, MainIrpFixed DEF Fixed, Inv, Responsible, MainHasIrp, CutOp
      <3>3. Area' = Area
        BY <3>2, AreaMoves
      <3>4. \A r \in Underway' : r \in Underway
        BY <1>1, Arrives DEF MainCuts
      <3>5. main'.pc = "acquire" => Shape(main.req)' = Shape(main.req)
        <4> SUFFICES ASSUME main'.pc = "acquire" PROVE Shape(main.req)' = Shape(main.req)
          OBVIOUS
        <4>1. main'.req = main.req /\ irp'[main.req.irp].op = irp[main.req.irp].op
          BY <3>1, <3>2 DEF CutOp
        <4>2. QED
          BY <3>3, <4>1 DEF Shape, Enc, Extent
      <3>6. QED
        BY <2>2, <3>1, <3>2, <3>4, <3>5 DEF PathInv, CutInv
    <2>3. QED
      BY <2>1, <2>2
  <1>2. CASE MainCuts
    <2>1. irp' = irp /\ UNCHANGED store /\ (Whole \/ Cutting)
      BY <1>2 DEF MainCuts, MainFlush, MainFragment, MainGetRequest, MainAcquire, FillAndQueue, Whole, Cutting
    <2>2. main.irp \in Irps /\ CutOp.off \in Nat /\ CutOp.len \in Nat
      BY <2>1, MainIrpFixed DEF CutOp
    <2>3. CASE MainFlush
      <3>1. CutOp'.kind = "flush"
        BY <1>0, <2>1, <2>3 DEF MainFlush, MainRecords, CutOp
      <3>2. QED
        BY <3>1 DEF CutInv
    <2>4. CASE MainFragment
      <3>1. main'.irp = main.irp /\ main'.pc = "getRequest" /\ main'.off = IF main.pc = "dispatch" THEN CutOp.off ELSE main.off
        BY <1>0, <2>4 DEF MainFragment, MainRecords, CutOp
      <3>2. \A r \in Underway' : r \in Underway
        BY <2>4, Arrives DEF MainFragment, MainAcquire, MainGetRequest
      <3>3. CutOp' = CutOp
        BY <2>1, <3>1 DEF CutOp
      <3>4. CASE main.pc = "dispatch"
        <4>1. /\ CutOp.kind \in {"read", "write"} /\ CutOp.aligned /\ CutOp.len > 0
              /\ CutOp.off + CutOp.len <= DiskLength
          BY <2>2, <2>4, <3>4, TransfersWithin DEF MainFragment, CutOp
        <4>2. \A r \in Underway : r.irp # main.irp
          BY <3>4 DEF Inv, Responsible, MainHasIrp, Whole, Underway, IoPart, Fragments, IoHas
        <4>3. QED
          BY <2>2, <3>1, <3>2, <3>3, <3>4, <4>1, <4>2 DEF CutInv
      <3>5. CASE main.pc = "fragment"
        BY <3>1, <3>2, <3>3, <3>5 DEF PathInv, CutInv, Cutting
      <3>6. QED
        BY <2>4, <3>4, <3>5 DEF MainFragment
    <2>5. CASE MainGetRequest /\ CutOp.kind = "flush"
      <3>1. ~Cutting'
        BY <1>0, <2>5 DEF MainGetRequest, Cutting, MainRecords, CutOp
      <3>2. QED
        BY <3>1 DEF CutInv
    <2>6. CASE MainGetRequest /\ CutOp.kind # "flush"
      <3>1. main'.irp = main.irp /\ main'.off = main.off /\ main'.req = NextRequest /\ Cutting
        BY <1>0, <2>6 DEF MainGetRequest, MainRecords, CutOp, Cutting
      <3>2. \A r \in Underway' : r \in Underway
        BY <2>6, Arrives DEF MainAcquire, MainGetRequest
      <3>3. CutOp' = CutOp
        BY <2>1, <3>1 DEF CutOp
      <3>4. /\ Shape(NextRequest) /\ NextRequest.off = main.off /\ NextRequest.len > 0
            /\ IF NextRequest.last THEN main.off + NextRequest.len = CutOp.off + CutOp.len
               ELSE NextRequest.len = FragmentSize /\ main.off + FragmentSize < CutOp.off + CutOp.len
        BY <2>6, <3>1, NextRequestShape
      <3>5. Shape(main.req)'
        <4> DEFINE q == NextRequest
        <4>1. Shape(q) /\ main'.req = q
          BY <3>1, <3>4
        <4> HIDE DEF q
        <4>2. QED
          BY <2>1, <4>1 DEF Shape, Enc, Extent, Area
      <3>6. QED
        BY <2>6, <3>1, <3>2, <3>3, <3>4, <3>5 DEF PathInv, CutInv
    <2>7. CASE MainAcquire
      <3>1. main.pc = "acquire" /\ main.req \in Requests /\ main.req.irp = main.irp /\ CutOp.kind # "flush" /\ Cutting
        BY <2>7, RequestMovesEffect DEF MainAcquire, Inv, Responsible, MainHasIrp, CutOp, Cutting
      <3>2. CASE main.req.last
        <4>1. ~Cutting'
          BY <1>0, <2>7, <3>2 DEF MainAcquire, FillAndQueue, Cutting, MainRecords
        <4>2. QED
          BY <4>1 DEF CutInv
      <3>3. CASE ~main.req.last
        <4>1. main'.irp = main.irp /\ main'.pc = "fragment" /\ main'.off = main.off + FragmentSize
          BY <1>0, <2>7, <3>3 DEF MainAcquire, FillAndQueue, MainRecords
        <4>2. CutOp' = CutOp
          BY <2>1, <4>1 DEF CutOp
        <4>3. /\ CutOp.kind \in {"read", "write"} /\ CutOp.aligned /\ CutOp.off + CutOp.len <= DiskLength
              /\ CutOp.off <= main.off /\ main.off < CutOp.off + CutOp.len
              /\ \A r \in Underway : r.irp = main.irp => r.off + r.len <= main.off
              /\ main.req.off = main.off /\ main.req.len = FragmentSize /\ main.off + FragmentSize < CutOp.off + CutOp.len
          BY <3>1, <3>3 DEF PathInv, CutInv
        <4>4. main.off \in Nat
          BY <1>0 DEF MainRecords
        <4>5. \A r \in Underway' : r.irp = main.irp => r.off + r.len <= main.off + FragmentSize
          <5> SUFFICES ASSUME NEW r \in Underway', r.irp = main.irp PROVE r.off + r.len <= main.off + FragmentSize
            OBVIOUS
          <5>1. CASE r \in Underway
            <6>1. r.off \in Int /\ r.len \in Int
              BY <5>1, UnderwayTypes DEF Requests
            <6>2. QED
              BY <1>0, <4>3, <4>4, <5>1, <6>1
          <5>2. CASE r = main.req
            BY <1>0, <4>3, <4>4, <5>2
          <5>3. QED
            BY <2>7, <5>1, <5>2, Arrives DEF MainAcquire, MainGetRequest
        <4>6. QED
          BY <1>0, <2>2, <4>1, <4>2, <4>3, <4>4, <4>5 DEF CutInv
      <3>4. QED
        BY <3>2, <3>3
    <2>8. QED
      BY <1>2, <2>3, <2>4, <2>5, <2>6, <2>7 DEF MainCuts
  <1>3. QED
    BY <1>1, <1>2

LEMMA InitPath == Init => PathInv
  <1> SUFFICES ASSUME Init PROVE PathInv
    OBVIOUS
  <1>1. list.io = <<>> /\ list.comp = <<>> /\ io.pc = "wait" /\ main.pc = "wait"
    BY DEF Init
  <1>2. Of(list.io) = {} /\ Of(list.comp) = {} /\ IoPart = {} /\ ~Cutting
    BY <1>1 DEF Of, IoPart, Cutting
  <1>3. Separate(list.io) /\ Separate(list.comp)
    BY <1>1 DEF Separate
  <1>4. QED
    BY <1>2, <1>3 DEF PathInv, SeparateInv, ShapeInv, CutInv, AllApart, Underway

LEMMA PathCorrect == Spec => []PathInv
  <1>1. TypeOK /\ Inv /\ PathInv /\ [Next]_vars => PathInv'
    BY SeparateStep, ShapeStep, CutStep DEF PathInv
  <1>2. QED
    BY <1>1, InitPath, TypeCorrect, Invariant, PTL DEF Spec

----------------------------------------------------------------------------
(* What the disk, the buffers and the holder of the queue contain *)

(* What a remapped area requires of the environment.  A device operation   *)
(* that can fail must not be split at the edge of the area, since the      *)
(* status of a split operation is that of its last part; and a misaligned  *)
(* read must not touch the area, since the main thread does not remap it.  *)
InitialArea == InitialStart .. InitialEnd
WholeOperations ==
    RemapOffset > 0 =>
        /\ \A op \in FaultyOps : LET S == op.off .. (op.off + op.len - 1)
                                 IN  op.kind \in {"read", "write"} => S \cap InitialArea = {} \/ S \subseteq InitialArea
        /\ \A op \in Ops : Misaligned(op) => (Sectors \cap (op.off .. (op.off + op.len))) \cap InitialArea = {}

(* The area is empty or proper, and does not move where it is remapped *)
AreaOK ==
    /\ \/ store.start = -1 /\ store.end = -1
       \/ store.start \in Sectors /\ store.end \in Sectors /\ store.start <= store.end
    /\ RemapOffset > 0 => store.start = InitialStart /\ store.end = InitialEnd

(* What was read ahead is what the disk holds *)
AheadOK ==
    buffer.aheadValid => \A k \in 1 .. Len(buffer.ahead) : buffer.ahead[k] = store.disk[buffer.aheadOff + k - 1]

(* The fragment buffer of a write holds what goes to the disk *)
Filled(r, c) == \A s \in Extent(r) : c[s] = Cell(r.irp, s, IF s \in Enc(r) THEN 1 ELSE 0)
FilledInv ==
    \A r \in Of(list.io) \cup IoIn :
        irp[r.irp].op.kind = "write" => r.buf \in FragmentBuffers /\ Filled(r, buffer.cells[r.buf])

(* The block that the holder is about to write back is the one on the disk *)
BlockOK ==
    /\ hold.pc \in {"encrypting", "decrypting"} => RemapOffset = 0
    /\ hold.pc = "encrypting" => NextBlock \in Sectors /\ hold.cell = AddLayers(store.disk[NextBlock], 1)
    /\ hold.pc = "decrypting" => Area # {} /\ hold.cell = AddLayers(store.disk[store.end], -1)

DiskOK == \A p \in PhysicalSectors : store.disk[p].writer # "garbage"
StoreInv == AreaOK /\ AheadOK /\ FilledInv /\ BlockOK /\ DiskOK

LEMMA ExtentWhole ==
    ASSUME NEW r \in Requests, r.off + r.len <= DiskLength
    PROVE  Extent(r) = r.off .. (r.off + r.len - 1)
  <1>1. r.off \in Nat /\ r.len \in Int /\ DiskLength \in Nat
    BY QueueAssumption DEF Requests
  <1>2. QED
    BY <1>1 DEF Extent, Sectors

(* The device operations of a request are its sectors, each at its place *)
LEMMA PiecesCover ==
    ASSUME NEW r \in Requests, r.off + r.len <= DiskLength, r.encOff + r.encLen <= r.len
    PROVE  /\ \A s \in Extent(r) : \E k \in Pieces(r) : s \in PieceSectors(r, k)
           /\ \A k \in Pieces(r) : \A s \in PieceSectors(r, k) :
                 s \in Extent(r) /\ s - Piece(r, k).off + Piece(r, k).at = DeviceSector(r, s)
  <1>1. /\ r.off \in Nat /\ r.len \in Int /\ r.encOff \in Nat /\ r.encLen \in Nat
        /\ DiskLength \in Nat /\ RemapOffset \in Nat
    BY QueueAssumption DEF Requests
  <1>2. Extent(r) = r.off .. (r.off + r.len - 1)
    BY ExtentWhole
  <1> DEFINE enc == r.off + r.encOff
  <1>3. CASE ~Remapped(r)
    <2>1. /\ Piece(r, 1).off = r.off /\ Piece(r, 1).at = r.off /\ Piece(r, 1).len = r.len
          /\ Piece(r, 2).len = 0 /\ Piece(r, 3).len = 0
      BY <1>3 DEF Piece
    <2>2. ASSUME NEW s \in Extent(r) PROVE 1 \in Pieces(r) /\ s \in PieceSectors(r, 1)
      BY SMTT(30), <1>1, <1>2, <2>1 DEF Pieces, PieceSectors
    <2>3. ASSUME NEW k \in Pieces(r), NEW s \in PieceSectors(r, k)
          PROVE  s \in Extent(r) /\ s - Piece(r, k).off + Piece(r, k).at = DeviceSector(r, s)
      <3>1. k = 1
        BY <2>1 DEF Pieces
      <3>2. QED
        BY <1>1, <1>2, <1>3, <2>1, <3>1 DEF PieceSectors, DeviceSector
    <2>4. QED
      BY <2>2, <2>3
  <1>4. CASE Remapped(r)
    <2>1. /\ Piece(r, 1).off = r.off /\ Piece(r, 1).at = r.off /\ Piece(r, 1).len = r.encOff
          /\ Piece(r, 2).off = enc /\ Piece(r, 2).at = enc + RemapOffset /\ Piece(r, 2).len = r.encLen
          /\ Piece(r, 3).off = enc + r.encLen /\ Piece(r, 3).at = enc + r.encLen /\ Piece(r, 3).len = r.len - r.encOff - r.encLen
      BY <1>4 DEF Piece
    <2>2. Enc(r) = enc .. (enc + r.encLen - 1)
      BY DEF Enc
    <2>3. ASSUME NEW s \in Extent(r) PROVE \E k \in Pieces(r) : s \in PieceSectors(r, k)
      <3>1. s \in Int /\ s >= r.off /\ s <= r.off + r.len - 1
        BY <1>1, <1>2
      <3>2. CASE s < enc
        <4>1. 1 \in Pieces(r) /\ s \in PieceSectors(r, 1)
          BY <1>1, <2>1, <3>1, <3>2 DEF Pieces, PieceSectors
        <4>2. QED
          BY <4>1
      <3>3. CASE s >= enc /\ s < enc + r.encLen
        <4>1. 2 \in Pieces(r) /\ s \in PieceSectors(r, 2)
          BY <1>1, <2>1, <3>1, <3>3 DEF Pieces, PieceSectors
        <4>2. QED
          BY <4>1
      <3>4. CASE s >= enc + r.encLen
        <4>1. 3 \in Pieces(r) /\ s \in PieceSectors(r, 3)
          BY <1>1, <2>1, <3>1, <3>4 DEF Pieces, PieceSectors
        <4>2. QED
          BY <4>1
      <3>5. QED
        BY <1>1, <3>1, <3>2, <3>3, <3>4
    <2>4. ASSUME NEW k \in Pieces(r), NEW s \in PieceSectors(r, k)
          PROVE  s \in Extent(r) /\ s - Piece(r, k).off + Piece(r, k).at = DeviceSector(r, s)
      <3>1. CASE k = 1
        <4>1. s \in r.off .. (r.off + r.encOff - 1)
          BY <2>1, <3>1 DEF PieceSectors
        <4>2. s \notin Enc(r) /\ s \in Extent(r)
          BY SMTT(30), <1>1, <1>2, <2>2, <4>1
        <4>3. DeviceSector(r, s) = s
          BY <4>2 DEF DeviceSector
        <4>4. QED
          BY <1>1, <2>1, <3>1, <4>1, <4>2, <4>3
      <3>2. CASE k = 2
        <4>1. s \in enc .. (enc + r.encLen - 1)
          BY <2>1, <3>2 DEF PieceSectors
        <4>2. s \in Enc(r) /\ s \in Extent(r)
          BY SMTT(30), <1>1, <1>2, <2>2, <4>1
        <4>3. DeviceSector(r, s) = s + RemapOffset
          BY <1>4, <4>2 DEF DeviceSector
        <4>4. QED
          BY <1>1, <2>1, <3>2, <4>1, <4>2, <4>3
      <3>3. CASE k = 3
        <4>1. s \in Int /\ enc + r.encLen <= s /\ s <= r.off + r.len - 1
          <5>1. s \in Piece(r, 3).off .. (Piece(r, 3).off + Piece(r, 3).len - 1)
            BY <3>3 DEF PieceSectors
          <5>2. QED
            BY <1>1, <2>1, <5>1
        <4>2. s \notin Enc(r) /\ s \in Extent(r)
          BY SMTT(30), <1>1, <1>2, <2>2, <4>1
        <4>3. DeviceSector(r, s) = s
          BY <4>2 DEF DeviceSector
        <4>4. QED
          BY <1>1, <2>1, <3>3, <4>1, <4>2, <4>3
      <3>4. QED
        BY <3>1, <3>2, <3>3 DEF Pieces
    <2>5. QED
      BY <2>3, <2>4
  <1>5. QED
    BY <1>3, <1>4

(* A request under way finds each of its sectors where the sector is *)
LEMMA DeviceLocation ==
    ASSUME TypeOK, NEW r \in Requests, Shape(r), NEW s \in Extent(r)
    PROVE  /\ DeviceSector(r, s) = Location(s)
           /\ s \in Enc(r) <=> s \in Area
  <1>1. s \in Int /\ RemapOffset \in Nat /\ r.off \in Nat /\ r.encOff \in Nat /\ r.encLen \in Nat
    BY QueueAssumption DEF Extent, Sectors, Requests
  <1>2. s \in Enc(r) <=> s \in Area
    BY DEF Shape
  <1>3. s \in Enc(r) => r.encLen > 0
    BY <1>1 DEF Enc
  <1>4. QED
    BY <1>1, <1>2, <1>3 DEF DeviceSector, Location, Remapped

(* The last part of an operation succeeds only if all of it does *)
LEMMA WholeTransfer ==
    ASSUME TypeOK, Inv, PathInv, AreaOK, WholeOperations, NEW r \in Underway,
           irp[r.irp].op.kind \in {"read", "write"},
           NEW done \in [Pieces(r) -> Outcomes(r.irp)], StatusOf(r, done) = "ok"
    PROVE  (\A k \in Pieces(r) : done[k]) /\ Transferred(r, done) = Extent(r)
  <1>1. r \in Requests /\ r.irp \in Irps /\ irp[r.irp] \in IrpRecords /\ Shape(r)
    BY UnderwayTypes DEF PathInv, ShapeInv
  <1>2. PICK last \in Pieces(r) : done[last] /\ \A j \in Pieces(r) : j <= last
    BY DEF StatusOf
  <1>3. \A k \in Pieces(r) : done[k]
    <2>1. CASE irp[r.irp].op \notin FaultyOps
      BY <2>1 DEF Outcomes
    <2>2. CASE ~Remapped(r)
      <3>1. Piece(r, 2).len = 0 /\ Piece(r, 3).len = 0
        BY <2>2 DEF Piece
      <3>2. \A k \in Pieces(r) : k = 1
        BY <3>1 DEF Pieces
      <3>3. QED
        BY <1>2, <3>2
    <2>3. CASE irp[r.irp].op \in FaultyOps /\ Remapped(r)
      <3> DEFINE op == irp[r.irp].op
                 S == op.off .. (op.off + op.len - 1)
      <3>1. /\ r.off \in Nat /\ r.len \in Int /\ r.encOff \in Nat /\ r.encLen \in Nat /\ r.encLen > 0
            /\ op.off \in Nat /\ op.len \in Nat
        BY <1>1, <2>3, QueueAssumption DEF Requests, Remapped
      <3>2. /\ op.off <= r.off /\ r.off + r.len <= op.off + op.len /\ r.encOff + r.encLen <= r.len
            /\ r.off + r.len <= DiskLength /\ Enc(r) = Extent(r) \cap Area
        BY <1>1 DEF Shape
      <3>3. Area \subseteq InitialArea /\ (InitialArea \cap Sectors) \subseteq Area
        BY <2>3, QueueAssumption DEF Remapped, AreaOK, Area, InitialArea, Sectors
      <3>4. r.off + r.encOff \in Enc(r)
        BY <3>1 DEF Enc
      <3>5. Extent(r) = r.off .. (r.off + r.len - 1) /\ Extent(r) \subseteq S
        <4>1. Extent(r) = r.off .. (r.off + r.len - 1)
          BY <1>1, <3>2, ExtentWhole
        <4>2. r.off .. (r.off + r.len - 1) \subseteq S
          BY <3>1, <3>2
        <4>3. QED
          BY <4>1, <4>2
      <3>6. r.off + r.encOff \in S \cap InitialArea
        BY <3>2, <3>3, <3>4, <3>5
      <3>7. S \subseteq InitialArea
        BY <2>3, <3>6 DEF WholeOperations, Remapped
      <3>8. Extent(r) \subseteq Enc(r)
        BY <3>2, <3>3, <3>5, <3>7 DEF Extent
      <3>9. r.off \in Enc(r) /\ r.off + r.len - 1 \in Enc(r)
        BY <3>1, <3>2, <3>5, <3>8
      <3>10. r.encOff = 0 /\ r.encLen = r.len
        BY <3>1, <3>2, <3>9 DEF Enc
      <3>11. Piece(r, 1).len = 0 /\ Piece(r, 3).len = 0
        BY <2>3, <3>1, <3>10 DEF Piece
      <3>12. \A k \in Pieces(r) : k = 2
        BY <3>11 DEF Pieces
      <3>13. QED
        BY <1>2, <3>12
    <2>4. QED
      BY <2>1, <2>2, <2>3
  <1>4. (\A s \in Extent(r) : \E k \in Pieces(r) : s \in PieceSectors(r, k))
        /\ \A k \in Pieces(r) : \A s \in PieceSectors(r, k) : s \in Extent(r)
    BY <1>1, PiecesCover DEF Shape
  <1>5. \A s : s \in Transferred(r, done) <=> s \in Extent(r)
    BY <1>3, <1>4 DEF Transferred
  <1>6. QED
    BY <1>3, <1>5

LEMMA InitStore == Init => StoreInv
  <1> SUFFICES ASSUME Init PROVE StoreInv
    OBVIOUS
  <1>1. AreaOK
    BY QueueAssumption DEF Init, AreaOK, Sectors
  <1>2. AheadOK /\ Of(list.io) = {} /\ IoIn = {} /\ hold.pc = "idle"
    BY DEF Init, AheadOK, Of, IoIn
  <1>3. DiskOK
    BY DEF Init, DiskOK, Cell
  <1>4. QED
    BY <1>1, <1>2, <1>3 DEF StoreInv, FilledInv, BlockOK

LEMMA AreaStep ==
    ASSUME TypeOK, StoreInv, [Next]_vars
    PROVE  AreaOK'
  <1>0. store \in StoreRecords /\ DiskLength \in Nat \ {0}
    BY QueueAssumption DEF TypeOK
  <1>1. CASE ~HeldWrite
    <2>1. store'.start = store.start /\ store'.end = store.end
      <3>1. CASE IoWrite
        BY <1>0, <3>1 DEF IoWrite, DeviceWrite, StoreRecords
      <3>2. CASE HeldRead
        BY <3>2 DEF HeldRead
      <3>3. QED
        BY <1>1, <3>1, <3>2, OthersKeepDisk DEF TouchesDisk
    <2>2. QED
      BY <2>1 DEF StoreInv, AreaOK
  <1>2. CASE HeldWrite /\ hold.pc = "encrypting"
    <2>1. store'.end = NextBlock /\ store'.start = IF Area = {} THEN 0 ELSE store.start
      BY <1>0, <1>2 DEF HeldWrite, StoreRecords
    <2>2. RemapOffset = 0 /\ NextBlock \in Sectors
      BY <1>2 DEF StoreInv, BlockOK
    <2>3. CASE Area = {}
      BY <1>0, <2>1, <2>2, <2>3 DEF NextBlock, AreaOK, Sectors
    <2>4. CASE Area # {}
      <3>1. store.start \in Sectors /\ store.end \in Sectors /\ store.start <= store.end
        BY <2>4 DEF Area, StoreInv, AreaOK
      <3>2. QED
        BY <1>0, <2>1, <2>2, <2>4, <3>1 DEF NextBlock, AreaOK, Sectors
    <2>5. QED
      BY <2>3, <2>4
  <1>3. CASE HeldWrite /\ hold.pc = "decrypting"
    <2>1. /\ store'.end = (IF store.end = store.start THEN -1 ELSE store.end - 1)
          /\ store'.start = (IF store.start = store.end THEN -1 ELSE store.start)
      BY <1>0, <1>3 DEF HeldWrite, StoreRecords
    <2>2. RemapOffset = 0 /\ Area # {}
      BY <1>3 DEF StoreInv, BlockOK
    <2>3. store.start \in Sectors /\ store.end \in Sectors /\ store.start <= store.end
      BY <2>2 DEF Area, StoreInv, AreaOK
    <2>4. QED
      BY <1>0, <2>1, <2>2, <2>3 DEF AreaOK, Sectors
  <1>4. QED
    BY <1>1, <1>2, <1>3 DEF HeldWrite

(* The steps that change what is read ahead *)
LEMMA OthersKeepAhead ==
    ASSUME TypeOK, [Next]_vars, ~IoWrite, ~IoReadAhead, ~HoldGrant
    PROVE  buffer'.aheadValid = buffer.aheadValid /\ buffer'.aheadOff = buffer.aheadOff /\ buffer'.ahead = buffer.ahead
  <1>0. buffer \in BufferRecords
    BY DEF TypeOK
  <1>1. CASE MainAcquire
    BY <1>0, <1>1 DEF MainAcquire, FillAndQueue, BufferRecords
  <1>2. CASE IoRead
    BY <1>0, <1>2 DEF IoRead, ReleaseFragment, BufferRecords
  <1>3. CASE ~MainAcquire /\ ~IoRead
    <2>1. UNCHANGED buffer
      BY <1>3 DEF Next, AddIrp, AddIrpCount, AddIrpEnqueue, AddIrpRefuse, AddIrpRefuseSignal,
                  CompleteIrpWorkItemRoutine, WorkCount, WorkSignal, WorkCompleteIrp, WorkLeave, WorkReturn,
                  MainThreadProc, MainWait, MainIdle, MainDequeue, MainSuspendCheck, MainResumed, MainGetItem,
                  MainPoolEmpty, MainPoolWait, MainReject, MainDeny, MainMisaligned, MainFlush, MainComplete,
                  MainFragment, MainGetRequest,
                  IoThreadProc, IoWait, IoIdle, IoDequeue, IoFlush, IoReadQueue,
                  IoReadAheadDone, IoSignal, IoComplete, IoRelease,
                  CompletionThreadProc, CompWait, CompIdle, CompDecrypt, CompComplete, CompRelease,
                  Caller, EncryptedIoQueueHoldWhenIdle, HoldBegin, HoldCheck, HoldWait, HoldFail, HoldRecheck,
                  HoldClear, HoldSuspend, HoldUndo, HeldRead, HeldWrite, EncryptedIoQueueResumeFromHold,
                  EncryptedIoQueueStop, StopBegin, StopWait, StopThreads, StopFree, vars
    <2>2. QED
      BY <2>1
  <1>4. QED
    BY <1>1, <1>2, <1>3

LEMMA AheadStep ==
    ASSUME TypeOK, Inv, StoreInv, [Next]_vars
    PROVE  AheadOK'
  <1>0. buffer \in BufferRecords
    BY DEF TypeOK
  <1>1. CASE IoWrite \/ HoldGrant
    <2>1. CASE HoldGrant
      <3>1. buffer' = [buffer EXCEPT !.aheadValid = FALSE, !.ahead = <<>>]
        BY <2>1 DEF HoldGrant, Grant
      <3>2. buffer'.aheadValid = FALSE
        BY <1>0, <3>1 DEF BufferRecords
      <3>3. QED
        BY <3>2 DEF AheadOK
    <2>2. CASE IoWrite
      <3> DEFINE x == ReleaseFragment(io.req.buf)
      <3>1. x \in BufferRecords
        BY ReleaseFragmentType
      <3>2. buffer' = [x EXCEPT !.aheadValid = FALSE, !.ahead = <<>>]
        BY <2>2 DEF IoWrite
      <3> HIDE DEF x
      <3>3. buffer'.aheadValid = FALSE
        BY <3>1, <3>2 DEF BufferRecords
      <3>4. QED
        BY <3>3 DEF AheadOK
    <2>3. QED
      BY <1>1, <2>1, <2>2
  <1>2. CASE IoReadAhead
    <2> DEFINE p == LastPiece(io.req)
               off == p.at + p.len
    <2>1. UNCHANGED store
      BY <1>2 DEF IoReadAhead
    <2>2. \/ buffer' = [buffer EXCEPT !.aheadValid = TRUE, !.aheadOff = off, !.ahead = [k \in 1 .. p.len |-> store.disk[off + k - 1]]]
          \/ buffer' = [buffer EXCEPT !.aheadValid = FALSE, !.ahead = <<>>]
      BY <1>2, Zenon DEF IoReadAhead
    <2> HIDE DEF p, off
    <2>3. CASE buffer' = [buffer EXCEPT !.aheadValid = FALSE, !.ahead = <<>>]
      <3>1. buffer'.aheadValid = FALSE
        BY <1>0, <2>3 DEF BufferRecords
      <3>2. QED
        BY <3>1 DEF AheadOK
    <2>4. CASE buffer' = [buffer EXCEPT !.aheadValid = TRUE, !.aheadOff = off, !.ahead = [k \in 1 .. p.len |-> store.disk[off + k - 1]]]
      <3> DEFINE q == [k \in 1 .. p.len |-> store.disk[off + k - 1]]
      <3>1. buffer'.ahead = q /\ buffer'.aheadOff = off
        BY <1>0, <2>4 DEF BufferRecords
      <3>2. q \in Seq(Cells)
        BY <1>2, <3>1, IoReadAheadType DEF TypeOK, BufferRecords
      <3>3. \A k \in 1 .. Len(q) : q[k] = store.disk[off + k - 1]
        <4>1. \A k \in DOMAIN q : q[k] = store.disk[off + k - 1]
          OBVIOUS
        <4> HIDE DEF q
        <4>2. DOMAIN q = 1 .. Len(q)
          BY <3>2
        <4>3. QED
          BY <4>1, <4>2
      <3>4. QED
        BY <2>1, <3>1, <3>3 DEF AheadOK
    <2>5. QED
      BY <2>2, <2>3, <2>4
  <1>3. CASE HeldWrite
    <2>1. ~buffer.aheadValid /\ UNCHANGED buffer
      BY <1>3 DEF HeldWrite, Held, Inv, HoldInv
    <2>2. QED
      BY <2>1 DEF AheadOK
  <1>4. CASE ~IoWrite /\ ~HoldGrant /\ ~IoReadAhead /\ ~HeldWrite
    <2>1. store'.disk = store.disk
      <3>1. CASE HeldRead
        BY <3>1 DEF HeldRead
      <3>2. QED
        BY <1>4, <3>1, OthersKeepDisk DEF TouchesDisk
    <2>2. QED
      BY <1>4, <2>1, OthersKeepAhead DEF StoreInv, AheadOK
  <1>5. QED
    BY <1>1, <1>2, <1>3, <1>4

LEMMA FilledStep ==
    ASSUME TypeOK, Inv, BufferInv, StoreInv, [Next]_vars
    PROVE  FilledInv'
  <1> SUFFICES ASSUME NEW r \in (Of(list.io) \cup IoIn)', irp'[r.irp].op.kind = "write"
               PROVE  r.buf \in FragmentBuffers /\ Filled(r, buffer'.cells[r.buf])
    BY DEF FilledInv, Filled, Extent, Enc
  <1>0. buffer \in BufferRecords /\ list.io \in Seq(Requests)
    BY ListFields DEF TypeOK
  <1>1. CASE r \in Of(list.io) \cup IoIn
    <2>1. irp[r.irp].op.kind = "write"
      BY <1>1, WaitingFixed DEF Fixed
    <2>2. r.buf \in FragmentBuffers /\ Filled(r, buffer.cells[r.buf])
      BY <1>1, <2>1 DEF StoreInv, FilledInv
    <2>3. CASE MainAcquire
      <3>1. buffer.free[main.req.buf] /\ main.req.buf \in FragmentBuffers
        BY <2>3 DEF MainAcquire, BufferInv
      <3>2. r.buf # main.req.buf
        BY <1>1, <2>2, <3>1 DEF BufferInv, Owned, Of
      <3>3. buffer'.cells[r.buf] = buffer.cells[r.buf]
        BY <1>0, <2>2, <2>3, <3>2 DEF MainAcquire, FillAndQueue, BufferRecords, Buffers
      <3>4. QED
        BY <2>2, <3>3
    <2>4. CASE IoWrite \/ IoRead
      <3>1. IoIn' = {} /\ list' = list /\ io.pc = "io"
        BY <2>4 DEF IoWrite, IoRead, TypeOK, IoOK, IoRecords, IoIn
      <3>2. r \in Of(list.io)
        BY <3>1 DEF Of
      <3>3. r.buf # io.req.buf
        <4>1. io.req \in IoIn
          BY <3>1 DEF IoIn
        <4>2. QED
          BY <2>2, <3>2, <4>1, Zenon DEF BufferInv, Owned, Of
      <3>4. buffer'.cells[r.buf] = buffer.cells[r.buf]
        BY ZenonT(60), <1>0, <2>2, <2>4, <3>3 DEF IoWrite, IoRead, ReleaseFragment, BufferRecords, Buffers
      <3>5. QED
        BY <2>2, <3>4
    <2>5. CASE ~(MainAcquire \/ IoWrite \/ IoRead)
      <3>1. buffer'.cells = buffer.cells
        <4>1. CASE IoFlush
          BY <4>1 DEF IoFlush
        <4>2. CASE ~IoFlush
          BY <2>5, <4>2, OthersKeepRequests, RequestMovesEffect DEF MovesRequest
        <4>3. QED
          BY <4>1, <4>2
      <3>2. QED
        BY <2>2, <3>1
    <2>6. QED
      BY <2>3, <2>4, <2>5
  <1>2. CASE MainAcquire /\ r = main.req
    <2>1. r.buf \in FragmentBuffers /\ r \in Requests /\ UNCHANGED irp
      BY <1>2, RequestMovesEffect DEF MainAcquire, BufferInv
    <2>2. buffer'.cells[r.buf] = [s \in Sectors |->
                                   IF s \in Extent(r) /\ irp[r.irp].op.kind = "write"
                                   THEN Cell(r.irp, s, IF s \in Enc(r) THEN 1 ELSE 0) ELSE buffer.cells[r.buf][s]]
      BY <1>0, <1>2, <2>1 DEF MainAcquire, FillAndQueue, BufferRecords, Buffers
    <2>3. Extent(r) \subseteq Sectors
      BY DEF Extent
    <2>4. QED
      BY <2>1, <2>2, <2>3 DEF Filled
  <1>3. CASE MainGetRequest /\ irp[r.irp].op.kind = "flush"
    BY <1>3 DEF MainGetRequest
  <1>4. QED
    BY <1>1, <1>2, <1>3, QueuedFrom

LEMMA BlockStep ==
    ASSUME TypeOK, Inv, StoreInv, [Next]_vars
    PROVE  BlockOK'
  <1>0. store \in StoreRecords /\ hold \in HoldRecords
    BY DEF TypeOK, HoldOK
  <1>1. CASE IoWrite
    <2>1. ~Held
      <3>1. io.req \in Fragments
        BY <1>1 DEF IoWrite, Fragments, IoHas
      <3>2. irp[io.req.irp].stage = "active" /\ io.req.irp \in Irps
        BY <3>1, FragmentTypes DEF Inv, Responsible, NoFragmentOutlivesIrp
      <3>3. QED
        BY <3>2 DEF Inv, HoldInv
    <2>2. UNCHANGED hold
      BY <1>1 DEF IoWrite
    <2>3. QED
      BY <2>1, <2>2 DEF Held, BlockOK
  <1>2. CASE HeldRead
    <2>1. UNCHANGED store /\ RemapOffset = 0
      BY <1>2 DEF HeldRead
    <2>2. CASE NextBlock < DiskLength /\ hold' = [hold EXCEPT !.pc = "encrypting", !.cell = AddLayers(store.disk[NextBlock], 1)]
      <3>1. hold'.pc = "encrypting" /\ hold'.cell = AddLayers(store.disk[NextBlock], 1)
        BY <1>0, <2>2 DEF HoldRecords
      <3>2. NextBlock \in Sectors
        BY <1>0, <2>2, QueueAssumption DEF NextBlock, StoreRecords, Sectors
      <3>3. QED
        BY <2>1, <3>1, <3>2 DEF BlockOK, NextBlock, Area
    <2>3. CASE Area # {} /\ hold' = [hold EXCEPT !.pc = "decrypting", !.cell = AddLayers(store.disk[store.end], -1)]
      <3>1. hold'.pc = "decrypting" /\ hold'.cell = AddLayers(store.disk[store.end], -1)
        BY <1>0, <2>3 DEF HoldRecords
      <3>2. QED
        BY <2>1, <2>3, <3>1 DEF BlockOK, NextBlock, Area
    <2>4. QED
      BY <1>2, <2>2, <2>3 DEF HeldRead
  <1>3. CASE HeldWrite
    <2>1. hold'.pc = "moved"
      BY <1>0, <1>3 DEF HeldWrite, HoldRecords
    <2>2. QED
      BY <2>1 DEF BlockOK
  <1>4. CASE ~TouchesDisk
    BY <1>4, OthersKeepDisk DEF StoreInv, BlockOK, NextBlock, Area
  <1>5. QED
    BY <1>1, <1>2, <1>3, <1>4 DEF TouchesDisk

LEMMA DiskStep ==
    ASSUME TypeOK, Inv, StoreInv, [Next]_vars
    PROVE  DiskOK'
  <1> SUFFICES ASSUME NEW p \in PhysicalSectors PROVE store'.disk[p].writer # "garbage"
    BY DEF DiskOK
  <1>0. store \in StoreRecords /\ store.disk[p] \in Cells /\ store.disk[p].writer # "garbage"
    BY DEF TypeOK, StoreRecords, StoreInv, DiskOK
  <1>1. CASE store'.disk = store.disk
    BY <1>0, <1>1
  <1>2. CASE IoWrite /\ store' # store
    <2>1. PICK W \in SUBSET Extent(io.req) :
               store' = [store EXCEPT !.disk = [q \in PhysicalSectors |->
                            IF \E x \in W : DeviceSector(io.req, x) = q
                            THEN buffer.cells[io.req.buf][CHOOSE x \in W : DeviceSector(io.req, x) = q] ELSE @[q]]]
      BY <1>2, Zenon DEF IoWrite, DeviceWrite
    <2>2. store'.disk[p] = IF \E x \in W : DeviceSector(io.req, x) = p
                           THEN buffer.cells[io.req.buf][CHOOSE x \in W : DeviceSector(io.req, x) = p] ELSE store.disk[p]
      BY <1>0, <2>1 DEF StoreRecords
    <2>3. CASE \E x \in W : DeviceSector(io.req, x) = p
      <3>1. PICK x \in W : x = (CHOOSE y \in W : DeviceSector(io.req, y) = p)
        BY <2>3
      <3>2. io.req \in IoIn /\ irp[io.req.irp].op.kind = "write" /\ io.req \in Requests
        BY <1>2 DEF IoWrite, IoIn, TypeOK, IoOK
      <3>3. buffer.cells[io.req.buf][x] = Cell(io.req.irp, x, IF x \in Enc(io.req) THEN 1 ELSE 0)
        BY <3>2 DEF StoreInv, FilledInv, Filled
      <3>4. store'.disk[p].writer = io.req.irp
        BY <2>2, <2>3, <3>1, <3>3 DEF Cell
      <3>5. io.req.irp \in Irps /\ "garbage" \notin Irps
        BY <3>2, QueueAssumption DEF Requests
      <3>6. QED
        BY <3>4, <3>5
    <2>4. QED
      BY <1>0, <2>2, <2>3
  <1>3. CASE HeldWrite
    <2>1. CASE hold.pc = "encrypting"
      <3>1. store'.disk = [store.disk EXCEPT ![NextBlock] = AddLayers(store.disk[NextBlock], 1)]
        BY <1>0, <1>3, <2>1 DEF HeldWrite, StoreInv, BlockOK, StoreRecords
      <3>2. AddLayers(store.disk[p], 1).writer = store.disk[p].writer
        BY <1>0, LayersKeepWriter
      <3>3. store'.disk[p] = store.disk[p] \/ store'.disk[p] = AddLayers(store.disk[p], 1)
        BY <1>0, <3>1 DEF StoreRecords
      <3>4. QED
        BY <1>0, <3>2, <3>3
    <2>2. CASE hold.pc = "decrypting"
      <3>1. store'.disk = [store.disk EXCEPT ![store.end] = AddLayers(store.disk[store.end], -1)]
        BY <1>0, <1>3, <2>2 DEF HeldWrite, StoreInv, BlockOK, StoreRecords
      <3>2. AddLayers(store.disk[p], -1).writer = store.disk[p].writer
        BY <1>0, LayersKeepWriter
      <3>3. store'.disk[p] = store.disk[p] \/ store'.disk[p] = AddLayers(store.disk[p], -1)
        BY <1>0, <3>1 DEF StoreRecords
      <3>4. QED
        BY <1>0, <3>2, <3>3
    <2>3. QED
      BY <1>3, <2>1, <2>2 DEF HeldWrite
  <1>4. CASE HeldRead
    BY <1>1, <1>4 DEF HeldRead
  <1>5. QED
    BY <1>1, <1>2, <1>3, <1>4, OthersKeepDisk DEF TouchesDisk

LEMMA StoreCorrect == Spec => [](BufferInv /\ StoreInv)
  <1>1. TypeOK /\ Inv /\ BufferInv /\ StoreInv /\ [Next]_vars => StoreInv'
    BY AreaStep, AheadStep, FilledStep, BlockStep, DiskStep DEF StoreInv
  <1>2. QED
    BY <1>1, InitBuffers, InitStore, BufferStep, TypeCorrect, Invariant, PTL DEF Spec

----------------------------------------------------------------------------
(* What a transfer does to its IRP and the disk *)

LEMMA WriteEffect ==
    ASSUME TypeOK, Inv, PathInv, StoreInv, WholeOperations, IoWrite, irp[io.req.irp].status = "ok"
    PROVE  \E W \in SUBSET Extent(io.req) :
              /\ \A j \in Irps : j # io.req.irp => irp'[j] = irp[j]
              /\ irp'[io.req.irp].stage = irp[io.req.irp].stage /\ irp'[io.req.irp].op = irp[io.req.irp].op
              /\ irp'[io.req.irp].data = irp[io.req.irp].data
              /\ irp'[io.req.irp].todo = irp[io.req.irp].todo \ W
              /\ irp'[io.req.irp].status \in {"ok", "failed"}
              /\ irp'[io.req.irp].status = "ok" => W = Extent(io.req)
              /\ \A s \in W : store'.disk[Location(s)] = Cell(io.req.irp, s, IF s \in Area THEN 1 ELSE 0)
              /\ \A s \in Sectors \ W : store'.disk[Location(s)] = store.disk[Location(s)]
              /\ store'.start = store.start /\ store'.end = store.end
  <1> DEFINE r == io.req
             i == r.irp
  <1>1. r \in Underway /\ r \in IoIn /\ r \in Requests /\ i \in Irps /\ irp[i] \in IrpRecords /\ Shape(r)
    <2>1. r \in Underway /\ r \in IoIn
      BY DEF IoWrite, Underway, IoPart, IoIn
    <2>2. QED
      BY <2>1, UnderwayTypes DEF PathInv, ShapeInv
  <1>2. irp \in [Irps -> IrpRecords] /\ store \in StoreRecords /\ irp[i].op.kind = "write"
    BY DEF TypeOK, IoWrite
  <1>3. PICK done \in [Pieces(r) -> Outcomes(i)], W \in SUBSET Extent(r) :
           /\ (\A k \in Pieces(r) : done[k]) => W = Transferred(r, done)
           /\ store' = [store EXCEPT !.disk = [p \in PhysicalSectors |->
                            IF \E s \in W : DeviceSector(r, s) = p
                            THEN buffer.cells[r.buf][CHOOSE s \in W : DeviceSector(r, s) = p] ELSE store.disk[p]]]
           /\ irp' = [irp EXCEPT ![i].todo = @ \ W, ![i].status = StatusOf(r, done)]
    BY DEF IoWrite, DeviceWrite
  <1>4. StatusOf(r, done) \in {"ok", "failed"} /\ (StatusOf(r, done) = "ok" => W = Extent(r))
    <2>1. StatusOf(r, done) = "ok" => W = Extent(r)
      BY <1>1, <1>2, <1>3, WholeTransfer DEF StoreInv
    <2>2. QED
      BY <2>1 DEF StatusOf
  <1>5. PICK status \in {"ok", "failed"} : status = StatusOf(r, done)
    BY <1>4
  <1>6. PICK todo : todo = irp[i].todo \ W
    OBVIOUS
  <1>7. irp' = [irp EXCEPT ![i] = [irp[i] EXCEPT !.todo = todo, !.status = status]]
    BY <1>3, <1>5, <1>6
  <1> DEFINE x == [irp[i] EXCEPT !.todo = todo, !.status = status]
  <1>8. x.stage = irp[i].stage /\ x.op = irp[i].op /\ x.data = irp[i].data /\ x.todo = todo /\ x.status = status
    BY <1>1 DEF IrpRecords
  <1> HIDE DEF x
  <1>9. irp'[i] = x /\ \A j \in Irps : j # i => irp'[j] = irp[j]
    BY <1>1, <1>2, <1>7 DEF x
  <1>10. /\ store'.start = store.start /\ store'.end = store.end
         /\ \A p \in PhysicalSectors : store'.disk[p] = IF \E s \in W : DeviceSector(r, s) = p
                            THEN buffer.cells[r.buf][CHOOSE s \in W : DeviceSector(r, s) = p] ELSE store.disk[p]
    BY <1>2, <1>3 DEF StoreRecords
  <1>11. \A s \in W : s \in Sectors /\ DeviceSector(r, s) = Location(s) /\ (s \in Enc(r) <=> s \in Area)
    BY <1>1, DeviceLocation DEF Extent
  <1>12. ASSUME NEW s \in W PROVE store'.disk[Location(s)] = Cell(i, s, IF s \in Area THEN 1 ELSE 0)
    <2>1. PICK y \in W : y = (CHOOSE z \in W : DeviceSector(r, z) = Location(s)) /\ DeviceSector(r, y) = Location(s)
      BY <1>11
    <2>2. y = s
      BY <1>1, <1>11, <2>1, SectorsApart
    <2>3. Location(s) \in PhysicalSectors
      BY <1>11, LocationOnDisk
    <2>4. store'.disk[Location(s)] = buffer.cells[r.buf][s]
      BY <1>10, <1>11, <2>1, <2>2, <2>3
    <2>5. buffer.cells[r.buf][s] = Cell(i, s, IF s \in Enc(r) THEN 1 ELSE 0)
      BY <1>1, <1>2 DEF StoreInv, FilledInv, Filled
    <2>6. QED
      BY <1>11, <2>4, <2>5
  <1>13. ASSUME NEW s \in Sectors \ W PROVE store'.disk[Location(s)] = store.disk[Location(s)]
    <2>1. \A y \in W : DeviceSector(r, y) # Location(s)
      BY <1>1, <1>11, SectorsApart
    <2>2. Location(s) \in PhysicalSectors
      BY LocationOnDisk
    <2>3. QED
      BY <1>10, <2>1, <2>2
  <1>14. QED
    BY <1>3, <1>4, <1>5, <1>6, <1>8, <1>9, <1>10, <1>12, <1>13

LEMMA ReadCell ==
    ASSUME TypeOK, AheadOK, NEW r \in Requests, Shape(r), NEW k \in Pieces(r), NEW s \in PieceSectors(r, k)
    PROVE  CachedCell(Piece(r, k), s) = store.disk[Location(s)]
  <1> DEFINE p == Piece(r, k)
  <1>1. s \in Extent(r) /\ s - p.off + p.at = Location(s)
    BY PiecesCover, DeviceLocation DEF Shape
  <1>2. p.off \in Int /\ p.len \in Int /\ p.at \in Int
    <2>1. r.off \in Int /\ r.len \in Int /\ r.encOff \in Int /\ r.encLen \in Int /\ RemapOffset \in Int
      BY QueueAssumption DEF Requests
    <2>2. QED
      BY <2>1 DEF Piece
  <1>3. s \in p.off .. (p.off + p.len - 1)
    BY DEF PieceSectors
  <1> HIDE DEF p
  <1>4. CASE buffer.aheadValid /\ buffer.aheadOff = p.at /\ Len(buffer.ahead) >= p.len
    <2>1. Len(buffer.ahead) \in Nat
      BY DEF TypeOK, BufferRecords
    <2>2. s - p.off + 1 \in 1 .. Len(buffer.ahead)
      BY <1>2, <1>3, <1>4, <2>1
    <2>3. buffer.ahead[s - p.off + 1] = store.disk[p.at + (s - p.off + 1) - 1]
      BY <1>4, <2>2 DEF AheadOK
    <2>4. p.at + (s - p.off + 1) - 1 = s - p.off + p.at
      BY <1>2, <1>3
    <2>5. QED
      BY <1>1, <1>4, <2>3, <2>4 DEF CachedCell, p
  <1>5. CASE ~(buffer.aheadValid /\ buffer.aheadOff = p.at /\ Len(buffer.ahead) >= p.len)
    BY <1>1, <1>5 DEF CachedCell, p
  <1>6. QED
    BY <1>4, <1>5

LEMMA ReadEffect ==
    ASSUME TypeOK, Inv, PathInv, StoreInv, WholeOperations, IoRead, irp[io.req.irp].status = "ok"
    PROVE  /\ \A j \in Irps : j # io.req.irp => irp'[j] = irp[j]
           /\ irp'[io.req.irp].stage = irp[io.req.irp].stage /\ irp'[io.req.irp].op = irp[io.req.irp].op
           /\ \/ irp'[io.req.irp].status = "failed"
              \/ /\ irp'[io.req.irp].status = "ok"
                 /\ irp'[io.req.irp].todo = irp[io.req.irp].todo \ Extent(io.req)
                 /\ \A s \in Extent(io.req) : irp'[io.req.irp].data[s] = store.disk[Location(s)]
                 /\ \A s \in Sectors \ Extent(io.req) : irp'[io.req.irp].data[s] = irp[io.req.irp].data[s]
  <1> DEFINE r == io.req
             i == r.irp
  <1>1. r \in Underway /\ r \in Requests /\ i \in Irps /\ irp[i] \in IrpRecords /\ Shape(r)
    <2>1. r \in Underway
      BY DEF IoRead, Underway, IoPart
    <2>2. QED
      BY <2>1, UnderwayTypes DEF PathInv, ShapeInv
  <1>2. irp \in [Irps -> IrpRecords] /\ irp[i].op.kind = "read"
    BY DEF TypeOK, IoRead
  <1>3. PICK done \in [Pieces(r) -> Outcomes(i)] :
              irp' = IF StatusOf(r, done) # "ok"
                     THEN [irp EXCEPT ![i].status = "failed"]
                     ELSE [irp EXCEPT ![i].todo = @ \ Transferred(r, done),
                                      ![i].data = [s \in Sectors |->
                                         IF s \notin Extent(r) THEN @[s]
                                         ELSE IF s \notin Transferred(r, done) THEN Garbage
                                         ELSE CachedCell(Piece(r, CHOOSE k \in Pieces(r) : s \in PieceSectors(r, k)), s)]]
    BY DEF IoRead, DeviceRead
  <1>4. CASE StatusOf(r, done) # "ok"
    <2>1. irp' = [irp EXCEPT ![i].status = "failed"]
      BY <1>3, <1>4
    <2>2. QED
      BY <1>1, <1>2, <2>1 DEF IrpRecords
  <1>5. CASE StatusOf(r, done) = "ok"
    <2> DEFINE data == [s \in Sectors |->
                          IF s \notin Extent(r) THEN irp[i].data[s]
                          ELSE IF s \notin Transferred(r, done) THEN Garbage
                          ELSE CachedCell(Piece(r, CHOOSE k \in Pieces(r) : s \in PieceSectors(r, k)), s)]
               todo == irp[i].todo \ Transferred(r, done)
    <2>1. irp' = [irp EXCEPT ![i] = [irp[i] EXCEPT !.todo = todo, !.data = data]]
      BY <1>3, <1>5
    <2>2. Transferred(r, done) = Extent(r)
      BY <1>1, <1>2, <1>5, WholeTransfer DEF StoreInv
    <2>3. ASSUME NEW s \in Extent(r) PROVE data[s] = store.disk[Location(s)]
      <3>1. \E k \in Pieces(r) : s \in PieceSectors(r, k)
        BY <1>1, PiecesCover DEF Shape
      <3>2. PICK k \in Pieces(r) : k = (CHOOSE j \in Pieces(r) : s \in PieceSectors(r, j)) /\ s \in PieceSectors(r, k)
        BY <3>1
      <3>3. CachedCell(Piece(r, k), s) = store.disk[Location(s)]
        BY <1>1, <3>2, ReadCell DEF StoreInv
      <3>4. s \in Sectors
        BY DEF Extent
      <3>5. QED
        BY <2>2, <3>2, <3>3, <3>4
    <2>4. ASSUME NEW s \in Sectors \ Extent(r) PROVE data[s] = irp[i].data[s]
      OBVIOUS
    <2> HIDE DEF data, todo
    <2> DEFINE x == [irp[i] EXCEPT !.todo = todo, !.data = data]
    <2>5. x.stage = irp[i].stage /\ x.op = irp[i].op /\ x.data = data /\ x.todo = todo /\ x.status = irp[i].status
      BY <1>1 DEF IrpRecords
    <2> HIDE DEF x
    <2>6. irp'[i] = x /\ \A j \in Irps : j # i => irp'[j] = irp[j]
      BY <1>1, <1>2, <2>1 DEF x
    <2>7. x.todo = irp[i].todo \ Extent(r) /\ x.status = "ok"
      BY <2>2, <2>5 DEF todo
    <2>8. QED
      BY <2>3, <2>4, <2>5, <2>6, <2>7
  <1>6. QED
    BY <1>4, <1>5

----------------------------------------------------------------------------
(* What of an IRP is still to be transferred: all that it asks for until   *)
(* the main thread has decided on it, then what the main thread has yet to *)
(* cut and what waits for the I/O thread                                   *)

Asked(op) == Sectors \cap (op.off .. (op.off + op.len - (IF op.aligned THEN 1 ELSE 0)))
ToCut(i, s) ==
    /\ main.irp = i /\ Cutting /\ irp[i].op.kind # "flush"
    /\ main.off <= s /\ s <= irp[i].op.off + irp[i].op.len - 1
ToMove(i, s) == \E r \in Of(list.io) \cup IoIn : r.irp = i /\ s \in Extent(r)
Todo(i) ==
    /\ irp[i].stage = "unissued" => irp[i] = Unissued
    /\ irp[i].stage \in {"counted", "queued"} \/ Undecided(i) => irp[i].todo = Asked(irp[i].op)
    /\ irp[i].stage \in {"active", "uncounted", "completed"} /\ irp[i].status = "ok" /\ ~Undecided(i) =>
          \A s \in Sectors : s \in irp[i].todo <=> ToCut(i, s) \/ ToMove(i, s)
TodoInv == \A i \in Irps : Todo(i)

(* An IRP in the hands of the main thread is active and has no work item *)
LEMMA MainHolds ==
    ASSUME TypeOK, Inv, NEW i \in Irps
    PROVE  /\ Undecided(i) => /\ irp[i].stage = "active" /\ worker[i] = "none"
                              /\ \A s \in Sectors : ~ToMove(i, s) /\ ~ToCut(i, s)
           /\ \A s \in Sectors : ToCut(i, s) => irp[i].stage = "active" /\ worker[i] = "none"
           /\ \A s \in Sectors : ToMove(i, s) => irp[i].stage = "active" /\ worker[i] = "none"
  <1>1. \A r \in Of(list.io) \cup IoIn : r \in Fragments
    BY DEF IoIn, Fragments, IoHas
  <1>2. Undecided(i) => Whole /\ ~Cutting /\ main.irp = i
    BY DEF Undecided, Whole, Cutting
  <1>3. \A r \in Fragments : irp[r.irp].stage = "active" /\ worker[r.irp] = "none"
    BY DEF Inv, Responsible, NoFragmentOutlivesIrp
  <1>4. Undecided(i) => /\ irp[i].stage = "active" /\ worker[i] = "none"
                        /\ \A s \in Sectors : ~ToMove(i, s) /\ ~ToCut(i, s)
    BY <1>1, <1>2 DEF Inv, Responsible, MainHasIrp, ToMove, ToCut
  <1>5. \A s \in Sectors : ToCut(i, s) => irp[i].stage = "active" /\ worker[i] = "none"
    BY DEF ToCut, Inv, Responsible, MainHasIrp
  <1>6. \A s \in Sectors : ToMove(i, s) => irp[i].stage = "active" /\ worker[i] = "none"
    BY <1>1, <1>3 DEF ToMove
  <1>7. QED
    BY <1>4, <1>5, <1>6

(* Steps that leave an IRP, and what is left of it, as they were *)
LEMMA TodoKept ==
    ASSUME NEW i \in Irps, Todo(i), irp'[i] = irp[i], Undecided(i)' <=> Undecided(i),
           \A s \in Sectors : ToCut(i, s)' <=> ToCut(i, s),
           \A s \in Sectors : ToMove(i, s)' <=> ToMove(i, s)
    PROVE  Todo(i)'
  <1>1. Asked(irp[i].op)' = Asked(irp[i].op)
    BY DEF Asked
  <1>2. QED
    BY <1>1 DEF Todo

(* The main thread goes on with what it does *)
LEMMA MainSame ==
    ASSUME NEW i \in Irps, UNCHANGED main, irp'[i].op = irp[i].op
    PROVE  /\ Undecided(i)' <=> Undecided(i)
           /\ \A s \in Sectors : ToCut(i, s)' <=> ToCut(i, s)
  <1>1. Undecided(i)' <=> Undecided(i)
    BY DEF Undecided
  <1>2. Cutting' <=> Cutting
    BY DEF Cutting
  <1>3. \A s \in Sectors : ToCut(i, s)' <=> ToCut(i, s)
    BY <1>2 DEF ToCut
  <1>4. QED
    BY <1>1, <1>3

(* The steps that queue or transfer a request *)
MovesTodo == MainGetRequest \/ MainAcquire \/ IoFlush \/ IoWrite \/ IoRead

LEMMA WaitingStays ==
    ASSUME TypeOK, [Next]_vars, ~MovesTodo
    PROVE  (Of(list.io) \cup IoIn)' = Of(list.io) \cup IoIn
  <1>1. CASE IoDequeue
    <2>1. list'.io = Tail(list.io) /\ io'.pc = "io" /\ io'.req = Head(list.io) /\ list.io # <<>> /\ io.pc = "drain"
      BY <1>1, RequestMovesEffect
    <2>2. Of(list.io) = Of(list.io)' \cup {Head(list.io)}
      BY <2>1, ListFields, OfTail
    <2>3. IoIn = {} /\ IoIn' = {Head(list.io)}
      BY <2>1 DEF IoIn
    <2>4. QED
      BY <2>2, <2>3
  <1>2. CASE ~IoDequeue
    BY <1>2, OthersKeepBuffers DEF MovesTodo, MovesBuffer, BuffersKept, Of
  <1>3. QED
    BY <1>1, <1>2

LEMMA MoveStays ==
    ASSUME TypeOK, [Next]_vars, ~MovesTodo, NEW i \in Irps
    PROVE  \A s \in Sectors : ToMove(i, s)' <=> ToMove(i, s)
  BY WaitingStays DEF ToMove, Extent

(* EncryptedIoQueueAddIrp *)
LEMMA TodoAddIrp ==
    ASSUME TypeOK, Inv, TodoInv, [Next]_vars, NEW j \in Irps, AddIrp(j), NEW i \in Irps
    PROVE  Todo(i)'
  <1>0. irp \in [Irps -> IrpRecords] /\ irp[i] \in IrpRecords /\ Todo(i)
    BY DEF TypeOK, TodoInv
  <1>1. UNCHANGED <<main, io>>
    BY DEF AddIrp, AddIrpCount, AddIrpEnqueue, AddIrpRefuse, AddIrpRefuseSignal
  <1>5. list'.io = list.io
    BY DEF TypeOK, ListRecords, AddIrp, AddIrpCount, AddIrpEnqueue, AddIrpRefuse, AddIrpRefuseSignal
  <1>6. \A s \in Sectors : ToMove(i, s)' <=> ToMove(i, s)
    BY <1>1, <1>5 DEF ToMove, IoIn, Extent, Of
  <1>2. CASE irp'[i] = irp[i]
    BY <1>0, <1>1, <1>2, <1>6, MainSame, TodoKept
  <1>3. CASE irp'[i] # irp[i]
    <2>1. i = j
      BY <1>0, <1>3 DEF AddIrp, AddIrpCount, AddIrpEnqueue, AddIrpRefuse, AddIrpRefuseSignal
    <2>2. irp[i].stage # "active" /\ ~Undecided(i)
      <3>1. irp[i].stage \in {"unissued", "counted", "refusing"}
        BY <1>3, AddIrpEffect
      <3>2. QED
        BY <3>1, MainHolds
    <2>3. ~Undecided(i)'
      BY <1>1, <2>2 DEF Undecided
    <2>4. CASE AddIrpCount(i)
      <3>1. PICK op \in Ops :
              irp' = [irp EXCEPT ![i].stage = "counted", ![i].op = op, ![i].todo = Asked(op)]
        BY <2>4 DEF AddIrpCount, Asked
      <3>2. PICK todo : todo = Asked(op)
        OBVIOUS
      <3>3. irp' = [irp EXCEPT ![i] = [irp[i] EXCEPT !.stage = "counted", !.op = op, !.todo = todo]]
        BY <3>1, <3>2
      <3> DEFINE x == [irp[i] EXCEPT !.stage = "counted", !.op = op, !.todo = todo]
      <3>4. x.stage = "counted" /\ x.op = op /\ x.todo = todo
        BY <1>0 DEF IrpRecords
      <3> HIDE DEF x
      <3>5. irp'[i] = x
        BY <1>0, <3>3 DEF x
      <3>6. QED
        BY <2>3, <3>2, <3>4, <3>5 DEF Todo, Asked
    <2>5. CASE AddIrpEnqueue(i)
      <3>1. irp' = [irp EXCEPT ![i] = [irp[i] EXCEPT !.stage = "queued"]] /\ irp[i].stage = "counted"
        BY <2>5 DEF AddIrpEnqueue
      <3>2. irp'[i].stage = "queued" /\ irp'[i].op = irp[i].op /\ irp'[i].todo = irp[i].todo
        BY <1>0, <3>1 DEF IrpRecords
      <3>3. irp[i].todo = Asked(irp[i].op)
        BY <1>0, <3>1 DEF Todo
      <3>4. QED
        BY <2>3, <3>2, <3>3 DEF Todo, Asked
    <2>6. CASE AddIrpRefuse(i) \/ AddIrpRefuseSignal(i)
      <3>1. irp'[i].stage \in {"refusing", "rejected"}
        BY <2>6, AddIrpSteps
      <3>2. QED
        BY <2>3, <3>1 DEF Todo
    <2>7. QED
      BY <2>1, <2>4, <2>5, <2>6 DEF AddIrp
  <1>4. QED
    BY <1>2, <1>3

(* CompleteIrpWorkItemRoutine *)
LEMMA TodoWork ==
    ASSUME TypeOK, Inv, TodoInv, [Next]_vars, NEW j \in Irps, CompleteIrpWorkItemRoutine(j), NEW i \in Irps
    PROVE  Todo(i)'
  <1>0. irp \in [Irps -> IrpRecords] /\ irp[i] \in IrpRecords /\ Todo(i)
    BY DEF TypeOK, TodoInv
  <1>1. UNCHANGED <<main, io, list>>
    BY DEF CompleteIrpWorkItemRoutine, WorkCount, WorkSignal, WorkCompleteIrp, WorkLeave, WorkReturn
  <1>2. \A s \in Sectors : ToMove(i, s)' <=> ToMove(i, s)
    BY <1>1 DEF ToMove, IoIn, Extent, Of
  <1>3. CASE irp'[i] = irp[i]
    BY <1>0, <1>1, <1>2, <1>3, MainSame, TodoKept
  <1>4. CASE irp'[i] # irp[i]
    <2>1. i = j /\ (WorkCount(i) \/ WorkCompleteIrp(i))
      BY <1>0, <1>4 DEF CompleteIrpWorkItemRoutine, WorkCount, WorkSignal, WorkCompleteIrp, WorkLeave, WorkReturn
    <2>2. worker[i] # "none" /\ irp[i].stage \in {"active", "uncounted", "completed"}
      BY <2>1 DEF WorkCount, WorkCompleteIrp, Inv, Responsible, WorkerOK
    <2>3. ~Undecided(i) /\ ~Undecided(i)'
      BY <1>1, <2>2, MainHolds DEF Undecided
    <2>4. PICK x \in {"uncounted", "completed"} : irp' = [irp EXCEPT ![i] = [irp[i] EXCEPT !.stage = x]]
      BY <2>1 DEF WorkCount, WorkCompleteIrp
    <2>5. irp'[i].stage = x /\ irp'[i].op = irp[i].op /\ irp'[i].todo = irp[i].todo /\ irp'[i].status = irp[i].status
      BY <1>0, <2>4 DEF IrpRecords
    <2>6. \A s \in Sectors : ToCut(i, s)' <=> ToCut(i, s)
      BY <1>1, <2>5, MainSame
    <2>7. irp[i].status = "ok" => \A s \in Sectors : s \in irp[i].todo <=> ToCut(i, s) \/ ToMove(i, s)
      BY <1>0, <2>2, <2>3 DEF Todo
    <2>8. QED
      BY <1>2, <2>3, <2>5, <2>6, <2>7 DEF Todo
  <1>5. QED
    BY <1>3, <1>4

(* The main thread answers an IRP itself *)
LEMMA TodoDecide ==
    ASSUME TypeOK, Inv, TodoInv, [Next]_vars, Decides, NEW i \in Irps
    PROVE  Todo(i)'
  <1>0. irp \in [Irps -> IrpRecords] /\ irp[i] \in IrpRecords /\ Todo(i) /\ main \in MainRecords
    BY DEF TypeOK, TodoInv, MainOK
  <1>1. UNCHANGED <<io, list>> /\ main.pc = "dispatch"
    BY DEF Decides, MainReject, MainDeny, MainMisaligned
  <1>2. main' = [main EXCEPT !.pc = "complete"]
    BY DEF Decides, MainReject, MainDeny, MainFinish, MainMisaligned
  <1>3. main'.irp = main.irp /\ main'.pc = "complete"
    BY <1>0, <1>2 DEF MainRecords
  <1>4. ~Undecided(i)' /\ \A s \in Sectors : ~ToCut(i, s)'
    BY <1>3 DEF Undecided, ToCut, Cutting
  <1>5. \A s \in Sectors : ToMove(i, s)' <=> ToMove(i, s)
    BY <1>1 DEF ToMove, IoIn, Extent, Of
  <1>6. CASE i # main.irp
    <2>1. ~Undecided(i) /\ \A s \in Sectors : ~ToCut(i, s)
      BY <1>6 DEF Undecided, ToCut
    <2>2. irp'[i] = irp[i]
      BY <1>0, <1>6 DEF Decides, MainReject, MainDeny, MainFinish, MainMisaligned
    <2>3. QED
      BY <1>0, <1>4, <1>5, <2>1, <2>2, TodoKept
  <1>7. CASE i = main.irp
    <2>1. Undecided(i) /\ irp[i].stage = "active" /\ \A s \in Sectors : ~ToMove(i, s)
      BY <1>1, <1>7, MainHolds DEF Undecided
    <2>2. irp'[i].stage = "active"
      BY <2>1, DecisionEffect DEF Decides
    <2>3. CASE MainReject \/ MainDeny
      <3>1. PICK status \in {"cancelled", "invalid", "failed", "protected"} : irp' = [irp EXCEPT ![i].status = status]
        BY <1>7, <2>3 DEF MainReject, MainDeny, MainFinish
      <3>2. irp'[i].status # "ok"
        BY <1>0, <3>1 DEF IrpRecords
      <3>3. QED
        BY <1>4, <2>2, <3>2 DEF Todo
    <2>4. CASE MainMisaligned
      <3>1. \E d : irp' = [irp EXCEPT ![i] = [irp[i] EXCEPT !.todo = {}, !.data = d]]
        BY <1>7, <2>4 DEF MainMisaligned
      <3>2. PICK d : irp' = [irp EXCEPT ![i] = [irp[i] EXCEPT !.todo = {}, !.data = d]]
        BY <3>1
      <3>3. irp'[i].todo = {}
        BY <1>0, <3>2 DEF IrpRecords
      <3>4. QED
        BY <1>4, <1>5, <2>1, <2>2, <3>3 DEF Todo
    <2>5. QED
      BY <2>3, <2>4 DEF Decides
  <1>8. QED
    BY <1>6, <1>7

(* The main thread begins with an IRP *)
LEMMA TodoAdmit ==
    ASSUME TypeOK, Inv, TodoInv, [Next]_vars, Admits, NEW i \in Irps
    PROVE  Todo(i)'
  <1>0. irp \in [Irps -> IrpRecords] /\ irp[i] \in IrpRecords /\ Todo(i) /\ main \in MainRecords
    BY DEF TypeOK, TodoInv, MainOK
  <1>1. UNCHANGED <<io, list>> /\ main.pc \in {"suspendCheck", "suspended"}
    BY DEF Admits, MainSuspendCheck, MainResumed
  <1>2. \A s \in Sectors : ToMove(i, s)' <=> ToMove(i, s)
    BY <1>1 DEF ToMove, IoIn, Extent, Of
  <1>3. main.irp \in Irps /\ irp[main.irp].stage = "queued"
    BY <1>1, WaitsForIrp DEF Waits, Inv, Responsible, MainQueueOK
  <1>4. ~Undecided(i) /\ \A s \in Sectors : ~ToCut(i, s)
    BY <1>1 DEF Undecided, ToCut, Cutting
  <1>5. CASE irp' = irp /\ main' = [main EXCEPT !.pc = "suspended"]
    <2>1. main'.pc = "suspended"
      BY <1>0, <1>5 DEF MainRecords
    <2>2. ~Undecided(i)' /\ \A s \in Sectors : ~ToCut(i, s)'
      BY <2>1 DEF Undecided, ToCut, Cutting
    <2>3. QED
      BY <1>0, <1>2, <1>4, <1>5, <2>2, TodoKept
  <1>6. CASE Admit
    <2>1. main'.pc = "getItem" /\ main'.irp = main.irp /\ irp' = [irp EXCEPT ![main.irp] = [irp[main.irp] EXCEPT !.stage = "active"]]
      BY <1>0, <1>6 DEF MainRecords, Admit
    <2>2. CASE i # main.irp
      <3>1. irp'[i] = irp[i]
        BY <1>0, <2>1, <2>2
      <3>2. ~Undecided(i)' /\ \A s \in Sectors : ~ToCut(i, s)'
        BY <2>1, <2>2 DEF Undecided, ToCut
      <3>3. QED
        BY <1>0, <1>2, <1>4, <3>1, <3>2, TodoKept
    <2>3. CASE i = main.irp
      <3>1. irp'[i].stage = "active" /\ irp'[i].op = irp[i].op /\ irp'[i].todo = irp[i].todo
        BY <1>0, <2>1, <2>3 DEF IrpRecords
      <3>2. Undecided(i)'
        BY <2>1, <2>3 DEF Undecided
      <3>3. irp[i].todo = Asked(irp[i].op)
        BY <1>0, <1>3, <2>3 DEF Todo
      <3>4. QED
        BY <3>1, <3>2, <3>3 DEF Todo, Asked
    <2>4. QED
      BY <2>2, <2>3
  <1>7. QED
    BY <1>5, <1>6 DEF Admits, MainSuspendCheck, MainResumed

(* What decryption does to an IRP *)
LEMMA DecryptEffect ==
    ASSUME TypeOK, Inv, CompDecrypt
    PROVE  LET r == Head(list.comp) IN
           /\ r \in Of(list.comp) /\ r \in Requests /\ r.irp \in Irps
           /\ \A j \in Irps : j # r.irp => irp'[j] = irp[j]
           /\ irp'[r.irp].stage = irp[r.irp].stage /\ irp'[r.irp].op = irp[r.irp].op
           /\ irp'[r.irp].status = irp[r.irp].status /\ irp'[r.irp].todo = irp[r.irp].todo
           /\ \A s \in Sectors : irp'[r.irp].data[s] =
                 IF s \in Extent(r) \cap SecRegion THEN Cell("region", s, 0)
                 ELSE IF s \in Enc(r) /\ irp[r.irp].status = "ok" THEN AddLayers(irp[r.irp].data[s], -1)
                 ELSE irp[r.irp].data[s]
  <1> DEFINE r == Head(list.comp)
             i == r.irp
  <1>1. r \in Of(list.comp) /\ r \in Requests /\ i \in Irps
    <2>1. list.comp # <<>> /\ list.comp \in Seq(Requests)
      BY ListFields DEF CompDecrypt
    <2>2. r \in Of(list.comp)
      BY <2>1, OfTail
    <2>3. QED
      BY <2>2, FragmentTypes DEF Fragments
  <1>2. irp \in [Irps -> IrpRecords] /\ irp[i] \in IrpRecords
    BY <1>1 DEF TypeOK
  <1> DEFINE data == [s \in Sectors |->
                        IF s \in Extent(r) \cap SecRegion THEN Cell("region", s, 0)
                        ELSE IF s \in Enc(r) /\ irp[i].status = "ok" THEN AddLayers(irp[i].data[s], -1)
                        ELSE irp[i].data[s]]
  <1>3. irp' = [irp EXCEPT ![i] = [irp[i] EXCEPT !.data = data]]
    BY DEF CompDecrypt
  <1>4. \A s \in Sectors : data[s] =
                 IF s \in Extent(r) \cap SecRegion THEN Cell("region", s, 0)
                 ELSE IF s \in Enc(r) /\ irp[i].status = "ok" THEN AddLayers(irp[i].data[s], -1)
                 ELSE irp[i].data[s]
    OBVIOUS
  <1> HIDE DEF data
  <1> DEFINE x == [irp[i] EXCEPT !.data = data]
  <1>5. x.stage = irp[i].stage /\ x.op = irp[i].op /\ x.data = data /\ x.todo = irp[i].todo /\ x.status = irp[i].status
    BY <1>2 DEF IrpRecords
  <1> HIDE DEF x
  <1>6. irp'[i] = x /\ \A j \in Irps : j # i => irp'[j] = irp[j]
    BY <1>1, <1>2, <1>3 DEF x
  <1>7. QED
    BY <1>1, <1>4, <1>5, <1>6

(* The I/O and completion threads *)
LEMMA TodoTransfer ==
    ASSUME TypeOK, Inv, PathInv, StoreInv, WholeOperations, TodoInv, [Next]_vars, TransfersData, NEW i \in Irps
    PROVE  Todo(i)'
  <1>0. irp \in [Irps -> IrpRecords] /\ irp[i] \in IrpRecords /\ Todo(i) /\ io \in IoRecords
    BY DEF TypeOK, TodoInv, IoOK
  <1>1. UNCHANGED main /\ irp'[i].op = irp[i].op /\ irp'[i].stage = irp[i].stage
        /\ (irp[i].status # "ok" => irp'[i].status # "ok")
    BY TransferEffect DEF TransfersData, IoFlush, IoWrite, IoRead, CompDecrypt
  <1>2. (Undecided(i)' <=> Undecided(i)) /\ \A s \in Sectors : ToCut(i, s)' <=> ToCut(i, s)
    BY <1>1, MainSame
  <1>3. CASE CompDecrypt
    <2>1. list'.io = list.io /\ UNCHANGED io
      BY <1>3, RequestMovesEffect
    <2>2. \A s \in Sectors : ToMove(i, s)' <=> ToMove(i, s)
      BY <2>1 DEF ToMove, IoIn, Extent, Of
    <2>3. irp'[i] = irp[i] \/ (irp'[i].todo = irp[i].todo /\ irp'[i].status = irp[i].status /\ irp[i].stage = "active")
      <3>1. Head(list.comp).irp = i => irp[i].stage = "active"
        BY <1>3, DecryptEffect, UnderwayTypes DEF Underway
      <3>2. QED
        BY <1>3, <3>1, DecryptEffect
    <2>4. CASE irp'[i] = irp[i]
      BY <1>0, <1>2, <2>2, <2>4, TodoKept
    <2>5. CASE irp'[i].todo = irp[i].todo /\ irp'[i].status = irp[i].status /\ irp[i].stage = "active"
      <3>1. Asked(irp[i].op)' = Asked(irp[i].op)
        BY <1>1 DEF Asked
      <3>2. QED
        BY <1>0, <1>1, <1>2, <2>2, <2>5, <3>1 DEF Todo
    <2>6. QED
      BY <2>3, <2>4, <2>5
  <1>4. CASE IoFlush \/ IoWrite \/ IoRead
    <2> DEFINE r == io.req
    <2>1. io.pc = "io" /\ list'.io = list.io /\ IoIn = {r} /\ IoIn' = {} /\ IoPart = {r} /\ r \in Underway
      <3>1. io.pc = "io" /\ list'.io = list.io /\ IoIn' = {}
        BY <1>4, RequestMovesEffect DEF IoFlush, IoWrite, IoRead, IoIn
      <3>2. QED
        BY <3>1 DEF IoIn, IoPart, Underway
    <2>2. r \in Requests /\ r.irp \in Irps /\ irp[r.irp].stage = "active" /\ irp[r.irp] \in IrpRecords /\ Shape(r)
      BY <2>1, UnderwayTypes DEF PathInv, ShapeInv
    <2>3. ~Undecided(r.irp)
      <3>1. r \in Fragments
        BY <2>1 DEF Fragments, IoHas
      <3>2. QED
        BY <3>1 DEF Undecided, Whole, Inv, Responsible, MainHasIrp
    <2>4. \A s \in Sectors : ToMove(i, s) <=> ToMove(i, s)' \/ (r.irp = i /\ s \in Extent(r))
      BY <2>1 DEF ToMove, Of, Extent
    <2>5. CASE i # r.irp
      <3>1. irp'[i] = irp[i]
        <4>1. CASE IoFlush
          BY <1>0, <2>2, <2>5, <4>1 DEF IoFlush
        <4>2. CASE irp[r.irp].status # "ok" /\ ~IoFlush
          BY <1>4, <4>2 DEF IoWrite, DeviceWrite, IoRead, DeviceRead
        <4>3. CASE irp[r.irp].status = "ok" /\ ~IoFlush
          BY <1>4, <2>5, <4>3, WriteEffect, ReadEffect
        <4>4. QED
          BY <4>1, <4>2, <4>3
      <3>2. QED
        BY <1>0, <1>2, <2>4, <2>5, <3>1, TodoKept
    <2>6. CASE i = r.irp /\ irp'[i].status = "ok"
      <3>1. irp[i].status = "ok"
        BY <1>1, <2>6
      <3>2. \A s \in Sectors : s \in irp[i].todo <=> ToCut(i, s) \/ ToMove(i, s)
        BY <1>0, <2>2, <2>3, <2>6, <3>1 DEF Todo
      <3>3. irp'[i].todo = irp[i].todo \ Extent(r)
        <4>1. CASE IoFlush
          <5>1. irp'[i].todo = irp[i].todo /\ irp[i].op.kind = "flush"
            BY <1>0, <2>6, <4>1 DEF IoFlush, IrpRecords
          <5>2. irp[i].op.off = 0 /\ irp[i].op.len = 0
            <6>1. irp[i].op \in Ops
              BY <1>0, <5>1 DEF IrpRecords, Unissued
            <6>2. QED
              BY <5>1, <6>1, QueueAssumption
          <5>3. Extent(r) = {}
            BY <2>2, <2>6, <5>2 DEF Shape, Extent, Requests, Sectors
          <5>4. QED
            BY <5>1, <5>3
        <4>2. CASE IoWrite
          BY <2>6, <3>1, <4>2, WriteEffect
        <4>3. CASE IoRead
          BY <2>6, <3>1, <4>3, ReadEffect
        <4>4. QED
          BY <1>4, <4>1, <4>2, <4>3
      <3>4. \A s \in Extent(r) : ~ToMove(i, s)'
        <4>1. \A q \in Of(list.io) : q.irp = i => Extent(r) \cap Extent(q) = {}
          BY <2>1, <2>6 DEF PathInv, SeparateInv, AllApart, Apart
        <4>2. QED
          BY <2>1, <4>1 DEF ToMove, Of, Extent
      <3>5. \A s \in Extent(r) : ~ToCut(i, s)
        <4> SUFFICES ASSUME NEW s \in Extent(r), ToCut(i, s) PROVE FALSE
          OBVIOUS
        <4>1. main.irp = i /\ Cutting /\ CutOp.kind # "flush" /\ main.off <= s
          BY DEF ToCut, CutOp
        <4>2. r.off + r.len <= main.off
          BY <2>1, <2>6, <4>1 DEF PathInv, CutInv
        <4>3. s \in Int /\ s <= r.off + r.len - 1 /\ r.off \in Int /\ r.len \in Int /\ main.off \in Int
          BY <2>2 DEF Extent, Sectors, Requests, TypeOK, MainOK, MainRecords
        <4>4. QED
          BY <4>1, <4>2, <4>3
      <3>6. \A s \in Sectors : s \in irp'[i].todo <=> ToCut(i, s)' \/ ToMove(i, s)'
        BY <1>2, <2>4, <2>6, <3>2, <3>3, <3>4, <3>5
      <3>7. ~Undecided(i)' /\ irp'[i].stage = "active"
        BY <1>1, <1>2, <2>2, <2>3, <2>6
      <3>8. QED
        BY <3>6, <3>7 DEF Todo
    <2>7. CASE i = r.irp /\ irp'[i].status # "ok"
      <3>1. ~Undecided(i)' /\ irp'[i].stage = "active"
        BY <1>1, <1>2, <2>2, <2>3, <2>7
      <3>2. QED
        BY <2>7, <3>1 DEF Todo
    <2>8. QED
      BY <2>5, <2>6, <2>7
  <1>5. QED
    BY <1>3, <1>4 DEF TransfersData

(* The main thread cuts an IRP into requests *)
LEMMA TodoCut ==
    ASSUME TypeOK, Inv, PathInv, TodoInv, [Next]_vars, MainCuts, NEW i \in Irps
    PROVE  Todo(i)'
  <1>0. /\ irp \in [Irps -> IrpRecords] /\ irp[i] \in IrpRecords /\ Todo(i) /\ main \in MainRecords
        /\ main.off \in Int /\ FragmentSize \in Int /\ list.io \in Seq(Requests)
    BY QueueAssumption, ListFields DEF TypeOK, TodoInv, MainOK, MainRecords
  <1>1. UNCHANGED <<io, irp>> /\ main.irp \in Irps /\ irp[main.irp].stage = "active"
    <2>1. UNCHANGED <<io, irp>> /\ (Whole \/ Cutting)
      BY DEF MainCuts, MainFlush, MainFragment, MainGetRequest, MainAcquire, FillAndQueue, Whole, Cutting
    <2>2. QED
      BY <2>1, WaitsForIrp DEF Inv, Responsible, MainHasIrp
  <1>2. main'.pc \in {"getRequest", "drain", "acquire", "fragment"}
    BY <1>0 DEF MainCuts, MainFlush, MainFragment, MainGetRequest, MainAcquire, FillAndQueue, MainRecords
  <1>3. ~Undecided(i)'
    BY <1>2 DEF Undecided
  <1>4. CASE i # main.irp
    <2>1. ~Undecided(i) /\ \A s \in Sectors : ~ToCut(i, s)
      BY <1>4 DEF Undecided, ToCut
    <2>2. main'.irp = main.irp \/ main'.pc = "drain"
      BY <1>0 DEF MainCuts, MainFlush, MainFragment, MainGetRequest, MainAcquire, FillAndQueue, MainRecords
    <2>3. \A s \in Sectors : ~ToCut(i, s)'
      BY <1>4, <2>2 DEF ToCut, Cutting
    <2>4. \A s \in Sectors : ToMove(i, s)' <=> ToMove(i, s)
      <3>1. CASE list'.io = list.io
        BY <1>1, <3>1 DEF ToMove, IoIn, Of, Extent
      <3>2. CASE list'.io # list.io
        <4>1. \E q \in Requests : q.irp = main.irp /\ list'.io = Append(list.io, q)
          <5>1. MainAcquire \/ MainGetRequest
            BY <1>0, <3>2 DEF MainCuts, MainFlush, MainFragment, TypeOK, ListRecords
          <5>2. CASE MainAcquire
            BY <5>2, RequestMovesEffect DEF MainAcquire, Inv, Responsible, MainHasIrp
          <5>3. CASE MainGetRequest
            BY <3>2, <5>3, RequestMovesEffect DEF FlushRequest
          <5>4. QED
            BY <5>1, <5>2, <5>3
        <4>2. PICK q \in Requests : q.irp = main.irp /\ list'.io = Append(list.io, q)
          BY <4>1
        <4>3. Of(list.io)' = Of(list.io) \cup {q}
          BY <1>0, <4>2, OfAppend
        <4>4. QED
          BY <1>1, <1>4, <4>2, <4>3 DEF ToMove, IoIn, Extent
      <3>3. QED
        BY <3>1, <3>2
    <2>5. QED
      BY <1>0, <1>1, <1>3, <2>1, <2>3, <2>4, TodoKept
  <1>5. CASE i = main.irp
    <2> DEFINE op == irp[i].op
    <2>1. irp'[i] = irp[i] /\ irp[i].stage = "active" /\ op.off \in Int /\ op.len \in Int
      <3>1. Whole \/ Cutting
        BY DEF MainCuts, MainFlush, MainFragment, MainGetRequest, MainAcquire, Whole, Cutting
      <3>2. QED
        BY <1>1, <1>5, <3>1, MainIrpFixed
    <2> SUFFICES ASSUME irp[i].status = "ok", NEW s \in Sectors
                 PROVE  s \in irp[i].todo <=> ToCut(i, s)' \/ ToMove(i, s)'
      BY <1>3, <2>1 DEF Todo
    <2>s. s \in Int
      BY DEF Sectors
    <2>2. CASE MainFlush \/ MainFragment
      <3>1. list'.io = list.io /\ main'.irp = i /\ Cutting'
        BY <1>0, <1>5, <2>2 DEF MainFlush, MainFragment, TypeOK, ListRecords, MainRecords, Cutting
      <3>2. ToMove(i, s)' <=> ToMove(i, s)
        BY <1>1, <3>1 DEF ToMove, IoIn, Of, Extent
      <3>3. CASE main.pc = "dispatch"
        <4>1. Undecided(i) /\ ~ToMove(i, s)
          BY <1>5, <3>3, MainHolds DEF Undecided
        <4>2. irp[i].todo = Asked(op)
          BY <1>0, <4>1 DEF Todo
        <4>3. CASE MainFlush
          <5>1. op.kind = "flush" /\ op \in Ops
            BY <1>0, <1>5, <4>3 DEF MainFlush, IrpRecords, Unissued
          <5>2. op.off = 0 /\ op.len = 0 /\ op.aligned
            BY <5>1, QueueAssumption
          <5>3. s \notin Asked(op)
            BY <2>s, <5>2 DEF Asked
          <5>4. ~ToCut(i, s)'
            BY <2>1, <5>1 DEF ToCut
          <5>5. QED
            BY <3>2, <4>1, <4>2, <5>3, <5>4
        <4>4. CASE MainFragment
          <5>1. Transfers(op) /\ main'.off = op.off
            BY <1>0, <1>5, <3>3, <4>4 DEF MainFragment, MainRecords
          <5>2. op.kind # "flush" /\ op.aligned
            BY <5>1, TransfersWithin
          <5>3. s \in Asked(op) <=> op.off <= s /\ s <= op.off + op.len - 1
            BY <2>1, <2>s, <5>2 DEF Asked
          <5>4. ToCut(i, s)' <=> op.off <= s /\ s <= op.off + op.len - 1
            BY <2>1, <3>1, <5>1, <5>2 DEF ToCut
          <5>5. QED
            BY <3>2, <4>1, <4>2, <5>3, <5>4
        <4>5. QED
          BY <2>2, <4>3, <4>4
      <3>4. CASE main.pc = "fragment"
        <4>1. MainFragment /\ main'.off = main.off /\ Cutting /\ ~Undecided(i)
          BY <1>0, <2>2, <3>4 DEF MainFlush, MainFragment, MainRecords, Cutting, Undecided
        <4>2. ToCut(i, s)' <=> ToCut(i, s)
          BY <1>5, <2>1, <3>1, <4>1 DEF ToCut
        <4>3. QED
          BY <1>0, <2>1, <3>2, <4>1, <4>2 DEF Todo
      <3>5. QED
        BY <2>2, <3>3, <3>4 DEF MainFlush, MainFragment
    <2>3. CASE MainGetRequest
      <3>1. main.pc = "getRequest" /\ Cutting /\ ~Undecided(i) /\ i = main.irp
        BY <1>5, <2>3 DEF MainGetRequest, Cutting, Undecided
      <3>2. s \in irp[i].todo <=> ToCut(i, s) \/ ToMove(i, s)
        BY <1>0, <2>1, <3>1 DEF Todo
      <3>3. CASE op.kind = "flush"
        <4> DEFINE q == FlushRequest(i)
        <4>1. ~ToCut(i, s) /\ ~ToCut(i, s)'
          BY <2>1, <3>3 DEF ToCut
        <4>2. q \in Requests /\ list'.io = Append(list.io, q)
          BY <1>5, <2>3, <3>3, RequestMovesEffect DEF CutOp
        <4>3. Extent(q) = {}
          BY <3>3, FlushShape
        <4> HIDE DEF q
        <4>4. Of(list.io)' = Of(list.io) \cup {q}
          BY <1>0, <4>2, OfAppend
        <4>5. ToMove(i, s)' <=> ToMove(i, s)
          BY <1>1, <4>3, <4>4 DEF ToMove, IoIn, Extent
        <4>6. QED
          BY <3>2, <4>1, <4>5
      <3>4. CASE op.kind # "flush"
        <4>1. main'.irp = i /\ main'.off = main.off /\ Cutting' /\ UNCHANGED list
          BY <1>0, <2>3, <3>1, <3>4 DEF MainGetRequest, MainRecords, Cutting
        <4>2. ToCut(i, s)' <=> ToCut(i, s)
          BY <2>1, <3>1, <4>1 DEF ToCut
        <4>3. ToMove(i, s)' <=> ToMove(i, s)
          BY <1>1, <4>1 DEF ToMove, IoIn, Of, Extent
        <4>4. QED
          BY <3>2, <4>2, <4>3
      <3>5. QED
        BY <3>3, <3>4
    <2>4. CASE MainAcquire
      <3> DEFINE q == main.req
      <3>1. main.pc = "acquire" /\ Cutting /\ ~Undecided(i) /\ q.irp = i /\ op.kind # "flush"
        BY <1>5, <2>4 DEF MainAcquire, Cutting, Undecided, Inv, Responsible, MainHasIrp
      <3>2. s \in irp[i].todo <=> ToCut(i, s) \/ ToMove(i, s)
        BY <1>0, <2>1, <3>1 DEF Todo
      <3>3. q \in Requests /\ list'.io = Append(list.io, q)
        BY <2>4, RequestMovesEffect
      <3>4. /\ q.off = main.off /\ q.off + q.len <= DiskLength
            /\ IF q.last THEN main.off + q.len = op.off + op.len
               ELSE q.len = FragmentSize /\ main.off + FragmentSize < op.off + op.len
        BY <1>5, <3>1 DEF PathInv, CutInv, CutOp, Shape
      <3>5. Of(list.io)' = Of(list.io) \cup {q}
        BY <1>0, <3>3, OfAppend
      <3>6. ToMove(i, s)' <=> ToMove(i, s) \/ s \in Extent(q)
        BY <1>1, <3>1, <3>5 DEF ToMove, IoIn, Extent
      <3>7. q.off \in Int /\ q.len \in Int
        BY <3>3 DEF Requests
      <3>8. s \in Extent(q) <=> main.off <= s /\ s <= main.off + q.len - 1
        BY <1>0, <2>s, <3>4, <3>7 DEF Extent
      <3>9. ToCut(i, s) <=> main.off <= s /\ s <= op.off + op.len - 1
        BY <1>5, <3>1 DEF ToCut
      <3>10. CASE q.last
        <4>1. ~ToCut(i, s)'
          BY <1>0, <2>4, <3>10 DEF MainAcquire, FillAndQueue, MainRecords, ToCut, Cutting
        <4>2. s \in Extent(q) <=> ToCut(i, s)
          <5>1. main.off + q.len = op.off + op.len
            BY <3>4, <3>10
          <5>2. QED
            BY SMTT(30), <1>0, <2>1, <2>s, <3>7, <3>8, <3>9, <5>1
        <4>3. QED
          BY <3>2, <3>6, <4>1, <4>2
      <3>11. CASE ~q.last
        <4>1. main'.irp = i /\ main'.off = main.off + FragmentSize /\ Cutting'
          BY <1>0, <1>5, <2>4, <3>11 DEF MainAcquire, FillAndQueue, MainRecords, Cutting
        <4>2. ToCut(i, s)' <=> main.off + FragmentSize <= s /\ s <= op.off + op.len - 1
          BY <2>1, <3>1, <4>1 DEF ToCut
        <4>3. FragmentSize > 0
          BY QueueAssumption
        <4>4. ToCut(i, s) <=> s \in Extent(q) \/ ToCut(i, s)'
          BY <1>0, <2>1, <2>s, <3>4, <3>8, <3>9, <3>11, <4>2, <4>3
        <4>5. QED
          BY <3>2, <3>6, <4>4
      <3>12. QED
        BY <3>10, <3>11
    <2>5. QED
      BY <2>2, <2>3, <2>4 DEF MainCuts
  <1>6. QED
    BY <1>4, <1>5

(* All other steps *)
LEMMA TodoOther ==
    ASSUME TypeOK, Inv, TodoInv, [Next]_vars, NEW i \in Irps, ~Decides, ~Admits, ~TransfersData, ~MainCuts,
           ~(\E j \in Irps : AddIrp(j) \/ CompleteIrpWorkItemRoutine(j))
    PROVE  Todo(i)'
  <1>0. Todo(i) /\ main \in MainRecords
    BY DEF TypeOK, TodoInv, MainOK
  <1>1. irp' = irp
    BY OthersKeepIrps
  <1>2. \A s \in Sectors : ToMove(i, s)' <=> ToMove(i, s)
    BY MoveStays DEF MovesTodo, MainCuts, TransfersData
  <1>3. CASE MainThreadProc
    <2>1. \/ ~Cutting' /\ ~Cutting
          \/ main'.irp = main.irp /\ main'.off = main.off /\ Cutting /\ Cutting'
      BY <1>0, <1>3 DEF MainThreadProc, MainWait, MainIdle, MainDequeue, MainGetItem, MainPoolEmpty, MainPoolWait,
                        MainComplete, Decides, Admits, MainCuts, MainRecords, Cutting
    <2>2. Undecided(i)' <=> Undecided(i)
      BY <1>0, <1>3 DEF MainThreadProc, MainWait, MainIdle, MainDequeue, MainGetItem, MainPoolEmpty, MainPoolWait,
                        MainComplete, Decides, Admits, MainCuts, MainRecords, Undecided
    <2>3. \A s \in Sectors : ToCut(i, s)' <=> ToCut(i, s)
      BY <1>1, <2>1 DEF ToCut, Cutting
    <2>4. QED
      BY <1>0, <1>1, <1>2, <2>2, <2>3, TodoKept
  <1>4. CASE ~MainThreadProc
    BY <1>0, <1>1, <1>2, <1>4, OnlyMain, MainSame, TodoKept
  <1>5. QED
    BY <1>3, <1>4

LEMMA TodoStep ==
    ASSUME TypeOK, Inv, PathInv, StoreInv, WholeOperations, TodoInv, [Next]_vars
    PROVE  TodoInv'
  <1> SUFFICES ASSUME NEW i \in Irps PROVE Todo(i)'
    BY DEF TodoInv
  <1>1. CASE \E j \in Irps : AddIrp(j) \/ CompleteIrpWorkItemRoutine(j)
    BY <1>1, TodoAddIrp, TodoWork
  <1>2. CASE Decides \/ Admits \/ TransfersData \/ MainCuts
    BY <1>2, TodoDecide, TodoAdmit, TodoTransfer, TodoCut
  <1>3. QED
    BY <1>1, <1>2, TodoOther

LEMMA InitTodo == Init => TodoInv
  BY DEF Init, TodoInv, Todo, Undecided, Unissued

LEMMA TodoCorrect == WholeOperations /\ Spec => [](WholeOperations /\ TodoInv)
  <1>1. TypeOK /\ Inv /\ PathInv /\ BufferInv /\ StoreInv /\ (WholeOperations /\ TodoInv) /\ [Next]_vars
           => (WholeOperations /\ TodoInv)'
    <2>1. WholeOperations => WholeOperations'
      BY DEF WholeOperations, InitialArea, Misaligned
    <2>2. QED
      BY <2>1, TodoStep
  <1>2. QED
    BY <1>1, InitTodo, TypeCorrect, Invariant, PathCorrect, StoreCorrect, PTL DEF Spec

----------------------------------------------------------------------------
(* What was read and is still to be decrypted is what the disk holds, and   *)
(* the disk holds no garbage                                               *)

PendingInv ==
    \A r \in Undecrypted : irp[r.irp].status = "ok" => \A s \in Extent(r) : irp[r.irp].data[s].writer # "garbage"

LEMMA UndecryptedIs ==
    /\ Undecrypted = Of(list.comp) \cup (IF io.pc = "readDone" THEN {io.req} ELSE {})
    /\ Undecrypted' = Of(list.comp)' \cup (IF io'.pc = "readDone" THEN {io'.req} ELSE {})
    /\ Undecrypted \subseteq Underway
  <1>1. Undecrypted = Of(list.comp) \cup (IF io.pc = "readDone" THEN {io.req} ELSE {})
    <2>1. {x.req : x \in {y \in {io} : y.pc = "readDone"}} = IF io.pc = "readDone" THEN {io.req} ELSE {}
      OBVIOUS
    <2>2. QED
      BY <2>1 DEF Undecrypted, Of
  <1>2. Undecrypted' = Of(list.comp)' \cup (IF io'.pc = "readDone" THEN {io'.req} ELSE {})
    <2>1. {x.req : x \in {y \in {io'} : y.pc = "readDone"}} = IF io'.pc = "readDone" THEN {io'.req} ELSE {}
      OBVIOUS
    <2>2. QED
      BY <2>1 DEF Undecrypted, Of
  <1>3. QED
    BY <1>1, <1>2 DEF Underway, IoPart

LEMMA UndecryptedStays ==
    ASSUME TypeOK, [Next]_vars, ~IoRead, ~CompDecrypt
    PROVE  Undecrypted' = Undecrypted
  <1>1. CASE IoReadQueue
    <2>1. list'.comp = Append(list.comp, io.req) /\ io.pc = "readDone" /\ io'.pc \notin {"io", "readDone"} /\ io.req \in Requests
      BY <1>1, RequestMovesEffect
    <2>2. Of(list.comp)' = Of(list.comp) \cup {io.req}
      BY <2>1, ListFields, OfAppend
    <2>3. QED
      BY <2>1, <2>2, UndecryptedIs
  <1>2. CASE MovesRequest /\ ~IoReadQueue
    <2>1. list'.comp = list.comp
      BY <1>2, RequestMovesEffect DEF MovesRequest
    <2>2. (io.pc # "readDone" /\ io'.pc # "readDone") \/ UNCHANGED io
      BY <1>2, RequestMovesEffect DEF MovesRequest
    <2>3. QED
      BY <2>1, <2>2, UndecryptedIs DEF Of
  <1>3. CASE ~MovesRequest
    <2>1. list'.comp = list.comp /\ (io.pc \in {"io", "readDone"} \/ io'.pc \in {"io", "readDone"} => io' = io)
      BY <1>3, OthersKeepRequests
    <2>2. QED
      BY <2>1, UndecryptedIs DEF Of
  <1>4. QED
    BY <1>1, <1>2, <1>3

(* The steps that change the data buffer of an IRP *)
ChangesData(i) == AddIrpCount(i) \/ IoRead \/ CompDecrypt \/ (MainMisaligned /\ main.irp = i)

LEMMA DataStays ==
    ASSUME TypeOK, Inv, PathInv, StoreInv, WholeOperations, [Next]_vars, NEW i \in Irps, ~ChangesData(i)
    PROVE  irp'[i].data = irp[i].data
  <1>0. irp \in [Irps -> IrpRecords] /\ irp[i] \in IrpRecords
    BY DEF TypeOK
  <1>1. CASE \E j \in Irps : AddIrp(j)
    <2>1. PICK j \in Irps : AddIrp(j)
      BY <1>1
    <2>2. CASE j # i
      BY <1>0, <2>1, <2>2 DEF AddIrp, AddIrpCount, AddIrpEnqueue, AddIrpRefuse, AddIrpRefuseSignal
    <2>3. CASE AddIrpEnqueue(i) \/ AddIrpRefuseSignal(i)
      BY <1>0, <2>3 DEF AddIrpEnqueue, AddIrpRefuseSignal, IrpRecords
    <2>4. CASE AddIrpRefuse(i)
      <3>1. PICK x \in {"refusing", "rejected"} : irp' = [irp EXCEPT ![i] = [irp[i] EXCEPT !.stage = x, !.status = "failed"]]
        BY <2>4 DEF AddIrpRefuse
      <3>2. QED
        BY <1>0, <3>1 DEF IrpRecords
    <2>5. QED
      BY <2>1, <2>2, <2>3, <2>4 DEF AddIrp, ChangesData
  <1>2. CASE \E j \in Irps : CompleteIrpWorkItemRoutine(j)
    <2>1. PICK j \in Irps : CompleteIrpWorkItemRoutine(j)
      BY <1>2
    <2>2. CASE WorkCount(j) \/ WorkCompleteIrp(j)
      <3>1. \E x \in {"uncounted", "completed"} : irp' = [irp EXCEPT ![j].stage = x]
        BY <2>2 DEF WorkCount, WorkCompleteIrp
      <3>2. QED
        BY <1>0, <3>1 DEF IrpRecords
    <2>3. CASE WorkSignal(j) \/ WorkLeave(j) \/ WorkReturn(j)
      BY <2>3 DEF WorkSignal, WorkLeave, WorkReturn
    <2>4. QED
      BY <2>1, <2>2, <2>3 DEF CompleteIrpWorkItemRoutine
  <1>3. CASE MainReject \/ MainDeny
    <2>1. PICK status \in {"cancelled", "invalid", "failed", "protected"} : irp' = [irp EXCEPT ![main.irp].status = status]
      BY <1>3 DEF MainReject, MainDeny, MainFinish
    <2>2. QED
      BY <1>0, <2>1 DEF IrpRecords
  <1>4. CASE MainMisaligned /\ main.irp # i
    BY <1>0, <1>4 DEF MainMisaligned
  <1>5. CASE Admits
    <2>1. irp' = irp \/ irp' = [irp EXCEPT ![main.irp].stage = "active"]
      BY <1>5 DEF Admits, MainSuspendCheck, MainResumed, Admit
    <2>2. QED
      BY <1>0, <2>1 DEF IrpRecords
  <1>6. CASE IoFlush
    <2>1. PICK done \in Outcomes(io.req.irp) :
            irp' = [irp EXCEPT ![io.req.irp].status = IF @ = "ok" /\ (IsFilterDevice \/ ~done) THEN "failed" ELSE @]
      BY <1>6 DEF IoFlush
    <2>2. QED
      BY <1>0, <2>1 DEF IrpRecords
  <1>7. CASE IoWrite
    <2>1. CASE irp[io.req.irp].status # "ok"
      BY <1>7, <2>1 DEF IoWrite, DeviceWrite
    <2>2. CASE irp[io.req.irp].status = "ok"
      BY <1>7, <2>2, WriteEffect
    <2>3. QED
      BY <2>1, <2>2
  <1>8. QED
    BY <1>1, <1>2, <1>3, <1>4, <1>5, <1>6, <1>7, OthersKeepIrps DEF ChangesData, Decides, TransfersData

LEMMA PendingStep ==
    ASSUME TypeOK, Inv, PathInv, StoreInv, WholeOperations, PendingInv, [Next]_vars
    PROVE  PendingInv'
  <1> SUFFICES ASSUME NEW r \in Undecrypted', irp'[r.irp].status = "ok", NEW s \in Extent(r)
               PROVE  irp'[r.irp].data[s].writer # "garbage"
    BY DEF PendingInv, Extent
  <1>1. s \in Sectors
    BY DEF Extent
  <1>2. CASE IoRead
    <2>1. io.pc = "io" /\ list'.comp = list.comp /\ io'.req = io.req /\ io.req \in Underway
      BY <1>2, RequestMovesEffect DEF Underway, IoPart
    <2>2. io.req.irp \in Irps
      BY <2>1, UnderwayTypes
    <2>3. r \in Undecrypted \/ r = io.req
      BY <2>1, UndecryptedIs DEF Of
    <2>4. CASE irp[io.req.irp].status # "ok"
      <3>1. irp' = irp
        BY <1>2, <2>4 DEF IoRead, DeviceRead
      <3>2. QED
        BY <2>3, <2>4, <3>1 DEF PendingInv
    <2>5. CASE irp[io.req.irp].status = "ok"
      <3>1. CASE r = io.req
        <4>1. irp'[r.irp].data[s] = store.disk[Location(s)]
          BY <1>2, <2>5, <3>1, ReadEffect
        <4>2. QED
          BY <1>1, <4>1, LocationOnDisk DEF StoreInv, DiskOK
      <3>2. CASE r \in Undecrypted /\ r.irp # io.req.irp
        <4>1. r.irp \in Irps
          BY <3>2, UndecryptedIs, UnderwayTypes
        <4>2. irp'[r.irp] = irp[r.irp]
          BY <1>2, <2>5, <3>2, <4>1, ReadEffect
        <4>3. QED
          BY <3>2, <4>2 DEF PendingInv
      <3>3. CASE r \in Undecrypted /\ r.irp = io.req.irp /\ r # io.req
        <4>1. r \in Of(list.comp) /\ io.req \in IoPart
          BY <2>1, <3>3, UndecryptedIs DEF IoPart
        <4>2. s \notin Extent(io.req)
          BY <3>3, <4>1 DEF PathInv, SeparateInv, AllApart, Apart
        <4>3. irp'[r.irp].data[s] = irp[r.irp].data[s]
          BY <1>1, <1>2, <2>5, <3>3, <4>2, ReadEffect
        <4>4. QED
          BY <2>5, <3>3, <4>3 DEF PendingInv
      <3>4. QED
        BY <2>3, <3>1, <3>2, <3>3
    <2>6. QED
      BY <2>4, <2>5
  <1>3. CASE CompDecrypt
    <2> DEFINE h == Head(list.comp)
    <2>1. list.comp # <<>> /\ list'.comp = Tail(list.comp) /\ UNCHANGED io /\ list.comp \in Seq(Requests)
      BY <1>3, RequestMovesEffect, ListFields
    <2>2. h \in Of(list.comp) /\ Of(list.comp)' \subseteq Of(list.comp)
      BY <2>1, OfTail
    <2>3. r \in Undecrypted /\ r \in Underway /\ r.irp \in Irps
      <3>1. r \in Undecrypted
        BY <2>1, <2>2, UndecryptedIs
      <3>2. QED
        BY <3>1, UndecryptedIs, UnderwayTypes
    <2>4. Apart(h, r)
      <3>1. CASE r \in Of(list.comp)'
        BY <2>1, <3>1, SeparateTail DEF PathInv, SeparateInv, Of
      <3>2. CASE r \notin Of(list.comp)'
        <4>1. r \in IoPart
          BY <2>1, <3>2, UndecryptedIs DEF IoPart
        <4>2. QED
          BY <2>2, <4>1 DEF PathInv, SeparateInv, AllApart
      <3>3. QED
        BY <3>1, <3>2
    <2>5. CASE r.irp # h.irp
      BY <1>3, <2>3, <2>5, DecryptEffect DEF PendingInv
    <2>6. CASE r.irp = h.irp
      <3>1. s \notin Extent(h)
        BY <2>4, <2>6 DEF Apart
      <3>2. s \notin Enc(h)
        BY <1>1, <2>2, <3>1 DEF PathInv, ShapeInv, Shape, Underway
      <3>3. irp'[r.irp].data[s] = irp[r.irp].data[s] /\ irp'[r.irp].status = irp[r.irp].status
        BY <1>1, <1>3, <2>6, <3>1, <3>2, DecryptEffect
      <3>4. QED
        BY <2>3, <3>3 DEF PendingInv
    <2>7. QED
      BY <2>5, <2>6
  <1>4. CASE ~IoRead /\ ~CompDecrypt
    <2>1. r \in Undecrypted /\ r \in Underway
      BY <1>4, UndecryptedStays, UndecryptedIs
    <2>2. r.irp \in Irps /\ irp[r.irp].stage = "active" /\ irp[r.irp].status = "ok"
      <3>1. r.irp \in Irps /\ irp[r.irp].stage = "active"
        BY <2>1, UnderwayTypes
      <3>2. QED
        BY <3>1, IssuedFixed DEF Fixed
    <2>3. ~ChangesData(r.irp)
      <3>1. ~AddIrpCount(r.irp)
        BY <2>2 DEF AddIrpCount
      <3>2. MainMisaligned => main.irp # r.irp
        BY <2>1 DEF MainMisaligned, Underway, IoPart, Fragments, IoHas, Inv, Responsible, MainHasIrp, Whole
      <3>3. QED
        BY <1>4, <3>1, <3>2 DEF ChangesData
    <2>4. QED
      BY <2>1, <2>2, <2>3, DataStays DEF PendingInv
  <1>5. QED
    BY <1>2, <1>3, <1>4

LEMMA PendingCorrect == WholeOperations /\ Spec => [](WholeOperations /\ TodoInv /\ PendingInv)
  <1>1. TypeOK /\ Inv /\ PathInv /\ BufferInv /\ StoreInv /\ WholeOperations /\ TodoInv /\ PendingInv /\ [Next]_vars
           => PendingInv'
    BY PendingStep
  <1>2. Init => PendingInv
    BY UndecryptedIs DEF Init, PendingInv, Of
  <1>3. QED
    BY <1>1, <1>2, TypeCorrect, Invariant, PathCorrect, StoreCorrect, TodoCorrect, PTL DEF Spec

----------------------------------------------------------------------------
(* What the issuer of an IRP sees of it *)

PendingAt(i, s) == \E r \in Undecrypted : r.irp = i /\ s \in Extent(r)
PendingEnc(i, s) == \E r \in Undecrypted : r.irp = i /\ s \in Extent(r) /\ s \in Enc(r)
PlainCell(i, s) ==
    IF PendingAt(i, s) /\ s \in SecRegion THEN [writer |-> "region", sector |-> s]
    ELSE Decode(irp[i].data[s], IF PendingEnc(i, s) THEN 1 ELSE 0)

LEMMA PlainDataIs ==
    ASSUME NEW i \in Irps
    PROVE  /\ PlainData(i) = [s \in Sectors |-> PlainCell(i, s)]
           /\ PlainData(i)' = [s \in Sectors |-> PlainCell(i, s)']
  <1>1. \A s : ({r \in Undecrypted : r.irp = i /\ s \in Extent(r)} # {} <=> PendingAt(i, s))
             /\ ((\E r \in {q \in Undecrypted : q.irp = i /\ s \in Extent(q)} : s \in Enc(r)) <=> PendingEnc(i, s))
    BY DEF PendingAt, PendingEnc
  <1>2. \A s : ({r \in Undecrypted' : r.irp = i /\ s \in Extent(r)} # {} <=> PendingAt(i, s)')
             /\ ((\E r \in {q \in Undecrypted' : q.irp = i /\ s \in Extent(q)} : s \in Enc(r)) <=> PendingEnc(i, s)')
    BY DEF PendingAt, PendingEnc, Extent, Enc
  <1>3. PlainData(i) = [s \in Sectors |-> PlainCell(i, s)]
    BY <1>1 DEF PlainData, PlainCell
  <1>4. PlainData(i)' = [s \in Sectors |-> PlainCell(i, s)']
    BY <1>2 DEF PlainData, PlainCell, Decode, Extent, Enc
  <1>5. QED
    BY <1>3, <1>4

(* Nothing of an IRP that is not active waits to be decrypted *)
LEMMA NothingPending ==
    ASSUME TypeOK, Inv, NEW i \in Irps, irp[i].stage # "active"
    PROVE  \A r \in Undecrypted : r.irp # i
  BY UndecryptedIs, UnderwayTypes

LEMMA PlainCases ==
    ASSUME NEW i \in Irps
    PROVE  /\ irp[i].stage = "unissued" => PlainRequest(i) = Device!Unissued
           /\ irp[i].stage # "unissued" /\ irp[i].status # "ok" =>
                 PlainRequest(i) = Device!Request("failed", FALSE, {}, Device!NothingRead)
           /\ irp[i].stage # "unissued" /\ irp[i].status = "ok" =>
                 PlainRequest(i) = Device!Request(IF irp[i].stage = "completed" THEN "done" ELSE "ok",
                                                  irp[i].op.kind = "write", irp[i].todo, PlainData(i))
  BY DEF PlainRequest, Device!Unissued, Device!Request, Device!NothingRead

LEMMA PlainCasesNext ==
    ASSUME NEW i \in Irps
    PROVE  /\ irp'[i].stage = "unissued" => PlainRequest(i)' = Device!Unissued
           /\ irp'[i].stage # "unissued" /\ irp'[i].status # "ok" =>
                 PlainRequest(i)' = Device!Request("failed", FALSE, {}, Device!NothingRead)
           /\ irp'[i].stage # "unissued" /\ irp'[i].status = "ok" =>
                 PlainRequest(i)' = Device!Request(IF irp'[i].stage = "completed" THEN "done" ELSE "ok",
                                                  irp'[i].op.kind = "write", irp'[i].todo, PlainData(i)')
  BY DEF PlainRequest, Device!Unissued, Device!Request, Device!NothingRead

(* Steps that change nothing the issuer sees *)
LEMMA DataSeenStays ==
    ASSUME NEW i \in Irps, irp'[i].data = irp[i].data,
           \A r : r.irp = i => (r \in Undecrypted' <=> r \in Undecrypted)
    PROVE  PlainData(i)' = PlainData(i)
  <1>1. \A s : (PendingAt(i, s)' <=> PendingAt(i, s)) /\ (PendingEnc(i, s)' <=> PendingEnc(i, s))
    BY DEF PendingAt, PendingEnc, Extent, Enc
  <1>2. \A s \in Sectors : PlainCell(i, s)' = PlainCell(i, s)
    BY <1>1 DEF PlainCell, Decode
  <1>3. QED
    BY <1>2, PlainDataIs

LEMMA SeenStays ==
    ASSUME NEW i \in Irps, PlainData(i)' = PlainData(i),
           irp'[i].op = irp[i].op, irp'[i].todo = irp[i].todo, irp'[i].status = irp[i].status,
           \A x \in {"unissued", "completed"} : irp'[i].stage = x <=> irp[i].stage = x
    PROVE  PlainRequest(i)' = PlainRequest(i)
  BY DEF PlainRequest

LEMMA OtherSeenStays ==
    ASSUME TypeOK, [Next]_vars, ~IoRead, ~CompDecrypt, NEW i \in Irps, irp'[i] = irp[i]
    PROVE  PlainRequest(i)' = PlainRequest(i)
  <1>1. PlainData(i)' = PlainData(i)
    BY UndecryptedStays, DataSeenStays
  <1>2. QED
    BY <1>1, SeenStays

LEMMA ContentStays ==
    ASSUME store'.start = store.start, store'.end = store.end,
           \A s \in Sectors : store'.disk[Location(s)] = store.disk[Location(s)]
    PROVE  PlainContent' = PlainContent
  <1>1. Area' = Area
    BY DEF Area
  <1>2. \A s : Location(s)' = Location(s)
    BY <1>1 DEF Location
  <1>3. QED
    BY <1>1, <1>2 DEF PlainContent, Decode

LEMMA OthersKeepContent ==
    ASSUME TypeOK, [Next]_vars, ~TouchesDisk
    PROVE  PlainContent' = PlainContent
  BY OthersKeepDisk, ContentStays

----------------------------------------------------------------------------
(* Every step of the queue is a step of the device or changes nothing there *)

DeviceStep == Device!Next \/ UNCHANGED Device!vars

(* An IRP whose status is set to a failure *)
LEMMA FailedStep ==
    ASSUME NEW i \in Irps, OthersSame(i), irp[i].stage \notin {"unissued", "completed"},
           irp'[i].stage \notin {"unissued"}, irp'[i].status # "ok",
           PlainContent' = PlainContent
    PROVE  DeviceStep
  <1>1. PlainRequest(i)' = Device!Request("failed", FALSE, {}, Device!NothingRead)
    BY PlainCasesNext
  <1>2. CASE irp[i].status # "ok"
    <2>1. PlainRequest(i)' = PlainRequest(i)
      BY <1>1, <1>2, PlainCases
    <2>2. QED
      BY <2>1, NoStep DEF OthersSame, DeviceStep
  <1>3. CASE irp[i].status = "ok"
    <2>1. PlainRequest(i).state = "ok"
      BY <1>3 DEF PlainRequest
    <2>2. QED
      BY <1>1, <2>1, FailStep DEF DeviceStep
  <1>4. QED
    BY <1>2, <1>3

LEMMA AddIrpDevice ==
    ASSUME TypeOK, Inv, PathInv, StoreInv, WholeOperations, TodoInv, [Next]_vars, NEW i \in Irps, AddIrp(i)
    PROVE  DeviceStep
  <1>0. irp \in [Irps -> IrpRecords] /\ irp[i] \in IrpRecords /\ Todo(i)
    BY DEF TypeOK, TodoInv
  <1>1. UNCHANGED <<io, comp, store>>
    BY DEF AddIrp, AddIrpCount, AddIrpEnqueue, AddIrpRefuse, AddIrpRefuseSignal
  <1>2. ~IoRead /\ ~CompDecrypt
    <2>1. ~IoRead
      BY <1>1, RequestMovesEffect
    <2>2. CompDecrypt => comp.pc = "drain" /\ comp'.pc # "drain"
      BY DEF CompDecrypt
    <2>3. QED
      BY <1>1, <2>1, <2>2
  <1>3. PlainContent' = PlainContent
    BY <1>1, ContentStays
  <1>4. OthersSame(i)
    <2>1. \A j \in Irps : j # i => irp'[j] = irp[j]
      BY <1>0 DEF AddIrp, AddIrpCount, AddIrpEnqueue, AddIrpRefuse, AddIrpRefuseSignal
    <2>2. QED
      BY <1>2, <2>1, OtherSeenStays DEF OthersSame
  <1>5. Undecrypted' = Undecrypted
    BY <1>2, UndecryptedStays
  <1>6. CASE AddIrpCount(i)
    <2>1. PICK op \in Ops : irp' = [irp EXCEPT ![i].stage = "counted", ![i].op = op, ![i].todo = Asked(op)]
      BY <1>6 DEF AddIrpCount, Asked
    <2>2. PICK todo \in SUBSET Sectors : todo = Asked(op)
      BY DEF Asked
    <2>3. irp' = [irp EXCEPT ![i] = [irp[i] EXCEPT !.stage = "counted", !.op = op, !.todo = todo]]
      BY <2>1, <2>2
    <2> DEFINE x == [irp[i] EXCEPT !.stage = "counted", !.op = op, !.todo = todo]
    <2>4. x.stage = "counted" /\ x.op = op /\ x.todo = todo /\ x.status = irp[i].status /\ x.data = irp[i].data
      BY <1>0 DEF IrpRecords
    <2> HIDE DEF x
    <2>5. irp'[i] = x
      BY <1>0, <2>3 DEF x
    <2>6. irp[i] = Unissued /\ irp[i].stage = "unissued"
      BY <1>0, <1>6 DEF AddIrpCount, Todo
    <2>7. irp[i].status = "ok" /\ irp[i].data = Clear
      BY <2>6 DEF Unissued
    <2>8. PlainData(i)' = Device!NothingRead
      <3>1. \A s : ~PendingAt(i, s)' /\ ~PendingEnc(i, s)'
        BY <1>5, <2>6, NothingPending DEF PendingAt, PendingEnc
      <3>2. \A s \in Sectors : PlainCell(i, s)' = Decode(Garbage, 0)
        BY <2>4, <2>5, <2>7, <3>1 DEF PlainCell, Clear, Decode
      <3>3. QED
        BY <3>2, PlainDataIs DEF Device!NothingRead, NoData
    <2>9. PlainRequest(i)' = Device!Request("ok", op.kind = "write", todo, Device!NothingRead)
      BY <2>4, <2>5, <2>7, <2>8, PlainCasesNext
    <2>10. PlainRequest(i) = Device!Unissued
      BY <2>6, PlainCases
    <2>11. (op.kind = "write") \in BOOLEAN
      OBVIOUS
    <2>12. QED
      BY <1>3, <1>4, <2>2, <2>9, <2>10, <2>11, IssueStep DEF DeviceStep
  <1>7. CASE AddIrpEnqueue(i) \/ AddIrpRefuseSignal(i)
    <2>1. PICK x \in {"queued", "rejected"} : irp' = [irp EXCEPT ![i] = [irp[i] EXCEPT !.stage = x]]
      BY <1>7 DEF AddIrpEnqueue, AddIrpRefuseSignal
    <2>2. irp'[i].stage = x /\ irp'[i].op = irp[i].op /\ irp'[i].todo = irp[i].todo /\ irp'[i].status = irp[i].status
          /\ irp'[i].data = irp[i].data
      BY <1>0, <2>1 DEF IrpRecords
    <2>3. irp[i].stage \notin {"unissued", "completed"}
      BY <1>7 DEF AddIrpEnqueue, AddIrpRefuseSignal
    <2>4. PlainRequest(i)' = PlainRequest(i)
      BY <1>5, <2>2, <2>3, DataSeenStays, SeenStays
    <2>5. QED
      BY <1>3, <1>4, <2>4, NoStep DEF OthersSame, DeviceStep
  <1>8. CASE AddIrpRefuse(i)
    <2>1. PICK x \in {"refusing", "rejected"} : irp' = [irp EXCEPT ![i] = [irp[i] EXCEPT !.stage = x, !.status = "failed"]]
      BY <1>8 DEF AddIrpRefuse
    <2>2. irp'[i].stage = x /\ irp'[i].status = "failed"
      BY <1>0, <2>1 DEF IrpRecords
    <2>3. irp[i].stage = "counted"
      BY <1>8 DEF AddIrpRefuse
    <2>4. QED
      BY <1>3, <1>4, <2>2, <2>3, FailedStep
  <1>9. QED
    BY <1>6, <1>7, <1>8 DEF AddIrp

(* The issuer has its answer when the work item completes the IRP *)
LEMMA WorkDevice ==
    ASSUME TypeOK, Inv, TodoInv, [Next]_vars, NEW i \in Irps, CompleteIrpWorkItemRoutine(i)
    PROVE  DeviceStep
  <1>0. irp \in [Irps -> IrpRecords] /\ irp[i] \in IrpRecords /\ Todo(i)
    BY DEF TypeOK, TodoInv
  <1>1. UNCHANGED <<io, comp, store>>
    BY DEF CompleteIrpWorkItemRoutine, WorkCount, WorkSignal, WorkCompleteIrp, WorkLeave, WorkReturn
  <1>2. ~IoRead /\ ~CompDecrypt
    <2>1. ~IoRead
      BY <1>1, RequestMovesEffect
    <2>2. CompDecrypt => comp.pc = "drain" /\ comp'.pc # "drain"
      BY DEF CompDecrypt
    <2>3. QED
      BY <1>1, <2>1, <2>2
  <1>3. PlainContent' = PlainContent
    BY <1>1, ContentStays
  <1>4. CASE WorkSignal(i) \/ WorkLeave(i) \/ WorkReturn(i)
    <2>1. irp' = irp
      BY <1>4 DEF WorkSignal, WorkLeave, WorkReturn
    <2>2. \A j \in Irps : PlainRequest(j)' = PlainRequest(j)
      BY <1>2, <2>1, OtherSeenStays
    <2>3. QED
      BY <1>3, <2>2, NoStep DEF DeviceStep
  <1>5. CASE WorkCount(i) \/ WorkCompleteIrp(i)
    <2>1. PICK x \in {"uncounted", "completed"} : irp' = [irp EXCEPT ![i] = [irp[i] EXCEPT !.stage = x]]
                /\ (x = "completed" <=> WorkCompleteIrp(i))
      <3>1. CASE WorkCount(i)
        BY <3>1 DEF WorkCount, WorkCompleteIrp
      <3>2. CASE WorkCompleteIrp(i)
        BY <3>2 DEF WorkCompleteIrp
      <3>3. QED
        BY <1>5, <3>1, <3>2
    <2>2. irp'[i].stage = x /\ irp'[i].op = irp[i].op /\ irp'[i].todo = irp[i].todo /\ irp'[i].status = irp[i].status
          /\ irp'[i].data = irp[i].data
      BY <1>0, <2>1 DEF IrpRecords
    <2>3. OthersSame(i)
      <3>1. \A j \in Irps : j # i => irp'[j] = irp[j]
        BY <1>0, <2>1
      <3>2. QED
        BY <1>2, <3>1, OtherSeenStays DEF OthersSame
    <2>4. PlainData(i)' = PlainData(i)
      BY <1>2, <2>2, UndecryptedStays, DataSeenStays
    <2>5. /\ WorkCount(i) => irp[i].stage = "active"
          /\ WorkCompleteIrp(i) => irp[i].stage \in {"uncounted", "completed"} /\ worker[i] # "none"
      BY DEF WorkCount, WorkCompleteIrp, Inv, Responsible, WorkerOK
    <2>6. CASE WorkCount(i) \/ irp[i].stage = "completed"
      <3>1. PlainRequest(i)' = PlainRequest(i)
        BY <1>5, <2>1, <2>2, <2>4, <2>5, <2>6, SeenStays DEF WorkCount, WorkCompleteIrp
      <3>2. QED
        BY <1>3, <2>3, <3>1, NoStep DEF OthersSame, DeviceStep
    <2>7. CASE WorkCompleteIrp(i) /\ irp[i].stage = "uncounted" /\ irp[i].status # "ok"
      <3>1. PlainRequest(i)' = PlainRequest(i)
        BY <2>2, <2>7, PlainCases, PlainCasesNext
      <3>2. QED
        BY <1>3, <2>3, <3>1, NoStep DEF OthersSame, DeviceStep
    <2>8. CASE WorkCompleteIrp(i) /\ irp[i].stage = "uncounted" /\ irp[i].status = "ok"
      <3>1. ~Undecided(i) /\ \A s \in Sectors : ~ToCut(i, s) /\ ~ToMove(i, s)
        BY <2>8, MainHolds
      <3>2. irp[i].todo = {}
        <4>1. \A s \in Sectors : s \notin irp[i].todo
          BY <1>0, <2>8, <3>1 DEF Todo
        <4>2. irp[i].todo \subseteq Sectors
          BY <1>0 DEF IrpRecords
        <4>3. QED
          BY <4>1, <4>2
      <3>3. PlainRequest(i) = Device!Request("ok", irp[i].op.kind = "write", {}, PlainData(i))
        BY <2>8, <3>2, PlainCases
      <3>4. PlainRequest(i)' = Device!Request("done", irp[i].op.kind = "write", {}, PlainData(i))
        BY <2>1, <2>2, <2>4, <2>8, <3>2, PlainCasesNext
      <3>5. QED
        BY <1>3, <2>3, <3>3, <3>4, SuccessStep DEF DeviceStep
    <2>9. QED
      BY <1>5, <2>5, <2>6, <2>7, <2>8
  <1>6. QED
    BY <1>4, <1>5 DEF CompleteIrpWorkItemRoutine

(* A cell that is not garbage and its number of layers *)
LEMMA LayersMove ==
    ASSUME NEW c \in Cells, c.writer # "garbage", NEW n \in Int
    PROVE  /\ AddLayers(c, n).writer = c.writer /\ AddLayers(c, n).sector = c.sector
           /\ AddLayers(c, n).layers = c.layers + n
  <1>1. c # Garbage
    BY DEF Garbage, Cell
  <1>2. AddLayers(c, n) = [c EXCEPT !.layers = c.layers + n]
    BY <1>1 DEF AddLayers
  <1>3. QED
    BY <1>2 DEF Cells

LEMMA DecodeLayers ==
    ASSUME NEW c \in Cells, c.writer # "garbage"
    PROVE  /\ Decode(AddLayers(c, -1), 0) = Decode(c, 1)
           /\ Decode(AddLayers(c, 0), 0) = Decode(c, 0)
           /\ Decode(AddLayers(c, 1), 1) = Decode(c, 0)
  <1>1. c.layers \in Int
    BY DEF Cells
  <1>2. Decode(AddLayers(c, -1), 0) = Decode(c, 1)
    <2>1. AddLayers(c, -1).writer = c.writer /\ AddLayers(c, -1).sector = c.sector /\ AddLayers(c, -1).layers = c.layers + (-1)
      BY LayersMove
    <2>2. QED
      BY <1>1, <2>1 DEF Decode
  <1>3. Decode(AddLayers(c, 0), 0) = Decode(c, 0)
    BY <1>1, LayersMove DEF Decode
  <1>4. Decode(AddLayers(c, 1), 1) = Decode(c, 0)
    BY <1>1, LayersMove DEF Decode
  <1>5. QED
    BY <1>2, <1>3, <1>4

(* The main thread answers an IRP itself *)
LEMMA DecideDevice ==
    ASSUME TypeOK, Inv, PathInv, StoreInv, WholeOperations, TodoInv, [Next]_vars, Decides
    PROVE  DeviceStep
  <1>a. main.irp \in Irps
    BY DEF TypeOK, MainOK, Decides, MainReject, MainDeny, MainMisaligned
  <1>b. PICK i \in Irps : i = main.irp
    BY <1>a
  <1>0. irp \in [Irps -> IrpRecords] /\ irp[i] \in IrpRecords /\ Todo(i)
    BY DEF TypeOK, TodoInv
  <1>1. UNCHANGED <<io, comp>> /\ store'.disk = store.disk /\ store'.start = store.start /\ store'.end = store.end
    BY DEF TypeOK, StoreRecords, Decides, MainReject, MainDeny, MainMisaligned
  <1>2. ~IoRead /\ ~CompDecrypt
    <2>1. ~IoRead
      BY <1>1, RequestMovesEffect
    <2>2. CompDecrypt => comp.pc = "drain" /\ comp'.pc # "drain"
      BY DEF CompDecrypt
    <2>3. QED
      BY <1>1, <2>1, <2>2
  <1>3. PlainContent' = PlainContent
    BY <1>1, ContentStays
  <1>4. Undecided(i) /\ irp[i].stage = "active"
    <2>1. Undecided(i)
      BY <1>b DEF Undecided, Decides, MainReject, MainDeny, MainMisaligned
    <2>2. QED
      BY <1>0, <2>1, MainHolds
  <1>5. OthersSame(i)
    <2>1. \A j \in Irps : j # i => irp'[j] = irp[j]
      BY <1>0, <1>b DEF Decides, MainReject, MainDeny, MainFinish, MainMisaligned
    <2>2. QED
      BY <1>2, <2>1, OtherSeenStays DEF OthersSame
  <1>6. irp'[i].stage = irp[i].stage /\ irp'[i].op = irp[i].op
    BY <1>0, DecisionEffect DEF Decides
  <1>7. CASE MainReject \/ MainDeny
    <2>1. PICK status \in {"cancelled", "invalid", "failed", "protected"} : irp' = [irp EXCEPT ![i].status = status]
      BY <1>7, <1>b DEF MainReject, MainDeny, MainFinish
    <2>2. irp'[i].status # "ok"
      BY <1>0, <2>1 DEF IrpRecords
    <2>3. QED
      BY <1>0, <1>3, <1>4, <1>5, <1>6, <2>2, FailedStep
  <1>8. CASE MainMisaligned
    <2> DEFINE op == irp[i].op
               T == irp[i].todo
               data == [s \in Sectors |->
                          IF s \notin irp[i].todo THEN irp[i].data[s]
                          ELSE IF s \in SecRegion THEN Cell("region", s, 0)
                          ELSE AddLayers(store.disk[s], IF s \in Area THEN -1 ELSE 0)]
    <2>1. irp' = [irp EXCEPT ![i] = [irp[i] EXCEPT !.todo = {}, !.data = data]] /\ Misaligned(op)
      BY <1>8, <1>b DEF MainMisaligned
    <2>2. \A s \in Sectors : data[s] =
                          IF s \notin irp[i].todo THEN irp[i].data[s]
                          ELSE IF s \in SecRegion THEN Cell("region", s, 0)
                          ELSE AddLayers(store.disk[s], IF s \in Area THEN -1 ELSE 0)
      OBVIOUS
    <2> HIDE DEF data
    <2>3. irp'[i].todo = {} /\ irp'[i].data = data /\ irp'[i].status = irp[i].status
      BY <1>0, <2>1 DEF IrpRecords
    <2>4. op.kind = "read" /\ op \in Ops /\ T = Asked(op) /\ op.off \in Nat /\ op.len \in Nat
      <3>1. op.kind = "read" /\ op \in Ops
        BY <1>0, <2>1 DEF Misaligned, IrpRecords, Unissued
      <3>2. QED
        BY <1>0, <1>4, <3>1, QueueAssumption DEF Todo
    <2>5. Undecrypted' = Undecrypted
      BY <1>2, UndecryptedStays
    <2>6. \A s : ~PendingAt(i, s) /\ ~PendingEnc(i, s) /\ ~PendingAt(i, s)' /\ ~PendingEnc(i, s)'
      <3>1. \A r \in Undecrypted : r.irp # i
        <4>1. Whole
          BY <1>8 DEF MainMisaligned, Whole
        <4>2. QED
          BY <1>b, <4>1, UndecryptedIs DEF Underway, IoPart, Fragments, IoHas, Inv, Responsible, MainHasIrp
      <3>2. QED
        BY <2>5, <3>1 DEF PendingAt, PendingEnc
    <2>7. ASSUME NEW s \in T PROVE s \in Sectors /\ Location(s) = s
      <3>1. s \in Sectors /\ s \in op.off .. (op.off + op.len)
        BY <2>4 DEF Asked, Sectors
      <3>2. CASE RemapOffset = 0
        BY <3>1, <3>2 DEF Location, Sectors
      <3>3. CASE RemapOffset > 0
        <4>1. s \notin InitialArea
          BY <2>1, <2>4, <3>1, <3>3 DEF WholeOperations
        <4>2. s \notin Area
          BY <3>3, <4>1 DEF Area, InitialArea, StoreInv, AreaOK
        <4>3. QED
          BY <3>1, <4>2 DEF Location
      <3>4. QED
        BY <3>2, <3>3, QueueAssumption
    <2>8. ASSUME NEW s \in Sectors PROVE PlainData(i)'[s] = IF s \in T THEN PlainContent[s] ELSE PlainData(i)[s]
      <3>1. PlainData(i)'[s] = Decode(data[s], 0) /\ PlainData(i)[s] = Decode(irp[i].data[s], 0)
        BY <1>0, <2>3, <2>6, PlainDataIs DEF PlainCell, Decode
      <3>2. CASE s \notin T
        BY <2>2, <3>1, <3>2
      <3>3. CASE s \in T /\ s \in SecRegion
        <4>1. data[s] = Cell("region", s, 0)
          BY <2>2, <3>3
        <4>2. Decode(data[s], 0) = [writer |-> "region", sector |-> s]
          BY <4>1 DEF Decode, Cell
        <4>3. PlainContent[s] = [writer |-> "region", sector |-> s]
          BY <3>3 DEF PlainContent
        <4>4. QED
          BY <3>1, <3>3, <4>2, <4>3
      <3>4. CASE s \in T /\ s \notin SecRegion
        <4>1. PlainContent[s] = Decode(store.disk[s], IF s \in Area THEN 1 ELSE 0)
          BY <2>7, <3>4 DEF PlainContent
        <4>2. store.disk[s] \in Cells /\ store.disk[s].writer # "garbage"
          <5>1. s \in PhysicalSectors
            BY <2>7, <3>4, LocationOnDisk
          <5>2. QED
            BY <5>1 DEF TypeOK, StoreRecords, StoreInv, DiskOK
        <4>3. data[s] = AddLayers(store.disk[s], IF s \in Area THEN -1 ELSE 0)
          BY <2>2, <3>4
        <4>4. QED
          BY <3>1, <3>4, <4>1, <4>2, <4>3, DecodeLayers
      <3>5. QED
        BY <3>2, <3>3, <3>4
    <2>9. CASE irp[i].status # "ok"
      <3>1. PlainRequest(i)' = PlainRequest(i)
        BY <1>0, <1>4, <1>6, <2>3, <2>9, PlainCases, PlainCasesNext
      <3>2. QED
        BY <1>3, <1>5, <3>1, NoStep DEF OthersSame, DeviceStep
    <2>10. CASE irp[i].status = "ok"
      <3>1. PlainRequest(i) = Device!Request("ok", FALSE, T, PlainData(i))
        BY <1>0, <1>4, <2>4, <2>10, PlainCases
      <3>2. PlainRequest(i)' = Device!Request("ok", FALSE, T \ T, PlainData(i)')
        BY <1>0, <1>4, <1>6, <2>3, <2>4, <2>10, PlainCasesNext
      <3>3. Device!Next
        BY <1>0, <1>3, <1>5, <2>8, <3>1, <3>2, ReadTransfer
      <3>4. QED
        BY <3>3 DEF DeviceStep
    <2>11. QED
      BY <2>9, <2>10
  <1>9. QED
    BY <1>7, <1>8 DEF Decides

(* The main thread begins with an IRP *)
LEMMA AdmitDevice ==
    ASSUME TypeOK, Inv, [Next]_vars, Admits
    PROVE  DeviceStep
  <1>0. irp \in [Irps -> IrpRecords]
    BY DEF TypeOK
  <1>1. UNCHANGED <<io, comp, store>> /\ main.pc \in {"suspendCheck", "suspended"}
    BY DEF Admits, MainSuspendCheck, MainResumed
  <1>2. ~IoRead /\ ~CompDecrypt
    <2>1. ~IoRead
      BY <1>1, RequestMovesEffect
    <2>2. CompDecrypt => comp.pc = "drain" /\ comp'.pc # "drain"
      BY DEF CompDecrypt
    <2>3. QED
      BY <1>1, <2>1, <2>2
  <1>3. PlainContent' = PlainContent
    BY <1>1, ContentStays
  <1>4. main.irp \in Irps /\ irp[main.irp].stage = "queued"
    BY <1>1, WaitsForIrp DEF Waits, Inv, Responsible, MainQueueOK
  <1>5. irp' = irp \/ irp' = [irp EXCEPT ![main.irp] = [irp[main.irp] EXCEPT !.stage = "active"]]
    BY DEF Admits, MainSuspendCheck, MainResumed, Admit
  <1>6. ASSUME NEW j \in Irps PROVE PlainRequest(j)' = PlainRequest(j)
    <2>1. CASE irp'[j] = irp[j]
      BY <1>2, <2>1, OtherSeenStays
    <2>2. CASE irp'[j] # irp[j]
      <3>1. j = main.irp /\ irp'[j] = [irp[j] EXCEPT !.stage = "active"]
        BY <1>0, <1>4, <1>5, <2>2
      <3>2. /\ irp'[j].stage = "active" /\ irp'[j].op = irp[j].op /\ irp'[j].todo = irp[j].todo
            /\ irp'[j].status = irp[j].status /\ irp'[j].data = irp[j].data
        BY <1>0, <3>1 DEF IrpRecords
      <3>3. PlainData(j)' = PlainData(j)
        BY <1>2, <3>2, UndecryptedStays, DataSeenStays
      <3>4. QED
        BY <1>4, <3>1, <3>2, <3>3, SeenStays
    <2>3. QED
      BY <2>1, <2>2
  <1>7. QED
    BY <1>3, <1>6, NoStep DEF DeviceStep

LEMMA FlushDevice ==
    ASSUME TypeOK, Inv, [Next]_vars, IoFlush
    PROVE  DeviceStep
  <1>0. irp \in [Irps -> IrpRecords]
    BY DEF TypeOK
  <1>1. PICK i : i = io.req.irp
    OBVIOUS
  <1>2. UNCHANGED <<comp, store>> /\ io.pc = "io" /\ io'.pc \notin {"io", "readDone"}
    BY RequestMovesEffect DEF IoFlush
  <1>3. i \in Irps /\ irp[i].stage = "active" /\ irp[i] \in IrpRecords
    <2>1. io.req \in Underway
      BY <1>2 DEF Underway, IoPart
    <2>2. QED
      BY <1>1, <2>1, UnderwayTypes
  <1>4. ~IoRead /\ ~CompDecrypt
    <2>1. ~IoRead
      BY <1>2, RequestMovesEffect
    <2>2. CompDecrypt => comp.pc = "drain" /\ comp'.pc # "drain"
      BY SMTT(30) DEF CompDecrypt
    <2>3. QED
      BY <1>2, <2>1, <2>2
  <1>5. PlainContent' = PlainContent
    BY <1>2, ContentStays
  <1>6. PICK status : irp' = [irp EXCEPT ![i].status = status] /\ (status = irp[i].status \/ status = "failed")
    BY <1>1 DEF IoFlush
  <1>7. irp'[i].status = status /\ irp'[i].stage = irp[i].stage /\ irp'[i].op = irp[i].op
        /\ irp'[i].todo = irp[i].todo /\ irp'[i].data = irp[i].data
    BY <1>0, <1>3, <1>6 DEF IrpRecords
  <1>8. OthersSame(i)
    <2>1. \A j \in Irps : j # i => irp'[j] = irp[j]
      BY <1>0, <1>6
    <2>2. QED
      BY <1>4, <2>1, OtherSeenStays DEF OthersSame
  <1>9. CASE status = irp[i].status
    <2>1. PlainData(i)' = PlainData(i)
      BY <1>3, <1>4, <1>7, UndecryptedStays, DataSeenStays
    <2>2. PlainRequest(i)' = PlainRequest(i)
      BY <1>3, <1>7, <1>9, <2>1, SeenStays
    <2>3. QED
      BY <1>5, <1>8, <2>2, NoStep DEF OthersSame, DeviceStep
  <1>10. CASE status = "failed"
    BY <1>3, <1>5, <1>7, <1>8, <1>10, FailedStep
  <1>11. QED
    BY <1>6, <1>9, <1>10

LEMMA ReadDevice ==
    ASSUME TypeOK, Inv, PathInv, StoreInv, WholeOperations, TodoInv, [Next]_vars, IoRead
    PROVE  DeviceStep
  <1>1. PICK r : r = io.req
    OBVIOUS
  <1>2. PICK i : i = r.irp
    OBVIOUS
  <1>3. io.pc = "io" /\ io'.pc = "readDone" /\ io'.req = r /\ list'.comp = list.comp /\ UNCHANGED store
    BY <1>1, RequestMovesEffect
  <1>4. r \in Underway /\ r \in IoPart /\ r \in IoIn
    BY <1>1, <1>3 DEF Underway, IoPart, IoIn
  <1>5. r \in Requests /\ i \in Irps /\ irp[i].stage = "active" /\ irp[i] \in IrpRecords /\ Shape(r) /\ Todo(i)
        /\ irp[i].op.kind = "read"
    BY <1>1, <1>2, <1>4, UnderwayTypes DEF PathInv, ShapeInv, TodoInv, IoRead
  <1>6. PlainContent' = PlainContent
    BY <1>3, ContentStays
  <1>7. Undecrypted = Of(list.comp) /\ Undecrypted' = Undecrypted \cup {r}
    BY <1>3, UndecryptedIs DEF Of
  <1>8. \A j : j # i => \A q : q.irp = j => (q \in Undecrypted' <=> q \in Undecrypted)
    BY <1>2, <1>7
  <1>9. CASE irp[i].status # "ok"
    <2>1. irp' = irp
      BY <1>1, <1>2, <1>9 DEF IoRead, DeviceRead
    <2>2. ASSUME NEW j \in Irps PROVE PlainRequest(j)' = PlainRequest(j)
      <3>1. CASE j = i
        BY <1>5, <1>9, <2>1, <3>1, PlainCases, PlainCasesNext
      <3>2. CASE j # i
        BY <1>8, <2>1, <3>2, DataSeenStays, SeenStays
      <3>3. QED
        BY <3>1, <3>2
    <2>3. QED
      BY <1>6, <2>2, NoStep DEF DeviceStep
  <1>10. CASE irp[i].status = "ok"
    <2>1. /\ \A j \in Irps : j # i => irp'[j] = irp[j]
          /\ irp'[i].stage = irp[i].stage /\ irp'[i].op = irp[i].op
          /\ \/ irp'[i].status = "failed"
             \/ /\ irp'[i].status = "ok" /\ irp'[i].todo = irp[i].todo \ Extent(r)
                /\ \A s \in Extent(r) : irp'[i].data[s] = store.disk[Location(s)]
                /\ \A s \in Sectors \ Extent(r) : irp'[i].data[s] = irp[i].data[s]
      BY <1>1, <1>2, <1>10, ReadEffect
    <2>2. OthersSame(i)
      <3> SUFFICES ASSUME NEW j \in Irps, j # i PROVE PlainRequest(j)' = PlainRequest(j)
        BY DEF OthersSame
      <3>1. irp'[j] = irp[j]
        BY <2>1
      <3>2. PlainData(j)' = PlainData(j)
        BY <1>8, <3>1, DataSeenStays
      <3>3. QED
        BY <3>1, <3>2, SeenStays
    <2>3. CASE irp'[i].status = "failed"
      BY <1>5, <1>6, <2>1, <2>2, <2>3, FailedStep
    <2>4. CASE irp'[i].status # "failed"
      <3>1. /\ irp'[i].status = "ok" /\ irp'[i].todo = irp[i].todo \ Extent(r)
            /\ \A s \in Extent(r) : irp'[i].data[s] = store.disk[Location(s)]
            /\ \A s \in Sectors \ Extent(r) : irp'[i].data[s] = irp[i].data[s]
        BY <2>1, <2>4
      <3>2. Extent(r) \subseteq irp[i].todo
        <4>1. ~Undecided(i)
          <5>1. r \in Fragments
            BY <1>1, <1>3 DEF Fragments, IoHas
          <5>2. QED
            BY <1>2, <5>1 DEF Undecided, Whole, Inv, Responsible, MainHasIrp
        <4>2. \A s \in Extent(r) : s \in Sectors /\ ToMove(i, s)
          BY <1>2, <1>4 DEF ToMove, Extent
        <4>3. QED
          BY <1>5, <1>10, <4>1, <4>2 DEF Todo
      <3>3. \A q \in Undecrypted : q.irp = i => Extent(q) \cap Extent(r) = {}
        BY <1>2, <1>4, <1>7 DEF PathInv, SeparateInv, AllApart, Apart
      <3>4. ASSUME NEW s \in Sectors PROVE PlainData(i)'[s] = IF s \in Extent(r) THEN PlainContent[s] ELSE PlainData(i)[s]
        <4>1. PlainData(i)'[s] = PlainCell(i, s)' /\ PlainData(i)[s] = PlainCell(i, s)
          BY <1>5, PlainDataIs
        <4>2. CASE s \in Extent(r)
          <5>1. \A q \in Undecrypted : q.irp = i => s \notin Extent(q)
            BY <3>3, <4>2
          <5>2. PendingAt(i, s)' /\ (PendingEnc(i, s)' <=> s \in Enc(r))
            BY <1>2, <1>7, <4>2, <5>1 DEF PendingAt, PendingEnc, Extent, Enc
          <5>3. s \in Enc(r) <=> s \in Area
            BY <1>5, <4>2, DeviceLocation
          <5>4. irp'[i].data[s] = store.disk[Location(s)]
            BY <3>1, <4>2
          <5>5. PlainCell(i, s)' = IF s \in SecRegion THEN [writer |-> "region", sector |-> s]
                                   ELSE Decode(store.disk[Location(s)], IF s \in Area THEN 1 ELSE 0)
            BY <5>2, <5>3, <5>4 DEF PlainCell, Decode
          <5>6. QED
            BY <4>1, <4>2, <5>5 DEF PlainContent
        <4>3. CASE s \notin Extent(r)
          <5>1. (PendingAt(i, s)' <=> PendingAt(i, s)) /\ (PendingEnc(i, s)' <=> PendingEnc(i, s))
            BY <1>7, <4>3 DEF PendingAt, PendingEnc, Extent, Enc
          <5>2. irp'[i].data[s] = irp[i].data[s]
            BY <3>1, <4>3
          <5>3. PlainCell(i, s)' = PlainCell(i, s)
            BY <5>1, <5>2 DEF PlainCell, Decode
          <5>4. QED
            BY <4>1, <4>3, <5>3
        <4>4. QED
          BY <4>2, <4>3
      <3>5. PlainRequest(i) = Device!Request("ok", FALSE, irp[i].todo, PlainData(i))
        BY <1>5, <1>10, PlainCases
      <3>6. PlainRequest(i)' = Device!Request("ok", FALSE, irp[i].todo \ Extent(r), PlainData(i)')
        BY <1>5, <2>1, <3>1, PlainCasesNext
      <3>7. Device!Next
        <4>1. PICK T, S : T = irp[i].todo /\ S = Extent(r)
          OBVIOUS
        <4>2. QED
          BY <1>5, <1>6, <2>2, <3>2, <3>4, <3>5, <3>6, <4>1, ReadTransfer
      <3>8. QED
        BY <3>7 DEF DeviceStep
    <2>5. QED
      BY <2>3, <2>4
  <1>11. QED
    BY <1>9, <1>10

(* Decryption changes the data, but not what the issuer will find *)
LEMMA DecryptDevice ==
    ASSUME TypeOK, Inv, PathInv, PendingInv, [Next]_vars, CompDecrypt
    PROVE  DeviceStep
  <1>1. PICK r : r = Head(list.comp)
    OBVIOUS
  <1>2. PICK i : i = r.irp
    OBVIOUS
  <1>3. list.comp # <<>> /\ list'.comp = Tail(list.comp) /\ UNCHANGED <<io, store>> /\ list.comp \in Seq(Requests)
    BY RequestMovesEffect, ListFields
  <1>4. /\ r \in Of(list.comp) /\ r \in Requests /\ i \in Irps
        /\ \A j \in Irps : j # i => irp'[j] = irp[j]
        /\ irp'[i].stage = irp[i].stage /\ irp'[i].op = irp[i].op
        /\ irp'[i].status = irp[i].status /\ irp'[i].todo = irp[i].todo
        /\ \A s \in Sectors : irp'[i].data[s] =
              IF s \in Extent(r) \cap SecRegion THEN Cell("region", s, 0)
              ELSE IF s \in Enc(r) /\ irp[i].status = "ok" THEN AddLayers(irp[i].data[s], -1)
              ELSE irp[i].data[s]
    BY <1>1, <1>2, DecryptEffect
  <1>5. r \in Underway /\ r \in Undecrypted /\ irp[i].stage = "active" /\ Shape(r) /\ irp[i] \in IrpRecords
    <2>1. r \in Underway /\ r \in Undecrypted
      BY <1>4, UndecryptedIs DEF Underway
    <2>2. QED
      BY <1>2, <2>1, UnderwayTypes DEF PathInv, ShapeInv
  <1>6. PlainContent' = PlainContent
    BY <1>3, ContentStays
  <1>7. Undecrypted = Undecrypted' \cup {r}
    <2>1. Of(list.comp) = Of(list.comp)' \cup {r}
      BY <1>1, <1>3, OfTail
    <2>2. QED
      BY <1>3, <2>1, UndecryptedIs
  <1>8. \A q \in Undecrypted' : q.irp = i => Extent(q) \cap Extent(r) = {}
    <2>1. \A q \in Of(list.comp)' : Apart(r, q)
      BY <1>1, <1>3, SeparateTail DEF PathInv, SeparateInv, Of
    <2>2. \A q \in IoPart : Apart(r, q)
      BY <1>4 DEF PathInv, SeparateInv, AllApart
    <2>3. \A q \in Undecrypted' : q \in Of(list.comp)' \/ q \in IoPart
      BY <1>3, UndecryptedIs DEF IoPart
    <2>4. QED
      BY <1>2, <2>1, <2>2, <2>3 DEF Apart
  <1>9. ASSUME NEW j \in Irps, j # i PROVE PlainRequest(j)' = PlainRequest(j)
    <2>1. irp'[j] = irp[j]
      BY <1>4, <1>9
    <2>2. \A q : q.irp = j => (q \in Undecrypted' <=> q \in Undecrypted)
      BY <1>2, <1>7, <1>9
    <2>3. PlainData(j)' = PlainData(j)
      BY <2>1, <2>2, DataSeenStays
    <2>4. QED
      BY <2>1, <2>3, SeenStays
  <1>10. PlainRequest(i)' = PlainRequest(i)
    <2>1. CASE irp[i].status # "ok"
      BY <1>4, <1>5, <2>1, PlainCases, PlainCasesNext
    <2>2. CASE irp[i].status = "ok"
      <3>1. ASSUME NEW s \in Sectors PROVE PlainCell(i, s)' = PlainCell(i, s)
        <4>1. CASE s \in Extent(r)
          <5>1. \A q \in Undecrypted' : q.irp = i => s \notin Extent(q)
            BY <1>8, <4>1
          <5>2. ~PendingAt(i, s)' /\ ~PendingEnc(i, s)'
            BY <5>1 DEF PendingAt, PendingEnc, Extent
          <5>3. PendingAt(i, s) /\ (PendingEnc(i, s) <=> s \in Enc(r))
            BY <1>2, <1>7, <4>1, <5>1 DEF PendingAt, PendingEnc
          <5>4. PlainCell(i, s)' = Decode(irp'[i].data[s], 0)
            BY <5>2 DEF PlainCell, Decode
          <5>5. CASE s \in SecRegion
            <6>1. irp'[i].data[s] = Cell("region", s, 0)
              BY <1>4, <4>1, <5>5
            <6>2. PlainCell(i, s)' = [writer |-> "region", sector |-> s]
              BY <5>4, <6>1 DEF Decode, Cell
            <6>3. QED
              BY <5>3, <5>5, <6>2 DEF PlainCell
          <5>6. CASE s \notin SecRegion /\ s \in Enc(r)
            <6>1. irp'[i].data[s] = AddLayers(irp[i].data[s], -1)
              BY <1>4, <2>2, <5>6
            <6>2. irp[i].data[s] \in Cells /\ irp[i].data[s].writer # "garbage"
              BY <1>2, <1>5, <2>2, <4>1 DEF IrpRecords, PendingInv
            <6>3. PlainCell(i, s)' = Decode(irp[i].data[s], 1)
              BY <5>4, <6>1, <6>2, DecodeLayers
            <6>4. QED
              BY <5>3, <5>6, <6>3 DEF PlainCell
          <5>7. CASE s \notin SecRegion /\ s \notin Enc(r)
            <6>1. irp'[i].data[s] = irp[i].data[s]
              BY <1>4, <5>7
            <6>2. QED
              BY <5>3, <5>4, <5>7, <6>1 DEF PlainCell
          <5>8. QED
            BY <5>5, <5>6, <5>7
        <4>2. CASE s \notin Extent(r)
          <5>1. s \notin Enc(r)
            BY <1>5, <4>2 DEF Shape
          <5>2. irp'[i].data[s] = irp[i].data[s]
            BY <1>4, <4>2, <5>1
          <5>3. (PendingAt(i, s)' <=> PendingAt(i, s)) /\ (PendingEnc(i, s)' <=> PendingEnc(i, s))
            BY <1>7, <4>2 DEF PendingAt, PendingEnc, Extent, Enc
          <5>4. QED
            BY <5>2, <5>3 DEF PlainCell, Decode
        <4>3. QED
          BY <4>1, <4>2
      <3>2. PlainData(i)' = PlainData(i)
        BY <1>4, <3>1, PlainDataIs
      <3>3. QED
        BY <1>4, <3>2, SeenStays
    <2>3. QED
      BY <2>1, <2>2
  <1>11. QED
    BY <1>6, <1>9, <1>10, NoStep DEF DeviceStep

LEMMA WrittenStep ==
    ASSUME NEW i \in Irps, OthersSame(i), irp[i].stage = "active", irp[i].status = "ok", irp[i].op.kind = "write",
           irp'[i].stage = "active", irp'[i].status \in {"ok", "failed"}, irp'[i].op = irp[i].op,
           NEW W, W \subseteq irp[i].todo, irp'[i].todo = irp[i].todo \ W, PlainData(i)' = PlainData(i),
           \A s \in Sectors : PlainContent'[s] = IF s \in W THEN Device!Written(i, s) ELSE PlainContent[s]
    PROVE  DeviceStep
  <1>1. PlainRequest(i).state = "ok" /\ PlainRequest(i).write /\ PlainRequest(i).todo = irp[i].todo
    BY DEF PlainRequest
  <1>2. CASE irp'[i].status = "ok"
    <2>1. PICK w, T, U : w = (irp[i].op.kind = "write") /\ T = irp[i].todo /\ U = T \ W
      OBVIOUS
    <2>2. w \in BOOLEAN
      BY <2>1
    <2>3. PlainRequest(i) = Device!Request("ok", w, T, PlainData(i))
      BY <2>1, PlainCases
    <2>4. PlainRequest(i)' = Device!Request("ok", w, U, PlainData(i))
      BY <1>2, <2>1, PlainCasesNext
    <2>5. [Device!Request("ok", w, T, PlainData(i)) EXCEPT !.todo = U] = Device!Request("ok", w, U, PlainData(i))
      BY <2>2, RecordMoves
    <2>6. PlainRequest(i)' = [PlainRequest(i) EXCEPT !.todo = U] /\ U = PlainRequest(i).todo \ W
      BY <1>1, <2>1, <2>3, <2>4, <2>5
    <2>7. Device!Next
      BY <1>1, <2>6, WriteTransfer
    <2>8. QED
      BY <2>7 DEF DeviceStep
  <1>3. CASE irp'[i].status = "failed"
    <2>1. PlainRequest(i)' = Device!Request("failed", FALSE, {}, Device!NothingRead)
      BY <1>3, PlainCasesNext
    <2>2. Device!Next
      BY <1>1, <2>1, WriteFails
    <2>3. QED
      BY <2>2 DEF DeviceStep
  <1>4. QED
    BY <1>2, <1>3

LEMMA WriteDevice ==
    ASSUME TypeOK, Inv, PathInv, StoreInv, WriteInv, WholeOperations, TodoInv, [Next]_vars, IoWrite
    PROVE  DeviceStep
  <1>1. PICK r : r = io.req
    OBVIOUS
  <1>2. PICK i : i = r.irp
    OBVIOUS
  <1>3. io.pc = "io" /\ io'.pc \notin {"io", "readDone"} /\ irp[i].op.kind = "write" /\ UNCHANGED comp
    BY <1>1, <1>2, RequestMovesEffect DEF IoWrite
  <1>4. r \in Underway /\ r \in IoIn
    BY <1>1, <1>3 DEF Underway, IoPart, IoIn
  <1>5. r \in Requests /\ i \in Irps /\ irp[i].stage = "active" /\ Todo(i)
    BY <1>2, <1>4, UnderwayTypes DEF TodoInv
  <1>6. ~IoRead /\ ~CompDecrypt
    <2>1. ~IoRead
      BY <1>3, RequestMovesEffect
    <2>2. CompDecrypt => comp.pc = "drain" /\ comp'.pc # "drain"
      BY DEF CompDecrypt
    <2>3. QED
      BY <1>3, <2>1, <2>2
  <1>7. CASE irp[i].status # "ok"
    <2>1. irp' = irp /\ store' = store
      BY <1>1, <1>2, <1>7 DEF IoWrite, DeviceWrite
    <2>2. \A j \in Irps : PlainRequest(j)' = PlainRequest(j)
      BY <1>6, <2>1, OtherSeenStays
    <2>3. QED
      BY <2>1, <2>2, ContentStays, NoStep DEF DeviceStep
  <1>8. CASE irp[i].status = "ok"
    <2>1. PICK W \in SUBSET Extent(r) :
              /\ \A j \in Irps : j # i => irp'[j] = irp[j]
              /\ irp'[i].stage = irp[i].stage /\ irp'[i].op = irp[i].op /\ irp'[i].data = irp[i].data
              /\ irp'[i].todo = irp[i].todo \ W
              /\ irp'[i].status \in {"ok", "failed"}
              /\ \A s \in W : store'.disk[Location(s)] = Cell(i, s, IF s \in Area THEN 1 ELSE 0)
              /\ \A s \in Sectors \ W : store'.disk[Location(s)] = store.disk[Location(s)]
              /\ store'.start = store.start /\ store'.end = store.end
      BY <1>1, <1>2, <1>8, WriteEffect
    <2>2. W \subseteq irp[i].todo
      <3>1. ~Undecided(i)
        <4>1. r \in Fragments
          BY <1>1, <1>3 DEF Fragments, IoHas
        <4>2. QED
          BY <1>2, <4>1 DEF Undecided, Whole, Inv, Responsible, MainHasIrp
      <3>2. \A s \in W : s \in Sectors /\ ToMove(i, s)
        BY <1>2, <1>4, <2>1 DEF ToMove, Extent
      <3>3. QED
        BY <1>5, <1>8, <3>1, <3>2 DEF Todo
    <2>3. \A s \in W : s \in Sectors /\ s \notin SecRegion
      <3>1. Extent(r) \cap Forbidden = {}
        BY <1>2, <1>3, <1>4 DEF WriteInv, FragmentsAvoid, Avoids
      <3>2. QED
        BY <2>1, <3>1 DEF Forbidden, Extent
    <2>4. OthersSame(i)
      BY <1>6, <2>1, OtherSeenStays DEF OthersSame
    <2>5. PlainData(i)' = PlainData(i)
      BY <1>5, <1>6, <2>1, UndecryptedStays, DataSeenStays
    <2>6. Area' = Area /\ \A s : Location(s)' = Location(s)
      BY <2>1 DEF Area, Location
    <2>7. ASSUME NEW s \in Sectors PROVE PlainContent'[s] = IF s \in W THEN Device!Written(i, s) ELSE PlainContent[s]
      <3>1. PlainContent'[s] = IF s \in SecRegion THEN [writer |-> "region", sector |-> s]
                               ELSE Decode(store'.disk[Location(s)], IF s \in Area THEN 1 ELSE 0)
        BY <2>6 DEF PlainContent, Decode
      <3>2. CASE s \in W
        <4>1. store'.disk[Location(s)] = Cell(i, s, IF s \in Area THEN 1 ELSE 0)
          BY <2>1, <3>2
        <4>2. PlainContent'[s] = Decode(Cell(i, s, IF s \in Area THEN 1 ELSE 0), IF s \in Area THEN 1 ELSE 0)
          BY <2>3, <3>1, <3>2, <4>1
        <4>3. QED
          BY <3>2, <4>2 DEF Decode, Cell, Device!Written
      <3>3. CASE s \notin W
        BY <2>1, <3>1, <3>3 DEF PlainContent
      <3>4. QED
        BY <3>2, <3>3
    <2>8. QED
      BY <1>3, <1>5, <1>8, <2>1, <2>2, <2>4, <2>5, <2>7, WrittenStep
  <1>9. QED
    BY <1>7, <1>8

(* Re-encryption of a block by the holder of the queue changes the disk and *)
(* the area, but not the plaintext                                         *)
LEMMA HeldDevice ==
    ASSUME TypeOK, Inv, StoreInv, [Next]_vars, HeldWrite
    PROVE  DeviceStep
  <1>0. store \in StoreRecords /\ DiskLength \in Nat
    BY QueueAssumption DEF TypeOK
  <1>1. UNCHANGED <<irp, list, io, comp>> /\ hold.pc \in {"encrypting", "decrypting"} /\ RemapOffset = 0
    BY DEF HeldWrite, StoreInv, BlockOK
  <1>2. ~IoRead /\ ~CompDecrypt
    <2>1. ~IoRead
      BY <1>1, RequestMovesEffect
    <2>2. CompDecrypt => comp.pc = "drain" /\ comp'.pc # "drain"
      BY DEF CompDecrypt
    <2>3. QED
      BY <1>1, <2>1, <2>2
  <1>3. \A j \in Irps : PlainRequest(j)' = PlainRequest(j)
    BY <1>1, <1>2, OtherSeenStays
  <1>4. \A s \in Sectors : Location(s) = s /\ Location(s)' = s /\ s \in PhysicalSectors /\ s \in Int
    BY <1>0, <1>1 DEF Location, Sectors, PhysicalSectors
  <1>5. \A s \in Sectors : store.disk[s] \in Cells /\ store.disk[s].writer # "garbage"
    BY <1>0, <1>4 DEF StoreRecords, StoreInv, DiskOK
  <1>6. \/ store.start = -1 /\ store.end = -1
        \/ store.start \in Sectors /\ store.end \in Sectors /\ store.start <= store.end
    BY DEF StoreInv, AreaOK
  <1>7. ASSUME NEW s \in Sectors PROVE PlainContent'[s] = PlainContent[s]
    <2>1. /\ PlainContent[s] = IF s \in SecRegion THEN [writer |-> "region", sector |-> s]
                               ELSE Decode(store.disk[s], IF s \in Area THEN 1 ELSE 0)
          /\ PlainContent'[s] = IF s \in SecRegion THEN [writer |-> "region", sector |-> s]
                                ELSE Decode(store'.disk[s], IF s \in Area' THEN 1 ELSE 0)
      BY <1>4 DEF PlainContent, Decode
    <2>2. CASE hold.pc = "encrypting"
      <3>1. NextBlock \in Sectors /\ hold.cell = AddLayers(store.disk[NextBlock], 1)
        BY <2>2 DEF StoreInv, BlockOK
      <3>2. store' = [store EXCEPT !.disk[NextBlock] = hold.cell, !.end = NextBlock,
                                   !.start = IF Area = {} THEN 0 ELSE store.start]
        BY <2>2 DEF HeldWrite
      <3>3. PICK b \in Sectors : b = NextBlock
        BY <3>1
      <3>4. /\ store'.disk = [store.disk EXCEPT ![b] = hold.cell] /\ store'.end = b
            /\ store'.start = IF Area = {} THEN 0 ELSE store.start
        BY <1>0, <3>2, <3>3 DEF StoreRecords
      <3>5. b = (IF Area = {} THEN 0 ELSE store.end + 1)
        BY <3>3 DEF NextBlock
      <3>6. b \notin Area /\ (s \in Area' <=> s \in Area \/ s = b)
        <4>1. CASE Area = {}
          <5>1. b = 0 /\ store'.start = 0 /\ store'.end = 0
            BY <3>4, <3>5, <4>1
          <5>2. Area' = {0}
            BY <5>1 DEF Area
          <5>3. QED
            BY <4>1, <5>1, <5>2
        <4>2. CASE Area # {}
          <5>1. store.start # -1 /\ store.end # -1 /\ Area = store.start .. store.end
            BY <4>2 DEF Area
          <5>2. store.start \in Sectors /\ store.end \in Sectors /\ store.start <= store.end
            BY <1>6, <5>1
          <5>3. b = store.end + 1 /\ store'.start = store.start /\ store'.end = b
            BY <3>4, <3>5, <4>2
          <5>4. store.start \in Nat /\ store.end \in Nat /\ b \in Nat
            BY <1>0, <5>2, <5>3 DEF Sectors
          <5>5. Area' = store.start .. b
            BY <5>1, <5>3, <5>4 DEF Area
          <5>6. QED
            BY <1>4, <5>1, <5>2, <5>3, <5>4, <5>5
        <4>3. QED
          BY <4>1, <4>2
      <3>7. CASE s = b
        <4>1. store'.disk[s] = AddLayers(store.disk[s], 1)
          BY <1>0, <1>4, <3>1, <3>3, <3>4, <3>7 DEF StoreRecords
        <4>2. Decode(store'.disk[s], 1) = Decode(store.disk[s], 0)
          BY <1>5, <4>1, DecodeLayers
        <4>3. QED
          BY <2>1, <3>6, <3>7, <4>2
      <3>8. CASE s # b
        <4>1. store'.disk[s] = store.disk[s]
          BY <1>0, <1>4, <3>4, <3>8 DEF StoreRecords
        <4>2. QED
          BY <2>1, <3>6, <3>8, <4>1
      <3>9. QED
        BY <3>7, <3>8
    <2>3. CASE hold.pc = "decrypting"
      <3>1. Area # {} /\ hold.cell = AddLayers(store.disk[store.end], -1)
        BY <2>3 DEF StoreInv, BlockOK
      <3>2. store.start # -1 /\ store.end # -1 /\ Area = store.start .. store.end
        BY <3>1 DEF Area
      <3>3. store.start \in Sectors /\ store.end \in Sectors /\ store.start <= store.end
        BY <1>6, <3>2
      <3>4. store' = [store EXCEPT !.disk[store.end] = hold.cell,
                                   !.end = IF store.end = store.start THEN -1 ELSE store.end - 1,
                                   !.start = IF store.start = store.end THEN -1 ELSE store.start]
        BY <2>3 DEF HeldWrite
      <3>5. PICK b \in Sectors : b = store.end
        BY <3>3
      <3>6. /\ store'.disk = [store.disk EXCEPT ![b] = hold.cell]
            /\ store'.end = IF b = store.start THEN -1 ELSE b - 1
            /\ store'.start = IF b = store.start THEN -1 ELSE store.start
        BY <1>0, <3>4, <3>5 DEF StoreRecords
      <3>7. b \in Area /\ (s \in Area' <=> s \in Area /\ s # b)
        <4>0. store.start \in Nat /\ b \in Nat /\ store.start <= b /\ Area = store.start .. b
          BY <1>0, <3>2, <3>3, <3>5 DEF Sectors
        <4>1. CASE b = store.start
          <5>1. Area' = {}
            BY <3>6, <4>1 DEF Area
          <5>2. QED
            BY <4>0, <4>1, <5>1
        <4>2. CASE b # store.start
          <5>1. store'.start = store.start /\ store'.end = b - 1 /\ b - 1 # -1
            BY <3>6, <4>0, <4>2
          <5>2. Area' = store.start .. (b - 1)
            BY <3>2, <5>1 DEF Area
          <5>3. QED
            BY <1>4, <4>0, <5>2
        <4>3. QED
          BY <4>1, <4>2
      <3>8. CASE s = b
        <4>1. store'.disk[s] = AddLayers(store.disk[s], -1)
          BY <1>0, <1>4, <3>1, <3>5, <3>6, <3>8 DEF StoreRecords
        <4>2. Decode(store'.disk[s], 0) = Decode(store.disk[s], 1)
          BY <1>5, <4>1, DecodeLayers
        <4>3. QED
          BY <2>1, <3>7, <3>8, <4>2
      <3>9. CASE s # b
        <4>1. store'.disk[s] = store.disk[s]
          BY <1>0, <1>4, <3>6, <3>9 DEF StoreRecords
        <4>2. QED
          BY <2>1, <3>7, <3>9, <4>1
      <3>10. QED
        BY <3>8, <3>9
    <2>4. QED
      BY <1>1, <2>2, <2>3
  <1>8. PlainContent' = PlainContent
    BY <1>7 DEF PlainContent
  <1>9. QED
    BY <1>3, <1>8, NoStep DEF DeviceStep

LEMMA OtherDevice ==
    ASSUME TypeOK, [Next]_vars, ~(\E j \in Irps : AddIrp(j) \/ CompleteIrpWorkItemRoutine(j)),
           ~Decides, ~Admits, ~TransfersData, ~HeldWrite
    PROVE  DeviceStep
  <1>1. irp' = irp
    BY OthersKeepIrps
  <1>2. \A j \in Irps : PlainRequest(j)' = PlainRequest(j)
    BY <1>1, OtherSeenStays DEF TransfersData
  <1>3. PlainContent' = PlainContent
    <2>1. CASE HeldRead
      <3>1. store' = store
        BY <2>1 DEF HeldRead
      <3>2. QED
        BY <3>1, ContentStays
    <2>2. CASE ~HeldRead
      BY <2>2, OthersKeepContent DEF TouchesDisk, TransfersData
    <2>3. QED
      BY <2>1, <2>2
  <1>4. QED
    BY <1>2, <1>3, NoStep DEF DeviceStep

LEMMA StepSimulates ==
    ASSUME TypeOK, Inv, PathInv, StoreInv, WriteInv, WholeOperations, TodoInv, PendingInv, [Next]_vars
    PROVE  [Device!Next]_(Device!vars)
  <1>1. CASE \E i \in Irps : AddIrp(i) \/ CompleteIrpWorkItemRoutine(i)
    BY <1>1, AddIrpDevice, WorkDevice DEF DeviceStep
  <1>2. CASE Decides \/ Admits
    BY <1>2, DecideDevice, AdmitDevice DEF DeviceStep
  <1>3. CASE TransfersData
    BY <1>3, FlushDevice, WriteDevice, ReadDevice, DecryptDevice DEF DeviceStep, TransfersData
  <1>4. CASE HeldWrite
    BY <1>4, HeldDevice DEF DeviceStep
  <1>5. QED
    BY <1>1, <1>2, <1>3, <1>4, OtherDevice DEF DeviceStep

LEMMA InitSimulates ==
    ASSUME Init
    PROVE  Device!Init
  <1>1. \A i \in Irps : PlainRequest(i) = Device!Unissued
    BY PlainCases DEF Init, Unissued
  <1>2. ASSUME NEW s \in Sectors
        PROVE  PlainContent[s] = [writer |-> IF s \in SecRegion THEN "region" ELSE "format", sector |-> s]
    <2>1. CASE s \in SecRegion
      BY <2>1 DEF PlainContent
    <2>2. CASE s \notin SecRegion
      <3>1. DiskLength \in Nat /\ RemapOffset \in Nat /\ s \in Nat /\ s <= DiskLength - 1
        BY QueueAssumption DEF Sectors
      <3>2. Location(s) \in PhysicalSectors
        BY LocationOnDisk
      <3>3. store.disk[Location(s)] = IF InitialStart # -1 /\ Location(s) - RemapOffset \in InitialStart .. InitialEnd
                                      THEN Cell("format", Location(s) - RemapOffset, 1)
                                      ELSE Cell("format", Location(s), 0)
        BY <3>2 DEF Init
      <3>4. store.start = InitialStart /\ store.end = InitialEnd
        BY DEF Init
      <3>5. CASE s \in Area
        <4>1. Location(s) = s + RemapOffset /\ InitialStart # -1 /\ s \in InitialStart .. InitialEnd
          BY <3>4, <3>5 DEF Location, Area
        <4>2. Location(s) - RemapOffset = s
          BY <3>1, <4>1
        <4>3. store.disk[Location(s)] = Cell("format", s, 1)
          BY <3>3, <4>1, <4>2
        <4>4. QED
          BY <2>2, <3>5, <4>3 DEF PlainContent, Decode, Cell
      <3>6. CASE s \notin Area
        <4>1. Location(s) = s
          BY <3>6 DEF Location
        <4>2. ~(InitialStart # -1 /\ s - RemapOffset \in InitialStart .. InitialEnd)
          <5>1. CASE RemapOffset = 0
            BY <3>1, <3>4, <3>6, <5>1, QueueAssumption DEF Area, Sectors
          <5>2. CASE RemapOffset > 0
            <6>1. s - RemapOffset < 0
              BY <3>1, <5>2, QueueAssumption
            <6>2. InitialStart # -1 => InitialStart \in Nat
              BY QueueAssumption DEF Sectors
            <6>3. QED
              BY <3>1, <6>1, <6>2
          <5>3. QED
            BY <3>1, <5>1, <5>2
        <4>3. store.disk[Location(s)] = Cell("format", s, 0)
          BY <3>3, <4>1, <4>2
        <4>4. QED
          BY <2>2, <3>6, <4>3 DEF PlainContent, Decode, Cell
      <3>7. QED
        BY <3>5, <3>6
    <2>3. QED
      BY <2>1, <2>2
  <1>3. PlainContent = [s \in Sectors |-> [writer |-> IF s \in SecRegion THEN "region" ELSE "format", sector |-> s]]
    BY <1>2 DEF PlainContent
  <1>4. [i \in Irps |-> PlainRequest(i)] = [i \in Irps |-> Device!Unissued]
    BY <1>1
  <1>5. QED
    BY <1>3, <1>4 DEF Device!Init

(* Whoever issues IRPs to the queue sees a plain block device: each IRP     *)
(* transfers plaintext of the sectors it asks for, and EncryptedIoQueue     *)
(* completes it with success only after all of them, whatever the three     *)
(* threads, read-ahead, device faults, cancellation, denials, stops and     *)
(* the re-encryption of held blocks by SetupThreadProc do in between        *)
THEOREM Refines == WholeOperations => (Spec => ImplementsBlockDevice)
  <1>1. Init => Device!Init
    BY InitSimulates
  <1>2. TypeOK /\ Inv /\ PathInv /\ BufferInv /\ StoreInv /\ WriteInv /\ WholeOperations /\ TodoInv /\ PendingInv /\ [Next]_vars
           => [Device!Next]_(Device!vars)
    BY StepSimulates
  <1>3. Spec => []WriteInv
    BY InitWrites, WriteStep, TypeCorrect, Invariant, PTL DEF Spec
  <1>4. WholeOperations /\ Spec => [][Device!Next]_(Device!vars)
    BY <1>2, <1>3, TypeCorrect, Invariant, PathCorrect, StoreCorrect, TodoCorrect, PendingCorrect, PTL DEF Spec
  <1>5. QED
    BY <1>1, <1>4, PTL DEF Spec, ImplementsBlockDevice, Device!Spec

----------------------------------------------------------------------------
(* What the device promises of the data, carried over to the IRPs *)

Good(c, s) == c.writer \notin {"garbage", "ciphertext"} /\ c.sector = s
ContentInv == \A s \in Sectors : Good(PlainContent[s], s)
Served(i) ==
    irp[i].stage # "unissued" /\ irp[i].status = "ok" /\ irp[i].op.kind = "read" =>
        \A s \in Asked(irp[i].op) \ irp[i].todo : Good(PlainData(i)[s], s)
ServedInv == ContentInv /\ \A i \in Irps : Served(i)

LEMMA DeviceContent ==
    ASSUME [Device!Next]_(Device!vars), NEW s \in Sectors
    PROVE  PlainContent'[s] = PlainContent[s] \/ \E k \in Irps : PlainContent'[s] = Device!Written(k, s)
  <1>1. CASE UNCHANGED Device!vars
    BY <1>1 DEF Device!vars
  <1>2. CASE Device!Next
    <2>1. PICK i \in Irps : \/ Device!Issue(i) \/ Device!Succeed(i)
                            \/ \E S \in SUBSET PlainRequests[i].todo : Device!Transfer(i, S) \/ Device!Fail(i, S)
      BY <1>2 DEF Device!Next, PlainRequests
    <2>2. CASE Device!Issue(i) \/ Device!Succeed(i)
      BY <2>2 DEF Device!Issue, Device!Succeed
    <2>3. CASE \E S : Device!Transfer(i, S)
      <3>1. PICK S : Device!Transfer(i, S)
        BY <2>3
      <3>2. PlainContent' = PlainContent \/ PlainContent' = [t \in Sectors |-> IF t \in S THEN Device!Written(i, t) ELSE PlainContent[t]]
        BY <3>1 DEF Device!Transfer
      <3>3. QED
        BY <3>2
    <2>4. CASE \E S : Device!Fail(i, S)
      <3>1. PICK S : Device!Fail(i, S)
        BY <2>4
      <3>2. PlainContent' = [t \in Sectors |-> IF t \in S /\ PlainRequests[i].write THEN Device!Written(i, t) ELSE PlainContent[t]]
        BY <3>1 DEF Device!Fail, PlainRequests
      <3>3. QED
        BY <3>2
    <2>5. QED
      BY <2>1, <2>2, <2>3, <2>4
  <1>3. QED
    BY <1>1, <1>2

LEMMA DeviceData ==
    ASSUME [Device!Next]_(Device!vars), NEW i \in Irps, NEW s \in Sectors,
           PlainRequest(i).state \in {"ok", "done"}, ~PlainRequest(i).write,
           PlainRequest(i)'.state \in {"ok", "done"}, s \notin PlainRequest(i)'.todo
    PROVE  \/ PlainRequest(i)'.data[s] = PlainContent[s]
           \/ s \notin PlainRequest(i).todo /\ PlainRequest(i)'.data[s] = PlainRequest(i).data[s]
  <1>0. PlainRequests[i] = PlainRequest(i) /\ PlainRequests'[i] = PlainRequest(i)' /\ DOMAIN PlainRequests = Irps
    BY DEF PlainRequests
  <1>1. CASE UNCHANGED Device!vars
    <2>1. PlainRequests' = PlainRequests
      BY <1>1 DEF Device!vars, PlainRequests
    <2>2. QED
      BY <1>0, <2>1
  <1>2. CASE Device!Next
    <2>1. PICK k \in Irps : \/ Device!Issue(k) \/ Device!Succeed(k)
                            \/ \E S \in SUBSET PlainRequests[k].todo : Device!Transfer(k, S) \/ Device!Fail(k, S)
      BY <1>2 DEF Device!Next, PlainRequests
    <2>2. CASE Device!Issue(k)
      <3>1. PlainRequests[k] = Device!Unissued
        BY <2>2 DEF Device!Issue, PlainRequests
      <3>2. \E v : PlainRequests' = [PlainRequests EXCEPT ![k] = v]
        BY <2>2 DEF Device!Issue, PlainRequests
      <3>3. PlainRequests[k].state = "unissued"
        BY <3>1 DEF Device!Unissued, Device!Request
      <3>4. k # i
        BY <1>0, <3>3
      <3>5. PlainRequests'[i] = PlainRequests[i]
        BY <1>0, <3>2, <3>4
      <3>6. QED
        BY <1>0, <3>5
    <2>3. CASE Device!Succeed(k)
      <3>1. PlainRequests' = [PlainRequests EXCEPT ![k].state = "done"]
        BY <2>3 DEF Device!Succeed, PlainRequests
      <3>2. PlainRequest(i)'.todo = PlainRequest(i).todo /\ PlainRequest(i)'.data = PlainRequest(i).data
        BY <1>0, <3>1 DEF PlainRequest
      <3>3. QED
        BY <3>2
    <2>4. CASE \E S : Device!Transfer(k, S)
      <3>1. PICK S : Device!Transfer(k, S)
        BY <2>4
      <3>2. CASE k # i
        <4>1. \E v : PlainRequests' = [PlainRequests EXCEPT ![k] = v]
          BY <3>1 DEF Device!Transfer, PlainRequests
        <4>2. QED
          BY <1>0, <3>2, <4>1
      <3>3. CASE k = i
        <4>1. PICK todo, data : /\ todo = PlainRequests[i].todo \ S
                                /\ data = [t \in Sectors |-> IF t \in S THEN PlainContent[t] ELSE PlainRequests[i].data[t]]
          OBVIOUS
        <4>2. PlainRequests' = [PlainRequests EXCEPT ![i] = Device!Request("ok", FALSE, todo, data)]
          BY <1>0, <3>1, <3>3, <4>1 DEF Device!Transfer, PlainRequests
        <4>3. PlainRequest(i)' = Device!Request("ok", FALSE, todo, data)
          BY <1>0, <4>2
        <4>4. PlainRequest(i)'.todo = todo /\ PlainRequest(i)'.data = data
          BY <4>3 DEF Device!Request
        <4>5. QED
          BY <1>0, <4>1, <4>4
      <3>4. QED
        BY <3>2, <3>3
    <2>5. CASE \E S : Device!Fail(k, S)
      <3>1. PlainRequests' = [PlainRequests EXCEPT ![k] = Device!Request("failed", FALSE, {}, Device!NothingRead)]
        BY <2>5 DEF Device!Fail, PlainRequests
      <3>2. CASE k # i
        BY <1>0, <3>1, <3>2
      <3>3. CASE k = i
        <4>1. PlainRequest(i)' = Device!Request("failed", FALSE, {}, Device!NothingRead)
          BY <1>0, <3>1, <3>3
        <4>2. PlainRequest(i)'.state = "failed"
          BY <4>1 DEF Device!Request
        <4>3. QED
          BY <4>2
      <3>4. QED
        BY <3>2, <3>3
    <2>6. QED
      BY <2>1, <2>2, <2>3, <2>4, <2>5
  <1>3. QED
    BY <1>1, <1>2

(* An IRP is counted when it is issued *)
LEMMA IssuedCounted ==
    ASSUME TypeOK, Inv, [Next]_vars, NEW i \in Irps, irp[i].stage = "unissued", irp'[i].stage # "unissued"
    PROVE  irp'[i].stage = "counted"
  <1>0. irp \in [Irps -> IrpRecords]
    BY DEF TypeOK
  <1>1. CASE \E j \in Irps : AddIrp(j)
    <2>1. PICK j \in Irps : AddIrp(j)
      BY <1>1
    <2>2. j = i
      BY <1>0, <2>1 DEF AddIrp, AddIrpCount, AddIrpEnqueue, AddIrpRefuse, AddIrpRefuseSignal
    <2>3. QED
      BY <2>1, <2>2, AddIrpSteps DEF AddIrp
  <1>2. CASE \E j \in Irps : CompleteIrpWorkItemRoutine(j)
    BY <1>2, WorkEffect
  <1>3. CASE Decides
    BY <1>3, DecisionEffect DEF Decides
  <1>4. CASE Admits
    <2>1. main.irp \in Irps /\ irp[main.irp].stage = "queued"
      BY <1>4, WaitsForIrp DEF Admits, MainSuspendCheck, MainResumed, Waits, Inv, Responsible, MainQueueOK
    <2>2. irp' = irp \/ irp' = [irp EXCEPT ![main.irp].stage = "active"]
      BY <1>4 DEF Admits, MainSuspendCheck, MainResumed, Admit
    <2>3. QED
      BY <1>0, <2>1, <2>2
  <1>5. CASE TransfersData
    BY <1>5, TransferEffect DEF TransfersData
  <1>6. QED
    BY <1>1, <1>2, <1>3, <1>4, <1>5, OthersKeepIrps

LEMMA ServedStep ==
    ASSUME TypeOK, Inv, ServedInv, [Next]_vars, TodoInv', [Device!Next]_(Device!vars)
    PROVE  ServedInv'
  <1>1. ContentInv'
    <2> SUFFICES ASSUME NEW s \in Sectors PROVE Good(PlainContent'[s], s)
      BY DEF ContentInv, Good
    <2>1. CASE PlainContent'[s] = PlainContent[s]
      BY <2>1 DEF ServedInv, ContentInv
    <2>2. CASE \E k \in Irps : PlainContent'[s] = Device!Written(k, s)
      BY <2>2, QueueAssumption DEF Device!Written, Good
    <2>3. QED
      BY <2>1, <2>2, DeviceContent
  <1>2. ASSUME NEW i \in Irps PROVE Served(i)'
    <2> SUFFICES ASSUME irp'[i].stage # "unissued", irp'[i].status = "ok", irp'[i].op.kind = "read",
                        NEW s \in Asked(irp'[i].op) \ irp'[i].todo
                 PROVE  Good(PlainData(i)'[s], s)
      BY DEF Served, Asked, Good
    <2>1. CASE irp[i].stage = "unissued"
      <3>1. irp'[i].stage = "counted"
        BY <2>1, IssuedCounted
      <3>2. irp'[i].todo = Asked(irp'[i].op)
        BY <3>1 DEF TodoInv, Todo, Asked
      <3>3. QED
        BY <3>2
    <2>2. CASE irp[i].stage # "unissued"
      <3>1. irp[i].status = "ok" /\ irp[i].op = irp'[i].op
        BY <2>2, IssuedFixed DEF Fixed
      <3>2. s \in Sectors
        BY DEF Asked
      <3>3. PlainRequest(i).state \in {"ok", "done"} /\ ~PlainRequest(i).write /\ PlainRequest(i).todo = irp[i].todo
            /\ PlainRequest(i).data = PlainData(i)
        BY <2>2, <3>1 DEF PlainRequest
      <3>4. PlainRequest(i)'.state \in {"ok", "done"} /\ PlainRequest(i)'.todo = irp'[i].todo
            /\ PlainRequest(i)'.data = PlainData(i)'
        BY DEF PlainRequest
      <3>5. CASE PlainData(i)'[s] = PlainContent[s]
        BY <3>2, <3>5 DEF ServedInv, ContentInv
      <3>6. CASE s \notin irp[i].todo /\ PlainData(i)'[s] = PlainData(i)[s]
        BY <2>2, <3>1, <3>6 DEF ServedInv, Served
      <3>7. QED
        BY <3>2, <3>3, <3>4, <3>5, <3>6, DeviceData
    <2>3. QED
      BY <2>1, <2>2
  <1>3. QED
    BY <1>1, <1>2 DEF ServedInv

(* CompleteIrpWorkItemRoutine reports success only for an IRP of which no   *)
(* sector is left to transfer, and a read then has the plaintext of its     *)
(* sectors: the last device operation of a split item, whose status         *)
(* IoThreadProc keeps, stands for all of them                               *)
THEOREM SuccessIsTransfer == WholeOperations => (Spec => []SuccessMeansTransferred)
  <1>1. Device!Init /\ Init => ServedInv
    <2> SUFFICES ASSUME Device!Init, Init PROVE ServedInv
      OBVIOUS
    <2>1. ContentInv
      BY DEF Device!Init, ContentInv, Good
    <2>2. \A i \in Irps : Served(i)
      BY DEF Init, Served, Unissued
    <2>3. QED
      BY <2>1, <2>2 DEF ServedInv
  <1>2. TypeOK /\ Inv /\ TodoInv /\ ServedInv => SuccessMeansTransferred
    <2> SUFFICES ASSUME TypeOK, Inv, TodoInv, ServedInv, NEW i \in Irps, irp[i].stage = "completed", irp[i].status = "ok"
                 PROVE  /\ irp[i].todo = {}
                        /\ irp[i].op.kind = "read" =>
                              \A s \in Sectors \cap (irp[i].op.off .. (irp[i].op.off + irp[i].op.len - 1)) :
                                 irp[i].data[s].sector = s /\ irp[i].data[s].layers = 0 /\ irp[i].data[s].writer # "garbage"
      BY DEF SuccessMeansTransferred
    <2>1. irp[i].todo = {}
      <3>1. ~Undecided(i) /\ \A s \in Sectors : ~ToCut(i, s) /\ ~ToMove(i, s)
        BY MainHolds
      <3>2. \A s \in Sectors : s \notin irp[i].todo
        BY <3>1 DEF TodoInv, Todo
      <3>3. irp[i].todo \subseteq Sectors
        BY DEF TypeOK, IrpRecords
      <3>4. QED
        BY <3>2, <3>3
    <2>2. ASSUME irp[i].op.kind = "read", NEW s \in Sectors, s \in irp[i].op.off .. (irp[i].op.off + irp[i].op.len - 1)
          PROVE  irp[i].data[s].sector = s /\ irp[i].data[s].layers = 0 /\ irp[i].data[s].writer # "garbage"
      <3>1. s \in Asked(irp[i].op) \ irp[i].todo
        <4>1. irp[i].op.off \in Int /\ irp[i].op.len \in Int
          BY QueueAssumption DEF TypeOK, IrpRecords, Unissued
        <4>2. QED
          BY <2>1, <2>2, <4>1 DEF Asked, Sectors
      <3>2. Good(PlainData(i)[s], s)
        BY <2>2, <3>1 DEF ServedInv, Served
      <3>3. PlainData(i)[s] = Decode(irp[i].data[s], 0)
        <4>1. ~PendingAt(i, s) /\ ~PendingEnc(i, s)
          BY NothingPending DEF PendingAt, PendingEnc
        <4>2. QED
          BY <2>2, <4>1, PlainDataIs DEF PlainCell
      <3>4. QED
        BY <3>2, <3>3 DEF Good, Decode
    <2>3. QED
      BY <2>1, <2>2
  <1>3. WholeOperations /\ Spec => [](TypeOK /\ Inv /\ TodoInv)
    BY TypeCorrect, Invariant, TodoCorrect, PTL
  <1>4. WholeOperations /\ Spec => Device!Init /\ [][Device!Next]_(Device!vars)
    BY Refines, PTL DEF ImplementsBlockDevice, Device!Spec
  <1>5. TypeOK /\ Inv /\ ServedInv /\ [Next]_vars /\ TodoInv' /\ [Device!Next]_(Device!vars) => ServedInv'
    BY ServedStep
  <1>6. QED
    BY <1>1, <1>2, <1>3, <1>4, <1>5, PTL DEF Spec
=============================================================================
