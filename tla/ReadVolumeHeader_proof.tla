----------------------- MODULE ReadVolumeHeader_proof -----------------------
(***************************************************************************)
(* Proofs about the reader of a volume header on top of the thread pool:   *)
(* its types, which include that the counter of derivations is exact       *)
(* across its attempts, and that a password is reported wrong only if      *)
(* every function was tried.                                               *)
(*                                                                         *)
(* The invariant of the pool holds with the reader as its caller, because  *)
(* the steps of the pool are steps of Next, and the reader resets the      *)
(* counter only when nothing is counted.                                   *)
(***************************************************************************)
EXTENDS ReadVolumeHeader, EncryptionThreadPool_proof

----------------------------------------------------------------------------
(* The inductive invariant *)

Reading == {"loop", "begin", "scan", "wait", "test"}
Positioned == {"begin", "scan", "wait", "test"}
Wanted == IF reader.selected = "none" THEN Prfs ELSE {reader.selected}

(* The reader is the only one to ask for derivations, one at a time, and   *)
(* between two attempts none is counted                                    *)
UseInv ==
    /\ ~pool.stopPending /\ (reader.pooled => pool.running)
    /\ \A c \in Callers : caller[c].prf # "none" => c = Reader
    /\ caller[Reader].pc # "idle" => reader.pc = "begin"
    /\ reader.pc \in {"call", "reset"} => report.outstanding = 0

(* A key is cut short only after the user aborted, whatever the order in    *)
(* which the two flags are seen                                            *)
AbortInv ==
    /\ mount.aborting => mount.userAbort
    /\ \A p \in Prfs : report.keyReady[p] => report.result[p] # "none"
    /\ reader.pc \in Reading =>
          /\ report.abort => mount.userAbort
          /\ \A p \in Prfs : report.result[p] = "cut" => mount.userAbort
    /\ reader.pc = "test" => reader.current \in Prfs /\ reader.key # "none" /\ (reader.key = "cut" => mount.userAbort)

(* The functions before enqPkcs5Prf, and that one too once it is queued, are *)
(* under way, tried or skipped                                              *)
Handled == reader.items \cup reader.tested \cup reader.skipped \cup {p \in Prfs : reader.pc = "test" /\ p = reader.current}
TriedInv ==
    /\ ~reader.pooled => reader.items = {}
    /\ reader.pc = "loop" => reader.enq >= 1 /\ \A k \in 1 .. LastPrf : k < reader.enq /\ PrfOrder[k] \in Wanted => PrfOrder[k] \in Handled
    /\ reader.pc \in Positioned =>
         reader.enq <= LastPrf /\ \A k \in 1 .. LastPrf : k <= reader.enq /\ PrfOrder[k] \in Wanted => PrfOrder[k] \in Handled
    /\ reader.pc # "reset" =>
          /\ reader.attempt = RightAttempt => reader.right \notin reader.tested
          /\ Argon2 \in reader.skipped => reader.argon2 # "none"
    /\ reader.pc \in Reading => reader.status = "none"
    /\ reader.status = "wrong" => Wanted \subseteq reader.tested \cup reader.skipped /\ reader.argon2 = "none"

HeaderInv == IInv /\ HeaderTypeOK /\ UseInv /\ AbortInv /\ TriedInv

ReaderPcs == {"call", "reset", "err", "ret", "returned"} \cup Reading
ReaderType ==
    [pc : ReaderPcs, selected : Selections, right : RightPrfs, attempt : 1 .. MaxAttempts, pooled : BOOLEAN,
     enq : 0 .. (LastPrf + 1), items : SUBSET Prfs, current : Prfs \cup {"none"}, key : {"none", "key", "cut"},
     argon2 : {"none", "failed", "cancelled"}, status : {"none", "success", "wrong", "aborted", "nomem"},
     tested : SUBSET Prfs, skipped : SUBSET Prfs]
MountType == [userAbort : BOOLEAN, aborting : BOOLEAN]

LEMMA HeaderTypes == HeaderTypeOK <=> TypeOK /\ reader \in ReaderType /\ mount \in MountType
BY DEF HeaderTypeOK, ReaderType, ReaderPcs, Reading, MountType

LEMMA HeaderTypesNext == HeaderTypeOK' <=> TypeOK' /\ reader' \in ReaderType /\ mount' \in MountType
BY DEF HeaderTypeOK, ReaderType, ReaderPcs, Reading, MountType

(* The functions in order *)
LEMMA Order ==
    /\ LastPrf \in Nat /\ Reader \in Callers /\ "none" \notin Prfs /\ Argon2 \in Prfs \cup {"none"}
    /\ Prfs = {PrfOrder[k] : k \in 1 .. LastPrf}
    /\ \A k \in 1 .. LastPrf : PrfOrder[k] \in Prfs
<1>1. Prfs = {PrfOrder[k] : k \in 1 .. LastPrf} /\ Reader \in Callers /\ PrfOrder \in Seq(Prfs)
  BY HeaderAssumption
<1>2. "none" \notin Prfs /\ Argon2 \in Prfs \cup {"none"}
  BY HeaderAssumption, PoolAssumption
<1>3. LastPrf \in Nat
  BY <1>1 DEF LastPrf
<1>. QED  BY <1>1, <1>2, <1>3

----------------------------------------------------------------------------
(* Steps of the pool *)

(* What the reader can see of a step of the pool *)
PoolEffect ==
    /\ pool.running => pool'.running
    /\ ~pool.stopPending => ~pool'.stopPending
    /\ \A c \in Callers : caller[c].prf = "none" => caller'[c].prf = "none"
    /\ caller[Reader].pc = "idle" => caller'[Reader].pc = "idle"
    /\ report.outstanding = 0 /\ (\A c \in Callers : caller[c].prf = "none") => report'.outstanding = 0
    /\ report'.abort = report.abort
    /\ \A p \in Prfs :
          \/ report'.keyReady[p] = report.keyReady[p] /\ report'.result[p] = report.result[p]
          \/ report'.result[p] # "none" /\ (report'.result[p] = "cut" => report.abort)

LEMMA StartEffect == IInv /\ Start => PoolEffect
<1>. SUFFICES ASSUME IInv, Start PROVE PoolEffect
  OBVIOUS
<1>1. pool \in PoolType /\ caller' = caller /\ report' = report
  BY Types DEF IInv, Start
<1>2. pool'.running /\ ~pool'.stopPending
  BY <1>1 DEF Start, PoolType
<1>. QED  BY <1>1, <1>2 DEF PoolEffect

(* The counter is above zero while a derivation is to be counted down *)
LEMMA CountedKey ==
    ASSUME IInv, NEW t \in Threads, thread[t].pc \in {"derive", "keyEvent", "countKey"}
    PROVE  report.outstanding > 0
<1>1. thread[t].slot \in Slots /\ IsFiniteSet(Slots) /\ Keys \subseteq Slots
  BY Fields, SlotsAndUnits DEF IInv, Keys
<1>2. thread[t].slot \in Keys
  BY <1>1 DEF Keys, Key
<1>3. IsFiniteSet(Keys)
  BY <1>1, FS_Subset
<1>. QED  BY <1>2, <1>3, FS_EmptySet, FS_CardinalityType DEF IInv, KeyInv

LEMMA ThreadEffect ==
    ASSUME IInv, NEW t \in Threads, EncryptionThreadProc(t)
    PROVE  PoolEffect
<1>1. pool \in PoolType /\ report \in ReportType /\ caller' = caller
  BY Types DEF IInv, EncryptionThreadProc, ThreadLoop, ThreadAcquire, ThreadWait, ThreadTake, ThreadWork, ThreadFree,
     ThreadCountDown, ThreadSignal, Derivation, ThreadDerive, ThreadReport, ThreadRelease
<1>2. pool'.running = pool.running /\ pool'.stopPending = pool.stopPending
  <2>1. CASE ThreadAcquire(t)
    BY <1>1, <2>1 DEF ThreadAcquire, PoolType
  <2>2. CASE ThreadWait(t) \/ ThreadTake(t) \/ ThreadFree(t) \/ ThreadRelease(t)
    BY <1>1, <2>2 DEF ThreadWait, ThreadTake, ThreadFree, ThreadRelease, PoolType
  <2>3. CASE pool' = pool
    BY <2>3
  <2>. QED
    BY <2>1, <2>2, <2>3 DEF EncryptionThreadProc, ThreadLoop, ThreadWork, ThreadCountDown, ThreadSignal,
       Derivation, ThreadDerive, ThreadReport
<1>3. CASE ThreadDerive(t)
  <2>1. SlotOf(t).prf \in Prfs
    BY <1>3, Fields DEF IInv, ThreadDerive, At, ThreadInv, Deriving, SlotOf
  <2>2. PICK outcome \in Outcomes(SlotOf(t).prf) :
           report' = [report EXCEPT !.result[SlotOf(t).prf] = outcome, !.keyReady[SlotOf(t).prf] = TRUE]
    BY <1>3 DEF ThreadDerive
  <2>3. outcome # "none" /\ (outcome = "cut" => report.abort)
    BY DEF Outcomes
  <2>4. report'.outstanding = report.outstanding /\ report'.abort = report.abort
    BY <1>1, <2>2 DEF ReportType
  <2>5. \A p \in Prfs : \/ report'.keyReady[p] = report.keyReady[p] /\ report'.result[p] = report.result[p]
                        \/ report'.result[p] # "none" /\ (report'.result[p] = "cut" => report.abort)
    BY <1>1, <2>1, <2>2, <2>3 DEF ReportType
  <2>. QED  BY <1>1, <1>2, <2>4, <2>5 DEF PoolEffect
<1>4. CASE ThreadReport(t)
  <2>1. report'.keyReady = report.keyReady /\ report'.result = report.result /\ report'.abort = report.abort
    BY <1>1, <1>4 DEF ThreadReport, ReportType
  <2>2. report.outstanding = 0 => report'.outstanding = 0
    BY <1>1, <1>4, CountedKey DEF ThreadReport, At, ReportType
  <2>. QED  BY <1>1, <1>2, <2>1, <2>2 DEF PoolEffect
<1>5. CASE report' = report
  BY <1>1, <1>2, <1>5 DEF PoolEffect
<1>. QED
  BY <1>3, <1>4, <1>5 DEF EncryptionThreadProc, ThreadLoop, ThreadAcquire, ThreadWait, ThreadTake, ThreadWork, ThreadFree,
     ThreadCountDown, ThreadSignal, Derivation, ThreadRelease

LEMMA CallerEffect ==
    ASSUME IInv, NEW c \in Callers,
           \/ Acquire(c) \/ AwaitSlot(c) \/ EncryptionThreadPoolBeginKeyDerivation(c)
           \/ c # Reader /\ EncryptionThreadPoolDoWork(c)
    PROVE  PoolEffect
<1>1. pool \in PoolType /\ report \in ReportType /\ caller \in [Callers -> CallerType] /\ Reader \in Callers
  BY Types, Order DEF IInv
<1>2. pool'.running = pool.running /\ pool'.stopPending = pool.stopPending
  BY <1>1 DEF Acquire, AwaitSlot, EncryptionThreadPoolBeginKeyDerivation, BeginCount, BeginReady, EncryptionThreadPoolDoWork,
     DoWorkDirect, DoWorkBegin, DoWorkFirst, DoWorkPut, DoWorkAwait, DoWorkReturn, MakeReady, PoolType
<1>3. \A x \in Callers : x # c => caller'[x] = caller[x]
  BY <1>1 DEF Acquire, AwaitSlot, Advance, EncryptionThreadPoolBeginKeyDerivation, BeginCount, BeginReady, EncryptionThreadPoolDoWork,
     DoWorkDirect, DoWorkBegin, DoWorkFirst, DoWorkPut, DoWorkAwait, DoWorkReturn
<1>4. caller'[c].prf = caller[c].prf \/ caller'[c].prf = "none"
  <2>1. caller[c] \in CallerType
    BY <1>1
  <2>2. CASE \E pc : Advance(c, pc)
    BY <1>1, <2>1, <2>2 DEF Advance, CallerType
  <2>3. CASE Acquire(c) \/ BeginReady(c)
    <3>1. CASE Acquire(c)
      BY <1>1, <2>1, <3>1 DEF Acquire, CallerType
    <3>2. CASE BeginReady(c)
      BY <1>1, <2>1, <3>2 DEF BeginReady, CallerType
    <3>. QED  BY <2>3, <3>1, <3>2
  <2>4. CASE DoWorkDirect(c)
    BY <1>1, <2>1, <2>4 DEF DoWorkDirect, CallerType
  <2>5. CASE DoWorkBegin(c)
    BY <1>1, <2>1, <2>5 DEF DoWorkBegin, CallerType
  <2>6. CASE DoWorkPut(c)
    BY <1>1, <2>1, <2>6 DEF DoWorkPut, CallerType
  <2>. QED
    BY <2>2, <2>3, <2>4, <2>5, <2>6 DEF AwaitSlot, EncryptionThreadPoolBeginKeyDerivation, BeginCount,
       EncryptionThreadPoolDoWork, DoWorkFirst, DoWorkAwait, DoWorkReturn
<1>5. c = Reader => caller[c].pc # "idle"
  BY DEF Acquire, AwaitSlot, EncryptionThreadPoolBeginKeyDerivation, BeginCount, BeginReady, In
<1>6. /\ report'.abort = report.abort /\ report'.keyReady = report.keyReady /\ report'.result = report.result
      /\ caller[c].prf = "none" => report'.outstanding = report.outstanding
  <2>1. CASE BeginCount(c)
    BY <1>1, <2>1 DEF BeginCount, ReportType
  <2>2. CASE BeginReady(c)
    BY <1>1, <2>2 DEF BeginReady, ReportType
  <2>3. CASE report' = report
    BY <2>3
  <2>. QED
    BY <2>1, <2>2, <2>3 DEF Acquire, AwaitSlot, EncryptionThreadPoolBeginKeyDerivation, EncryptionThreadPoolDoWork,
       DoWorkDirect, DoWorkBegin, DoWorkFirst, DoWorkPut, DoWorkAwait, DoWorkReturn
<1>. QED  BY <1>1, <1>2, <1>3, <1>4, <1>5, <1>6 DEF PoolEffect

LEMMA PoolStepKeeps ==
    ASSUME HeaderInv, PoolStep, UNCHANGED readerVars
    PROVE  HeaderInv'
<1>1. IInv /\ reader' = reader /\ mount' = mount /\ Reader \in Callers
  BY Order DEF HeaderInv, readerVars
<1>2. PoolEffect
  BY <1>1, StartEffect, ThreadEffect, CallerEffect DEF PoolStep
<1>3. IInv'
  BY <1>1, NextStep DEF PoolStep, Next, Lifecycle
<1>4. HeaderTypeOK'
  BY <1>1, <1>3, HeaderTypes, HeaderTypesNext DEF HeaderInv, IInv
<1>5. UseInv'
  <2>1. caller[Reader].pc = "idle" => caller[Reader].prf = "none"
    BY <1>1 DEF IInv, CallInv
  <2>2. reader.pc \in {"call", "reset"} => report'.outstanding = 0
    BY <1>1, <1>2, <2>1 DEF HeaderInv, UseInv, PoolEffect
  <2>. QED  BY <1>1, <1>2, <2>2 DEF HeaderInv, UseInv, PoolEffect
<1>6. AbortInv'
  BY <1>1, <1>2 DEF HeaderInv, AbortInv, PoolEffect
<1>7. TriedInv'
  BY <1>1 DEF HeaderInv, TriedInv, Handled, Wanted
<1>. QED  BY <1>3, <1>4, <1>5, <1>6, <1>7 DEF HeaderInv
----------------------------------------------------------------------------
(* Steps of the reader and of the user *)

(* Flags and events other than the counter are nothing to the pool *)
LEMMA ReportStep ==
    ASSUME IInv, UNCHANGED <<pool, slot, thread, caller, data>>, report' \in ReportType, report'.outstanding = report.outstanding
    PROVE  IInv'
<1>1. TypeOK'
  BY Types, TypesNext DEF IInv
<1>2. ThreadInv' /\ MutexInv' /\ CallInv' /\ EventInv'
  BY DEF IInv, ThreadInv, MutexInv, CallInv, EventInv, SlotOf, Calling, Share, Rest
<1>3. \A s \in Slots : (Live(s)' <=> Live(s)) /\ (Key(s)' <=> Key(s))
  BY DEF Live, Key
<1>4. \A c \in Callers : \A s \in Slots : (Awaited(c, s)' <=> Awaited(c, s)) /\ (Undone(c, s)' <=> Undone(c, s))
  BY DEF Awaited, Undone
<1>5. FragmentInv'
  BY <1>3 DEF IInv, FragmentInv, Calling
<1>6. \A c \in Callers : Uncounted(c)' = Uncounted(c)
  BY <1>4 DEF Uncounted
<1>7. CountInv'
  BY <1>6 DEF IInv, CountInv, Calling
<1>8. Keys' = Keys
  BY <1>3 DEF Keys
<1>9. KeyInv'
  BY <1>8 DEF IInv, KeyInv
<1>10. DataInv'
  BY <1>4 DEF IInv, DataInv, Calling, Covers
<1>. QED  BY <1>1, <1>2, <1>5, <1>7, <1>9, <1>10 DEF IInv

(* Before an attempt begins no derivation is under way *)
LEMMA NothingCounted ==
    ASSUME IInv, ~Lingering, \A c \in Callers : caller[c].pc # "clear"
    PROVE  report.outstanding = 0
<1>1. \A s \in Slots : ~Key(s)
  BY DEF Key, Lingering
<1>2. Keys = {}
  BY <1>1 DEF Keys
<1>. QED  BY <1>2, FS_EmptySet DEF IInv, KeyInv

(* The parts of the invariant after a step that leaves report alone, or     *)
(* sets or clears flags of it                                              *)
FlagsOnly ==
    /\ report' \in ReportType /\ report'.outstanding = report.outstanding
    /\ report'.keyReady = report.keyReady /\ report'.result = report.result

LEMMA FlagsStep ==
    ASSUME TypeOK, NEW b \in BOOLEAN,
           report' = [report EXCEPT !.abort = b] \/ report' = [report EXCEPT !.keyEvent = b]
             \/ report' = [report EXCEPT !.noOutstandingEvent = b]
              \/ report' = report
    PROVE  FlagsOnly
<1>1. report \in ReportType
  BY Types
<1>. QED  BY <1>1 DEF ReportType, FlagsOnly

LEMMA AbortStep ==
    ASSUME HeaderInv, AbortPendingMount
    PROVE  HeaderInv'
<1>1. reader' = reader /\ UNCHANGED <<pool, slot, thread, caller, data>> /\ IInv /\ TypeOK /\ mount \in MountType /\ reader \in ReaderType
  BY HeaderTypes DEF HeaderInv, AbortPendingMount, IInv
<1>2. mount' \in MountType /\ mount'.userAbort
  <2>1. CASE mount.aborting
    <3>1. mount' = [mount EXCEPT !.aborting = FALSE]
      BY <2>1 DEF AbortPendingMount
    <3>2. mount.userAbort
      BY <2>1 DEF HeaderInv, AbortInv
    <3>. QED  BY <1>1, <3>1, <3>2 DEF MountType
  <2>2. CASE ~mount.aborting
    <3>1. mount' = [aborting |-> TRUE, userAbort |-> TRUE]
      BY <2>2 DEF AbortPendingMount
    <3>. QED  BY <3>1 DEF MountType
  <2>. QED  BY <2>1, <2>2
<1>3. report' = report \/ report' = [report EXCEPT !.abort = TRUE]
  <2>1. CASE mount.aborting
    BY <2>1 DEF AbortPendingMount
  <2>2. CASE ~mount.aborting
    BY <2>2 DEF AbortPendingMount
  <2>. QED  BY <2>1, <2>2
<1>4. FlagsOnly
  BY <1>1, <1>3, FlagsStep
<1>5. IInv' /\ HeaderTypeOK'
  BY <1>1, <1>2, <1>4, ReportStep, HeaderTypesNext DEF FlagsOnly, IInv
<1>6. UseInv' /\ AbortInv'
  BY <1>1, <1>2, <1>4 DEF HeaderInv, UseInv, AbortInv, FlagsOnly
<1>7. TriedInv'
  BY <1>1 DEF HeaderInv, TriedInv, Handled, Wanted
<1>. QED  BY <1>5, <1>6, <1>7 DEF HeaderInv

(* A step of the reader that leaves the pool alone, but for flags *)
LEMMA ReaderStep ==
    ASSUME HeaderInv, reader' \in ReaderType, mount' = mount, UNCHANGED <<pool, slot, thread, caller, data>>, FlagsOnly,
           reader'.pooled = reader.pooled, reader.pc = "begin" => caller[Reader].pc = "idle",
           reader'.pc \in {"call", "reset"} => report.outstanding = 0,
           reader'.pc \in Reading => reader.pc \in Reading /\ report'.abort = report.abort,
           reader'.pc = "test" => reader'.current \in Prfs /\ reader'.key # "none" /\ (reader'.key = "cut" => mount.userAbort),
           TriedInv'
    PROVE  HeaderInv'
<1>1. IInv' /\ HeaderTypeOK'
  BY ReportStep, HeaderTypes, HeaderTypesNext DEF HeaderInv, FlagsOnly, IInv
<1>2. UseInv'
  BY DEF HeaderInv, UseInv, FlagsOnly
<1>3. AbortInv'
  BY DEF HeaderInv, AbortInv, FlagsOnly
<1>. QED  BY <1>1, <1>2, <1>3 DEF HeaderInv


LEMMA CallStep ==
    ASSUME HeaderInv, ResetAbortKeyDerivation
    PROVE  HeaderInv'
<1>1. reader \in ReaderType /\ mount' = mount /\ UNCHANGED <<pool, slot, thread, caller, data, report>> /\ reader.pc = "call"
  BY HeaderTypes DEF HeaderInv, ResetAbortKeyDerivation, Goto, vars
<1>2. FlagsOnly
  BY <1>1, Types DEF HeaderInv, IInv, FlagsOnly
<1>3. PICK pc \in {"reset", "returned"} : reader' = [reader EXCEPT !.pc = pc]
  BY DEF ResetAbortKeyDerivation, Goto
<1>4. reader' \in ReaderType /\ reader'.pc = pc /\ reader'.pooled = reader.pooled
  BY <1>1, <1>3 DEF ReaderType, ReaderPcs
<1>5. report.outstanding = 0
  BY <1>1 DEF HeaderInv, UseInv
<1>6. TriedInv'
  BY <1>1, <1>3 DEF HeaderInv, TriedInv, Wanted, Reading, Positioned, ReaderType
<1>. QED  BY <1>1, <1>2, <1>4, <1>5, <1>6, ReaderStep DEF Reading

(* Between two attempts nothing is under way: the counter is zero *)
LEMMA RetryStep ==
    ASSUME HeaderInv, RetryV1
    PROVE  HeaderInv'
<1>1. /\ reader \in ReaderType /\ mount' = mount /\ UNCHANGED <<pool, slot, thread, caller, data, report>>
      /\ reader.pc = "returned" /\ reader.attempt < MaxAttempts /\ IInv /\ ~Lingering
  BY HeaderTypes DEF HeaderInv, RetryV1, vars
<1>2. FlagsOnly
  BY <1>1, Types DEF IInv, FlagsOnly
<1>3. PICK attempt \in 1 .. MaxAttempts : reader' = [reader EXCEPT !.pc = "reset", !.attempt = attempt]
  <2>1. reader.attempt + 1 \in 1 .. MaxAttempts
    BY <1>1, HeaderAssumption DEF ReaderType
  <2>. QED  BY <2>1 DEF RetryV1
<1>4. reader' \in ReaderType /\ reader'.pc = "reset" /\ reader'.pooled = reader.pooled
  BY <1>1, <1>3 DEF ReaderType, ReaderPcs
<1>5. report.outstanding = 0
  <2>1. \A c \in Callers : caller[c].pc # "clear"
    <3>1. caller[Reader].pc = "idle"
      BY <1>1 DEF HeaderInv, UseInv
    <3>2. \A c \in Callers : caller[c].pc = "clear" => c = Reader
      BY <1>1 DEF HeaderInv, UseInv, IInv, CallInv
    <3>. QED  BY <3>1, <3>2
  <2>. QED  BY <1>1, <2>1, NothingCounted
<1>6. TriedInv'
  BY <1>1, <1>3 DEF HeaderInv, TriedInv, Wanted, Reading, Positioned, ReaderType
<1>. QED  BY <1>1, <1>2, <1>4, <1>5, <1>6, ReaderStep DEF Reading

(* An attempt begins with everything cleared *)
LEMMA BeginStep ==
    ASSUME HeaderInv, ReadBegin
    PROVE  HeaderInv'
<1>1. /\ reader \in ReaderType /\ mount' = mount /\ UNCHANGED <<pool, slot, thread, caller, data>>
      /\ reader.pc = "reset" /\ IInv /\ report.outstanding = 0 /\ pool.running \in BOOLEAN
  BY HeaderTypes, Types DEF HeaderInv, ReadBegin, UseInv, IInv, PoolType
<1>2. /\ report' \in ReportType /\ report'.outstanding = 0 /\ ~report'.abort
      /\ \A p \in Prfs : ~report'.keyReady[p] /\ report'.result[p] = "none"
  BY DEF ReadBegin, ReportType
<1>3. PICK pooled \in BOOLEAN :
         /\ reader' = [reader EXCEPT !.pc = "loop", !.pooled = pooled, !.enq = 1, !.items = {}, !.argon2 = "none", !.status = "none",
                                     !.tested = {}, !.skipped = {}]
         /\ pooled => pool.running
  BY <1>1 DEF ReadBegin
<1>4. reader' \in ReaderType /\ reader'.pc = "loop" /\ reader'.pooled = pooled
  <2>1. 1 \in 0 .. (LastPrf + 1)
    BY Order
  <2>. QED  BY ZenonT(60), <1>1, <1>3, <2>1 DEF ReaderType, ReaderPcs, Reading
<1>5. IInv' /\ HeaderTypeOK'
  BY <1>1, <1>2, <1>4, ReportStep, HeaderTypes, HeaderTypesNext DEF HeaderInv, IInv
<1>6. UseInv'
  BY <1>1, <1>3, <1>4 DEF HeaderInv, UseInv
<1>7. AbortInv'
  BY <1>1, <1>2, <1>4 DEF HeaderInv, AbortInv
<1>8. TriedInv'
  BY <1>1, <1>3, <1>4, Order DEF TriedInv, Reading, Positioned, ReaderType
<1>. QED  BY <1>5, <1>6, <1>7, <1>8 DEF HeaderInv

(* A function is queued: the pool keeps its invariant, as with any caller *)
LEMMA QueueStep ==
    ASSUME HeaderInv, ReadQueue
    PROVE  HeaderInv'
<1>1. /\ reader \in ReaderType /\ mount' = mount /\ UNCHANGED <<pool, slot, thread, data>> /\ TypeOK /\ Reader \in Callers
      /\ reader.pc = "loop" /\ reader.pooled /\ reader.enq <= LastPrf /\ IInv
  BY HeaderTypes, Order DEF HeaderInv, ReadQueue, ReadNext, IInv
<1>2. PICK p \in Prfs :
         /\ p = PrfOrder[reader.enq]
         /\ report' = [report EXCEPT !.keyReady[p] = FALSE, !.result[p] = "none"]
         /\ reader' = [reader EXCEPT !.pc = "begin", !.items = reader.items \cup {p}]
         /\ caller' = [caller EXCEPT ![Reader].pc = "acquire", ![Reader].prf = p]
  <2>1. reader.enq \in 1 .. LastPrf
    BY <1>1, Order DEF HeaderInv, TriedInv, ReaderType
  <2>2. PrfOrder[reader.enq] \in Prfs
    BY <2>1, Order
  <2>. QED  BY <2>2 DEF ReadQueue
<1>3. /\ report' \in ReportType /\ report'.outstanding = report.outstanding /\ report'.abort = report.abort
      /\ \A x \in Prfs : \/ report'.keyReady[x] = report.keyReady[x] /\ report'.result[x] = report.result[x]
                         \/ report'.keyReady[x] = FALSE /\ report'.result[x] = "none"
  <2>1. report \in ReportType
    BY <1>1, Types
  <2>. QED  BY <1>2, <2>1 DEF ReportType
<1>4. /\ caller' \in [Callers -> CallerType] /\ caller'[Reader].pc = "acquire" /\ caller'[Reader].prf = p
      /\ caller'[Reader].count = caller[Reader].count
      /\ \A x \in Callers : x # Reader => caller'[x] = caller[x]
  <2>1. caller \in [Callers -> CallerType] /\ caller[Reader] \in CallerType
    BY <1>1, Types
  <2>2. PICK y : y = [caller[Reader] EXCEPT !.pc = "acquire", !.prf = p]
    OBVIOUS
  <2>3. y \in CallerType /\ y.pc = "acquire" /\ y.prf = p /\ y.count = caller[Reader].count
    BY <2>1, <2>2 DEF CallerType
  <2>4. caller' = [caller EXCEPT ![Reader] = y]
    BY <1>2, <2>2
  <2>. QED  BY <1>1, <2>3, <2>4, CallerAssigned
<1>5. caller[Reader].pc = "idle" /\ pool.running /\ ~pool.stopPending
  BY <1>1 DEF HeaderInv, UseInv
<1>6. IInv'
  BY <1>1, <1>3, <1>4, <1>5, DerivationAsked
<1>7. reader' \in ReaderType /\ reader'.pc = "begin" /\ reader'.pooled = reader.pooled
  BY <1>1, <1>2 DEF ReaderType, ReaderPcs, Reading
<1>8. HeaderTypeOK'
  BY <1>1, <1>6, <1>7, HeaderTypes, HeaderTypesNext DEF HeaderInv, IInv
<1>9. UseInv'
  BY <1>1, <1>4, <1>7 DEF HeaderInv, UseInv
<1>10. AbortInv'
  BY <1>1, <1>3, <1>7 DEF HeaderInv, AbortInv, Reading
<1>11. TriedInv'
  <2>1. /\ reader'.items = reader.items \cup {p} /\ reader'.tested = reader.tested /\ reader'.skipped = reader.skipped
        /\ reader'.enq = reader.enq /\ reader'.selected = reader.selected /\ reader'.status = reader.status
        /\ reader'.attempt = reader.attempt /\ reader'.right = reader.right /\ reader'.argon2 = reader.argon2
    BY <1>1, <1>2 DEF ReaderType
  <2>2. \A k \in 1 .. LastPrf : k <= reader.enq /\ PrfOrder[k] \in Wanted =>
          PrfOrder[k] \in reader.items \cup {p} \cup reader.tested \cup reader.skipped
    BY <1>1, <1>2, Order DEF HeaderInv, TriedInv, Handled, ReaderType
  <2>. QED  BY <1>1, <1>7, <2>1, <2>2 DEF HeaderInv, TriedInv, Handled, Wanted, Reading, Positioned
<1>. QED  BY <1>6, <1>8, <1>9, <1>10, <1>11 DEF HeaderInv

(* The reader goes on to the next function, to look for a key or to wait *)
LEMMA MoveStep ==
    ASSUME HeaderInv, NEW pc \in {"loop", "scan", "wait"}, NEW n \in 0 .. (LastPrf + 1),
           reader' = [reader EXCEPT !.pc = pc, !.enq = n], reader.pc \in {"loop", "begin", "scan", "wait"},
           mount' = mount, UNCHANGED <<pool, slot, thread, caller, data>>, FlagsOnly, report'.abort = report.abort,
           reader.pc = "begin" => caller[Reader].pc = "idle",
           pc = "loop" => n >= 1, pc # "loop" => n <= LastPrf,
           \A k \in 1 .. LastPrf : k < n \/ (pc # "loop" /\ k = n) => k < reader.enq \/ (reader.pc # "loop" /\ k = reader.enq)
    PROVE  HeaderInv'
<1>1. reader \in ReaderType /\ reader.enq \in Nat /\ LastPrf \in Nat
  BY HeaderTypes, Order DEF HeaderInv, ReaderType
<1>2. /\ reader' \in ReaderType /\ reader'.pc = pc /\ reader'.pooled = reader.pooled /\ reader'.items = reader.items
      /\ reader'.tested = reader.tested /\ reader'.skipped = reader.skipped /\ reader'.enq = n /\ reader'.selected = reader.selected
      /\ reader'.status = reader.status /\ reader'.attempt = reader.attempt /\ reader'.right = reader.right
      /\ reader'.argon2 = reader.argon2
  BY <1>1 DEF ReaderType, ReaderPcs, Reading
<1>3. \A k \in 1 .. LastPrf : k < reader.enq \/ (reader.pc # "loop" /\ k = reader.enq) =>
         (PrfOrder[k] \in Wanted => PrfOrder[k] \in reader.items \cup reader.tested \cup reader.skipped)
  BY <1>1 DEF HeaderInv, TriedInv, Handled, Positioned
<1>4. \A k \in 1 .. LastPrf : k < n \/ (pc # "loop" /\ k = n) =>
         (PrfOrder[k] \in Wanted => PrfOrder[k] \in reader.items \cup reader.tested \cup reader.skipped)
  BY <1>3
<1>5. TriedInv'
  BY <1>1, <1>2, <1>4 DEF HeaderInv, TriedInv, Handled, Wanted, Reading, Positioned
<1>. QED  BY <1>2, <1>5, ReaderStep DEF Reading

LEMMA LoopSteps ==
    ASSUME HeaderInv, ReadQueued \/ ReadFull \/ ReadNoneLeft \/ ReadWait
    PROVE  HeaderInv'
<1>1. /\ reader \in ReaderType /\ TypeOK /\ LastPrf \in Nat /\ UNCHANGED <<pool, slot, thread, caller, data>> /\ mount' = mount
      /\ reader.enq \in 0 .. (LastPrf + 1)
  BY HeaderTypes, Order DEF HeaderInv, IInv, ReadQueued, ReadFull, ReadNoneLeft, ReadWait, vars, ReaderType
<1>2. FlagsOnly /\ report'.abort = report.abort
  <2>1. report' = report \/ report' = [report EXCEPT !.keyEvent = FALSE]
    BY DEF ReadQueued, ReadFull, ReadNoneLeft, ReadWait, vars
  <2>2. report \in ReportType
    BY <1>1, Types
  <2>. QED  BY <2>1, <2>2 DEF FlagsOnly, ReportType
<1>3. CASE ReadQueued
  <2>1. reader.pc = "begin" /\ reader.enq <= LastPrf /\ caller[Reader].pc = "idle"
    BY <1>3 DEF HeaderInv, TriedInv, Positioned, ReadQueued
  <2>2. CASE reader.enq < LastPrf
    <3>1. PICK n \in 1 .. LastPrf : n = reader.enq + 1
      BY <1>1, <2>2
    <3>2. reader' = [reader EXCEPT !.pc = "loop", !.enq = n]
      BY <1>3, <2>2, <3>1 DEF ReadQueued
    <3>3. n \in 0 .. (LastPrf + 1) /\ n >= 1 /\ \A k \in 1 .. LastPrf : k < n => k < reader.enq \/ k = reader.enq
      BY <1>1, <3>1
    <3>. QED  BY <1>1, <1>2, <2>1, <3>2, <3>3, MoveStep
  <2>3. CASE ~(reader.enq < LastPrf)
    <3>1. reader' = [reader EXCEPT !.pc = "scan", !.enq = reader.enq]
      BY <1>1, <1>3, <2>3 DEF ReadQueued, ReaderType
    <3>. QED  BY <1>1, <1>2, <2>1, <3>1, MoveStep
  <2>. QED  BY <2>2, <2>3
<1>4. CASE ReadFull
  <2>1. reader.pc = "loop" /\ reader.enq >= 1
    BY <1>4 DEF HeaderInv, TriedInv, ReadFull, ReadNext
  <2>2. PICK n \in 0 .. LastPrf : n = reader.enq - 1
    BY <1>1, <2>1
  <2>3. reader' = [reader EXCEPT !.pc = "scan", !.enq = n]
    BY <1>4, <2>2 DEF ReadFull
  <2>4. n \in 0 .. (LastPrf + 1) /\ n <= LastPrf /\ \A k \in 1 .. LastPrf : k < n \/ k = n => k < reader.enq
    BY <1>1, <2>2
  <2>. QED  BY <1>1, <1>2, <2>1, <2>3, <2>4, MoveStep
<1>5. CASE ReadNoneLeft
  <2>1. reader.pc = "scan" /\ reader.enq <= LastPrf
    BY <1>5 DEF HeaderInv, TriedInv, Positioned, ReadNoneLeft
  <2>2. PICK n \in 1 .. (LastPrf + 1) : n = reader.enq + 1
    BY <1>1, <2>1
  <2>3. reader' = [reader EXCEPT !.pc = "loop", !.enq = n]
    BY <1>5, <2>2 DEF ReadNoneLeft
  <2>4. n \in 0 .. (LastPrf + 1) /\ n >= 1 /\ \A k \in 1 .. LastPrf : k < n => k < reader.enq \/ k = reader.enq
    BY <1>1, <2>2
  <2>. QED  BY <1>1, <1>2, <2>1, <2>3, <2>4, MoveStep
<1>6. CASE ReadWait
  <2>1. reader.pc \in {"scan", "wait"} /\ \E pc \in {"scan", "wait"} : reader' = [reader EXCEPT !.pc = pc]
    BY <1>6 DEF ReadWait, Goto
  <2>2. PICK pc \in {"scan", "wait"} : reader' = [reader EXCEPT !.pc = pc]
    BY <2>1
  <2>3. reader' = [reader EXCEPT !.pc = pc, !.enq = reader.enq]
    BY <1>1, <2>2 DEF ReaderType
  <2>4. reader.enq <= LastPrf
    BY <2>1 DEF HeaderInv, TriedInv, Positioned
  <2>. QED  BY <1>1, <1>2, <2>1, <2>3, <2>4, MoveStep
<1>. QED  BY <1>3, <1>4, <1>5, <1>6

(* The reader gives up, or has its answer *)
LEMMA StoppedStep ==
    ASSUME HeaderInv, NEW status \in {"wrong", "aborted", "nomem"}, Stopped(status), reader.pc \in {"loop", "scan", "test"},
           UNCHANGED <<vars, mount>>,
           status = "wrong" => Wanted \subseteq reader.tested \cup reader.skipped /\ reader.argon2 = "none"
    PROVE  HeaderInv'
<1>1. reader \in ReaderType /\ UNCHANGED <<pool, slot, thread, caller, data, report>> /\ mount' = mount
  BY HeaderTypes DEF HeaderInv, vars
<1>2. FlagsOnly
  BY <1>1, Types DEF HeaderInv, IInv, FlagsOnly
<1>3. /\ reader' \in ReaderType /\ reader'.pc = "err" /\ reader'.pooled = reader.pooled /\ reader'.items = reader.items
      /\ reader'.tested = reader.tested /\ reader'.skipped = reader.skipped /\ reader'.selected = reader.selected
      /\ reader'.status = status /\ reader'.attempt = reader.attempt /\ reader'.right = reader.right
      /\ reader'.argon2 = reader.argon2
  BY <1>1 DEF ReaderType, ReaderPcs, Stopped
<1>4. TriedInv'
  BY <1>3 DEF HeaderInv, TriedInv, Wanted, Reading, Positioned
<1>. QED  BY <1>1, <1>2, <1>3, <1>4, ReaderStep DEF Reading

(* A key is there for a function, from the pool or derived by the reader *)
LEMMA KeyStep ==
    ASSUME HeaderInv, NEW p \in Prfs, NEW key \in {"key", "cut"}, key = "cut" => mount.userAbort,
           reader' = [reader EXCEPT !.pc = "test", !.items = reader.items \ {p}, !.current = p, !.key = key],
           reader.pc = "scan" \/ (reader.pc = "loop" /\ reader.enq <= LastPrf /\ p = PrfOrder[reader.enq]),
           UNCHANGED <<vars, mount>>
    PROVE  HeaderInv'
<1>1. reader \in ReaderType /\ UNCHANGED <<pool, slot, thread, caller, data, report>>
        /\ mount' = mount /\ reader.enq \in Nat /\ LastPrf \in Nat
  BY HeaderTypes, Order DEF HeaderInv, vars, ReaderType
<1>2. FlagsOnly
  BY <1>1, Types DEF HeaderInv, IInv, FlagsOnly
<1>3. /\ reader' \in ReaderType /\ reader'.pc = "test" /\ reader'.pooled = reader.pooled /\ reader'.items = reader.items \ {p}
      /\ reader'.tested = reader.tested /\ reader'.skipped = reader.skipped /\ reader'.selected = reader.selected
      /\ reader'.status = reader.status /\ reader'.attempt = reader.attempt /\ reader'.right = reader.right
      /\ reader'.argon2 = reader.argon2 /\ reader'.current = p /\ reader'.key = key /\ reader'.enq = reader.enq
  BY <1>1 DEF ReaderType, ReaderPcs, Reading
<1>4. reader.enq <= LastPrf /\ \A k \in 1 .. LastPrf : k <= reader.enq =>
         (PrfOrder[k] \in Wanted => PrfOrder[k] \in (reader.items \ {p}) \cup reader.tested \cup reader.skipped \cup {p})
  <2>1. CASE reader.pc = "scan"
    BY <2>1 DEF HeaderInv, TriedInv, Handled, Positioned
  <2>2. CASE reader.pc = "loop"
    BY <1>1, <2>2 DEF HeaderInv, TriedInv, Handled
  <2>. QED  BY <2>1, <2>2
<1>5. TriedInv'
  BY <1>3, <1>4 DEF HeaderInv, TriedInv, Handled, Wanted, Reading, Positioned
<1>. QED  BY <1>1, <1>2, <1>3, <1>5, ReaderStep DEF Reading

(* The derivation of a function failed *)
LEMMA FailedFields ==
    ASSUME reader \in ReaderType, NEW p \in Prfs, NEW outcome \in {"failed", "cancelled"}
    PROVE  /\ Failed(p, outcome) \in ReaderType /\ Failed(p, outcome).enq = reader.enq
           /\ Failed(p, outcome).items = reader.items \ {p} /\ Failed(p, outcome).skipped = reader.skipped \cup {p}
           /\ Failed(p, outcome).argon2 = (IF p = Argon2 THEN outcome ELSE reader.argon2)
           /\ Failed(p, outcome).pc = reader.pc /\ Failed(p, outcome).pooled = reader.pooled /\ Failed(p, outcome).tested = reader.tested
           /\ Failed(p, outcome).selected = reader.selected /\ Failed(p, outcome).status = reader.status
           /\ Failed(p, outcome).attempt = reader.attempt /\ Failed(p, outcome).right = reader.right
           /\ Failed(p, outcome).current = reader.current /\ Failed(p, outcome).key = reader.key
<1>1. PICK items \in SUBSET Prfs, skipped \in SUBSET Prfs, answer \in {"none", "failed", "cancelled"} :
         items = reader.items \ {p} /\ skipped = reader.skipped \cup {p} /\ answer = (IF p = Argon2 THEN outcome ELSE reader.argon2)
  BY DEF ReaderType
<1>2. Failed(p, outcome) = [reader EXCEPT !.items = items, !.skipped = skipped, !.argon2 = answer]
  BY <1>1 DEF Failed
<1>. QED  BY <1>1, <1>2 DEF ReaderType

LEMMA FailedStep ==
    ASSUME HeaderInv, NEW p \in Prfs, NEW outcome \in {"failed", "cancelled"}, NEW n \in 0 .. (LastPrf + 1),
           reader' = [Failed(p, outcome) EXCEPT !.enq = n],
           \/ reader.pc = "scan" /\ n = reader.enq
           \/ reader.pc = "loop" /\ reader.enq <= LastPrf /\ p = PrfOrder[reader.enq] /\ n = reader.enq + 1,
           UNCHANGED <<vars, mount>>
    PROVE  HeaderInv'
<1>1. reader \in ReaderType /\ UNCHANGED <<pool, slot, thread, caller, data, report>>
        /\ mount' = mount /\ reader.enq \in Nat /\ LastPrf \in Nat
  BY HeaderTypes, Order DEF HeaderInv, vars, ReaderType
<1>2. FlagsOnly
  BY <1>1, Types DEF HeaderInv, IInv, FlagsOnly
<1>3. PICK failed \in ReaderType : failed = Failed(p, outcome) /\ reader' = [failed EXCEPT !.enq = n]
  BY <1>1, FailedFields
<1>4. /\ reader' \in ReaderType /\ reader'.pc = reader.pc /\ reader'.pooled = reader.pooled /\ reader'.items = reader.items \ {p}
      /\ reader'.tested = reader.tested /\ reader'.skipped = reader.skipped \cup {p} /\ reader'.selected = reader.selected
      /\ reader'.status = reader.status /\ reader'.attempt = reader.attempt /\ reader'.right = reader.right
      /\ reader'.argon2 = (IF p = Argon2 THEN outcome ELSE reader.argon2)
      /\ reader'.current = reader.current /\ reader'.key = reader.key /\ reader'.enq = n
  <2>1. /\ reader' \in ReaderType /\ reader'.pc = failed.pc /\ reader'.pooled = failed.pooled /\ reader'.items = failed.items
        /\ reader'.tested = failed.tested /\ reader'.skipped = failed.skipped /\ reader'.selected = failed.selected
        /\ reader'.status = failed.status /\ reader'.attempt = failed.attempt /\ reader'.right = failed.right
        /\ reader'.argon2 = failed.argon2 /\ reader'.current = failed.current /\ reader'.key = failed.key /\ reader'.enq = n
    BY <1>3 DEF ReaderType
  <2>. QED  BY <1>1, <1>3, <2>1, FailedFields
<1>5. /\ reader.pc = "loop" => n >= 1
      /\ reader.pc = "scan" => n <= LastPrf
      /\ \A k \in 1 .. LastPrf : k < n \/ (reader.pc = "scan" /\ k = n) =>
            (PrfOrder[k] \in Wanted => PrfOrder[k] \in (reader.items \ {p}) \cup reader.tested \cup reader.skipped \cup {p})
  <2>1. CASE reader.pc = "scan"
    BY <1>1, <2>1 DEF HeaderInv, TriedInv, Handled, Positioned
  <2>2. CASE reader.pc = "loop"
    BY <1>1, <2>2 DEF HeaderInv, TriedInv, Handled
  <2>. QED  BY <2>1, <2>2
<1>6. reader'.status = "none" /\ (Argon2 \in reader'.skipped => reader'.argon2 # "none")
  BY <1>4 DEF HeaderInv, TriedInv, Reading
<1>7. TriedInv'
  <2>1. ~reader'.pooled => reader'.items = {}
    BY <1>4 DEF HeaderInv, TriedInv
  <2>2. \A k \in 1 .. LastPrf : k < n \/ (reader.pc = "scan" /\ k = n) => (PrfOrder[k] \in Wanted' => PrfOrder[k] \in Handled')
    BY <1>4, <1>5 DEF Handled, Wanted
  <2>3. reader'.attempt = RightAttempt => reader'.right \notin reader'.tested
    BY <1>4 DEF HeaderInv, TriedInv
  <2>. QED  BY <1>4, <1>5, <1>6, <2>1, <2>2, <2>3 DEF TriedInv, Positioned
<1>. QED  BY <1>1, <1>2, <1>4, <1>7, ReaderStep DEF Reading

LEMMA TakeStep ==
    ASSUME HeaderInv, ReadTake
    PROVE  HeaderInv'
<1>1. /\ reader \in ReaderType /\ report \in ReportType /\ UNCHANGED <<vars, mount>> /\ reader.pc = "scan"
      /\ LastPrf \in Nat /\ reader.enq \in 0 .. (LastPrf + 1)
  BY HeaderTypes, Types, Order DEF HeaderInv, IInv, ReadTake, ReaderType
<1>2. PICK p \in Ready :
         IF mount.userAbort THEN Stopped("aborted")
         ELSE IF report.result[p] \in {"failed", "cancelled"} THEN reader' = Failed(p, report.result[p])
         ELSE reader' = [reader EXCEPT !.pc = "test", !.items = @ \ {p}, !.current = p, !.key = report.result[p]]
  BY DEF ReadTake
<1>3. p \in Prfs /\ report.keyReady[p] /\ report.result[p] \in {"key", "cut", "failed", "cancelled"}
  <2>1. p \in Prfs /\ report.keyReady[p]
    BY <1>1, <1>2 DEF Ready, ReaderType
  <2>. QED  BY <1>1, <2>1 DEF HeaderInv, AbortInv, ReportType
<1>4. CASE mount.userAbort
  BY <1>1, <1>2, <1>4, StoppedStep
<1>5. CASE ~mount.userAbort /\ report.result[p] \in {"failed", "cancelled"}
  <2>1. reader' = [Failed(p, report.result[p]) EXCEPT !.enq = reader.enq]
    BY <1>1, <1>2, <1>5 DEF Failed, ReaderType
  <2>. QED  BY <1>1, <1>3, <1>5, <2>1, FailedStep
<1>6. CASE ~mount.userAbort /\ report.result[p] \notin {"failed", "cancelled"}
  <2>1. report.result[p] \in {"key", "cut"} /\ (report.result[p] = "cut" => mount.userAbort)
    BY <1>1, <1>3, <1>6 DEF HeaderInv, AbortInv, Reading
  <2>2. reader' = [reader EXCEPT !.pc = "test", !.items = reader.items \ {p}, !.current = p, !.key = report.result[p]]
    BY <1>2, <1>6
  <2>. QED  BY <1>1, <1>3, <2>1, <2>2, KeyStep
<1>. QED  BY <1>4, <1>5, <1>6

LEMMA DirectStep ==
    ASSUME HeaderInv, ReadDirect
    PROVE  HeaderInv'
<1>1. /\ reader \in ReaderType /\ UNCHANGED <<vars, mount>> /\ reader.pc = "loop" /\ LastPrf \in Nat
      /\ UNCHANGED <<pool, slot, thread, caller, data, report>> /\ mount' = mount
      /\ ~reader.pooled /\ (reader.enq <= LastPrf \/ reader.items # {})
  BY HeaderTypes, Order DEF HeaderInv, ReadDirect, ReadNext, vars
<1>2. reader.items = {} /\ reader.enq \in 1 .. LastPrf
  BY <1>1 DEF HeaderInv, TriedInv, ReaderType
<1>3. PICK p \in Prfs : p = PrfOrder[reader.enq]
  BY <1>2, Order
<1>4. PICK n \in 0 .. (LastPrf + 1) : n = reader.enq + 1
  BY <1>1, <1>2
<1>5. CASE reader.selected \notin {"none", p}
  <2>1. reader' = [reader EXCEPT !.enq = n]
    BY <1>3, <1>4, <1>5 DEF ReadDirect
  <2>2. FlagsOnly
    BY <1>1, Types DEF HeaderInv, IInv, FlagsOnly
  <2>3. /\ reader' \in ReaderType /\ reader'.pc = "loop" /\ reader'.pooled = reader.pooled /\ reader'.items = reader.items
        /\ reader'.tested = reader.tested /\ reader'.skipped = reader.skipped /\ reader'.selected = reader.selected
        /\ reader'.status = reader.status /\ reader'.attempt = reader.attempt /\ reader'.right = reader.right
        /\ reader'.argon2 = reader.argon2 /\ reader'.enq = n
    BY <1>1, <2>1 DEF ReaderType
  <2>4. p \notin Wanted
    BY <1>5 DEF Wanted
  <2>5. n >= 1 /\ \A k \in 1 .. LastPrf : k < n /\ PrfOrder[k] \in Wanted => PrfOrder[k] \in Handled
    BY <1>1, <1>2, <1>3, <1>4, <2>4 DEF HeaderInv, TriedInv
  <2>6. TriedInv'
    BY <1>1, <2>3, <2>5 DEF HeaderInv, TriedInv, Handled, Wanted, Reading, Positioned
  <2>. QED  BY <1>1, <2>2, <2>3, <2>6, ReaderStep DEF Reading
<1>6. CASE reader.selected \in {"none", p}
  <2>1. PICK outcome \in Outcomes(p) :
           IF outcome \in {"key", "cut"} THEN reader' = [reader EXCEPT !.pc = "test", !.current = p, !.key = outcome]
           ELSE IF reader.selected = "none" THEN reader' = [Failed(p, outcome) EXCEPT !.enq = @ + 1]
           ELSE Stopped(ErrorOf(outcome))
    BY <1>3, <1>6 DEF ReadDirect
  <2>2. outcome \in {"key", "cut", "failed", "cancelled"} /\ (outcome = "cut" => mount.userAbort)
    BY <1>1 DEF Outcomes, HeaderInv, AbortInv, Reading
  <2>3. CASE outcome \in {"key", "cut"}
    <3>1. reader' = [reader EXCEPT !.pc = "test", !.items = reader.items \ {p}, !.current = p, !.key = outcome]
      BY ZenonT(60), <1>1, <1>2, <2>1, <2>3 DEF ReaderType
    <3>. QED  BY <1>1, <1>2, <1>3, <2>2, <2>3, <3>1, KeyStep
  <2>4. CASE outcome \in {"failed", "cancelled"} /\ reader.selected = "none"
    <3>1. Failed(p, outcome).enq = reader.enq
      BY <1>1, <2>4, FailedFields
    <3>2. reader' = [Failed(p, outcome) EXCEPT !.enq = n]
      BY <1>4, <2>1, <2>4, <3>1
    <3>. QED  BY <1>1, <1>2, <1>3, <1>4, <2>4, <3>2, FailedStep
  <2>5. CASE outcome \in {"failed", "cancelled"} /\ reader.selected # "none"
    <3>1. Stopped(ErrorOf(outcome)) /\ ErrorOf(outcome) \in {"aborted", "nomem"}
      BY <2>1, <2>5 DEF ErrorOf
    <3>. QED  BY <1>1, <3>1, StoppedStep
  <2>. QED  BY <2>2, <2>3, <2>4, <2>5
<1>. QED  BY <1>5, <1>6

(* A complete key that does not open the header is not the right one *)
LEMMA TestStep ==
    ASSUME HeaderInv, ReadTest
    PROVE  HeaderInv'
<1>1. /\ reader \in ReaderType /\ report \in ReportType /\ UNCHANGED <<pool, slot, thread, caller, data>> /\ mount' = mount
      /\ reader.pc = "test" /\ ~mount.userAbort /\ LastPrf \in Nat /\ TypeOK
  BY HeaderTypes, Types, Order DEF HeaderInv, IInv, ReadTest
<1>2. reader.current \in Prfs /\ reader.key # "cut"
  BY <1>1 DEF HeaderInv, AbortInv
<1>3. CASE Opens
  <2>1. reader' = [reader EXCEPT !.pc = "ret", !.status = "success", !.current = "none"]
    BY <1>3 DEF ReadTest
  <2>2. FlagsOnly
    <3>1. report' = report \/ report' = [report EXCEPT !.abort = TRUE]
      BY <1>3 DEF ReadTest
    <3>. QED  BY <1>1, <3>1, FlagsStep
  <2>3. /\ reader' \in ReaderType /\ reader'.pc = "ret" /\ reader'.pooled = reader.pooled /\ reader'.items = reader.items
        /\ reader'.tested = reader.tested /\ reader'.skipped = reader.skipped /\ reader'.selected = reader.selected
        /\ reader'.status = "success" /\ reader'.attempt = reader.attempt /\ reader'.right = reader.right
        /\ reader'.argon2 = reader.argon2
    BY <1>1, <2>1 DEF ReaderType, ReaderPcs
  <2>4. TriedInv'
    BY <1>1, <2>3 DEF HeaderInv, TriedInv, Reading, Positioned
  <2>. QED  BY <1>1, <2>2, <2>3, <2>4, ReaderStep DEF Reading
<1>4. CASE ~Opens
  <2>1. reader.enq \in 0 .. LastPrf
    BY <1>1 DEF HeaderInv, TriedInv, Positioned, ReaderType
  <2>2. PICK n \in 1 .. (LastPrf + 1) : n = reader.enq + 1
    BY <1>1, <2>1
  <2>3. n \in 0 .. (LastPrf + 1)
    BY <1>1
  <2>4. PICK tested \in SUBSET Prfs :
           /\ tested = IF reader.key = "key" THEN reader.tested \cup {reader.current} ELSE reader.tested
           /\ reader' = [reader EXCEPT !.pc = "loop", !.enq = n, !.current = "none", !.tested = tested]
    <3>1. PICK tested \in SUBSET Prfs : tested = IF reader.key = "key" THEN reader.tested \cup {reader.current} ELSE reader.tested
      BY <1>1, <1>2 DEF ReaderType
    <3>2. reader' = [reader EXCEPT !.pc = "loop", !.enq = n, !.current = "none", !.tested = tested]
      BY <1>4, <2>2, <3>1 DEF ReadTest
    <3>. QED  BY <3>1, <3>2
  <2>5. report' = report
    BY <1>4 DEF ReadTest
  <2>6. FlagsOnly
    BY <1>1, <2>5 DEF FlagsOnly
  <2>7. /\ reader' \in ReaderType /\ reader'.pc = "loop" /\ reader'.pooled = reader.pooled /\ reader'.items = reader.items
        /\ reader'.tested = tested /\ reader'.skipped = reader.skipped /\ reader'.selected = reader.selected
        /\ reader'.status = reader.status /\ reader'.attempt = reader.attempt /\ reader'.right = reader.right
        /\ reader'.argon2 = reader.argon2 /\ reader'.enq = n
    BY <1>1, <2>3, <2>4 DEF ReaderType, ReaderPcs, Reading
  <2>8. reader.key = "key"
    BY <1>1, <1>2 DEF HeaderInv, AbortInv, ReaderType
  <2>9. \A k \in 1 .. LastPrf : k < n /\ PrfOrder[k] \in Wanted => PrfOrder[k] \in reader.items \cup tested \cup reader.skipped
    BY <1>1, <2>1, <2>2, <2>4, <2>8 DEF HeaderInv, TriedInv, Handled, Positioned
  <2>10. reader.attempt = RightAttempt => reader.right \notin tested
    BY <1>1, <1>4, <2>4, <2>8 DEF HeaderInv, TriedInv, Opens
  <2>11. TriedInv'
    BY <1>1, <2>2, <2>7, <2>9, <2>10 DEF HeaderInv, TriedInv, Handled, Wanted, Reading, Positioned
  <2>. QED  BY <1>1, <2>5, <2>6, <2>7, <2>11, ReaderStep DEF Reading
<1>. QED  BY <1>3, <1>4

LEMMA EndSteps ==
    ASSUME HeaderInv, ReadAbort \/ ReadOver
    PROVE  HeaderInv'
<1>1. CASE ReadAbort
  BY <1>1, StoppedStep DEF ReadAbort
<1>2. CASE ReadOver
  <2>1. /\ reader \in ReaderType /\ reader.pc = "loop" /\ reader.enq > LastPrf /\ reader.items = {} /\ UNCHANGED <<vars, mount>>
        /\ LastPrf \in Nat
    BY <1>2, HeaderTypes, Order DEF HeaderInv, ReadOver
  <2>2. PICK status \in {"wrong", "aborted", "nomem"} : Stopped(status) /\ (status = "wrong" => reader.argon2 = "none")
    BY <1>2 DEF ReadOver, ErrorOf
  <2>3. Wanted \subseteq reader.tested \cup reader.skipped
    <3>1. \A k \in 1 .. LastPrf : PrfOrder[k] \in Wanted => PrfOrder[k] \in reader.tested \cup reader.skipped
      BY <2>1 DEF HeaderInv, TriedInv, Handled, ReaderType
    <3>2. Wanted \subseteq Prfs
      BY ZenonT(60), <2>1, HeaderAssumption DEF Wanted, ReaderType
    <3>. QED  BY <3>1, <3>2, Order
  <2>. QED  BY <2>1, <2>2, <2>3, StoppedStep
<1>. QED  BY <1>1, <1>2

LEMMA ReturnSteps ==
    ASSUME HeaderInv, ReadErr \/ ReadReturn
    PROVE  HeaderInv'
<1>1. /\ reader \in ReaderType /\ TypeOK /\ UNCHANGED <<pool, slot, thread, caller, data>> /\ mount' = mount
      /\ reader.pc \in {"err", "ret"}
  BY HeaderTypes DEF HeaderInv, IInv, ReadErr, ReadReturn, Goto
<1>2. PICK pc \in {"ret", "returned"} : reader' = [reader EXCEPT !.pc = pc]
  BY DEF ReadErr, ReadReturn, Goto
<1>3. FlagsOnly
  <2>1. CASE ReadErr
    BY <1>1, <2>1, FlagsStep DEF ReadErr
  <2>2. CASE ReadReturn
    <3>1. report' = report \/ report' = [report EXCEPT !.noOutstandingEvent = FALSE]
      BY <2>2 DEF ReadReturn
    <3>. QED  BY <1>1, <3>1, FlagsStep
  <2>. QED  BY <2>1, <2>2
<1>4. /\ reader' \in ReaderType /\ reader'.pc = pc /\ reader'.pooled = reader.pooled /\ reader'.items = reader.items
      /\ reader'.tested = reader.tested /\ reader'.skipped = reader.skipped /\ reader'.selected = reader.selected
      /\ reader'.status = reader.status /\ reader'.attempt = reader.attempt /\ reader'.right = reader.right
      /\ reader'.argon2 = reader.argon2
  BY <1>1, <1>2 DEF ReaderType, ReaderPcs
<1>5. TriedInv'
  BY <1>1, <1>4 DEF HeaderInv, TriedInv, Wanted, Reading, Positioned
<1>. QED  BY <1>1, <1>3, <1>4, <1>5, ReaderStep DEF Reading

----------------------------------------------------------------------------
(* The theorems *)

LEMMA HeaderInitial == HeaderInit => HeaderInv
<1>. SUFFICES ASSUME HeaderInit PROVE HeaderInv
  OBVIOUS
<1>1. IInv
  BY InitialInvariant DEF HeaderInit
<1>2. PICK prf \in Selections, right \in RightPrfs :
       reader = [pc |-> "call", selected |-> prf, right |-> right, attempt |-> 1, pooled |-> FALSE, enq |-> 1,
                 items |-> {}, current |-> "none", key |-> "none", argon2 |-> "none", status |-> "none", tested |-> {}, skipped |-> {}]
  BY DEF HeaderInit
<1>3. 1 \in 0 .. (LastPrf + 1) /\ 1 \in 1 .. MaxAttempts /\ Reader \in Callers
  BY Order, HeaderAssumption
<1>4. reader \in ReaderType
  BY <1>2, <1>3 DEF ReaderType, ReaderPcs
<1>5. mount = [userAbort |-> FALSE, aborting |-> FALSE]
  BY DEF HeaderInit
<1>6. HeaderTypeOK
  BY <1>1, <1>4, <1>5, HeaderTypes DEF MountType, IInv
<1>7. UseInv
  BY <1>2, <1>3 DEF HeaderInit, Init, UseInv, Outside
<1>8. AbortInv
  BY <1>2, <1>5 DEF HeaderInit, Init, AbortInv, Reading
<1>9. TriedInv
  BY <1>2 DEF TriedInv, Reading, Positioned
<1>. QED  BY <1>1, <1>6, <1>7, <1>8, <1>9 DEF HeaderInv

LEMMA HeaderNextStep ==
    ASSUME HeaderInv, [HeaderNext]_allVars
    PROVE  HeaderInv'
<1>1. CASE PoolStep /\ UNCHANGED readerVars
  BY <1>1, PoolStepKeeps
<1>2. CASE ReadVolumeHeaderWithAbort
  BY <1>2, CallStep, RetryStep, BeginStep, QueueStep, LoopSteps, TakeStep, DirectStep, TestStep, EndSteps, ReturnSteps
     DEF ReadVolumeHeaderWithAbort
<1>3. CASE AbortPendingMount
  BY <1>3, AbortStep
<1>4. CASE UNCHANGED allVars
  <2>1. UNCHANGED <<pool, slot, thread, caller, data, report, reader, mount>>
    BY <1>4 DEF allVars, vars, readerVars
  <2>2. IInv'
    BY <2>1, StutterStep DEF HeaderInv, vars
  <2>3. HeaderTypeOK' /\ UseInv' /\ AbortInv'
    BY <2>1, <2>2, HeaderTypes, HeaderTypesNext DEF HeaderInv, IInv, UseInv, AbortInv
  <2>4. TriedInv'
    BY <2>1 DEF HeaderInv, TriedInv, Handled, Wanted
  <2>. QED  BY <2>2, <2>3, <2>4 DEF HeaderInv
<1>. QED  BY <1>1, <1>2, <1>3, <1>4 DEF HeaderNext

(* The invariant of the reader holds in every reachable state, and with it  *)
(* that of the pool it uses                                                *)
THEOREM HeaderInvariant == HeaderSpec => []HeaderInv
<1>. QED  BY HeaderInitial, HeaderNextStep, PTL DEF HeaderSpec

(* The reader's state has its type, and that of the pool under it: no       *)
(* function beyond the last one is read, no key is tested that no           *)
(* derivation wrote, and the counter of derivations stays exact when an     *)
(* attempt resets it                                                       *)
THEOREM HeaderTypeCorrect == HeaderSpec => []HeaderTypeOK
<1>1. HeaderInv => HeaderTypeOK
  BY DEF HeaderInv
<1>. QED  BY <1>1, HeaderInvariant, PTL

(* ReadVolumeHeader says that the password is wrong only if every function  *)
(* was tried with a complete key, or its derivation failed, in the attempt   *)
(* that ended, whenever the user aborts and in whatever order keys arrive    *)
THEOREM WrongIsThorough == HeaderSpec => []WrongMeansAllTried
<1>1. HeaderInv => WrongMeansAllTried
  <2>. SUFFICES ASSUME HeaderInv, reader.pc = "returned", reader.status = "wrong"
                PROVE  /\ Wanted \subseteq reader.tested \cup reader.skipped
                       /\ Argon2 \notin reader.skipped
                       /\ reader.attempt = RightAttempt /\ reader.right \in Wanted => reader.right \in reader.skipped
    BY DEF WrongMeansAllTried, Wanted
  <2>. QED  BY DEF HeaderInv, TriedInv
<1>. QED  BY <1>1, HeaderInvariant, PTL

(* While a header is read, with its derivations in the same ring, a call of *)
(* EncryptionThreadPoolDoWork for another volume still transforms every     *)
(* unit exactly once before it returns                                     *)
THEOREM OthersAreServed == HeaderSpec => []WorkDone
<1>1. HeaderInv => WorkDone
  BY DEF HeaderInv, IInv, DataInv, WorkDone, Calling, In
<1>. QED  BY <1>1, HeaderInvariant, PTL
=============================================================================
