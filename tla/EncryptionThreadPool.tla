------------------------ MODULE EncryptionThreadPool ------------------------
(***************************************************************************)
(* The pool of threads that encrypt and decrypt data units and derive      *)
(* header keys (Common/EncryptionThreadPool.c).  Work items live in a ring *)
(* of slots.  Callers fill the ring in order under EnqueueMutex, threads   *)
(* empty it in order under DequeueMutex; a slot says itself whether it is  *)
(* free, ready or busy.  EncryptionThreadPoolDoWork cuts its data into one *)
(* fragment per thread and waits for all of them, counting them down in    *)
(* the slot of the first, which stays taken until the call returns.        *)
(*                                                                         *)
(* A definition Name_Defect is a faulty variant of the definition Name     *)
(* below it, which the specification does not use.                         *)
(***************************************************************************)
EXTENDS Integers, FiniteSets

CONSTANTS
    Threads,      \* the threads EncryptionThreadPoolStart creates
    Callers,      \* those that call EncryptionThreadPoolDoWork or queue key derivations
    QueueSize,    \* ThreadQueueSize
    UnitCounts,   \* what unitCount may be
    MaxUnits,     \* bound on UnitCounts
    MaxCalls,     \* how many times each caller calls at most, a function
    MaxStarts,    \* how many times the pool is started at most
    Prfs,         \* key derivation functions
    MemoryHard    \* those that may fail: ARGON2, BALLOON

ThreadCount == Cardinality(Threads)
Slots == 0 .. (QueueSize - 1)
Units == 0 .. (MaxUnits - 1)

(* EncryptionThreadPoolStart never creates more threads than half the ring has slots *)
ASSUME PoolAssumption ==
    /\ QueueSize \in Nat \ {0} /\ MaxUnits \in Nat \ {0} /\ MaxCalls \in [Callers -> Nat] /\ MaxStarts \in Nat
    /\ IsFiniteSet(Threads) /\ ThreadCount >= 2 /\ 2 * ThreadCount <= QueueSize
    /\ UnitCounts \subseteq 0 .. MaxUnits
    /\ MemoryHard \subseteq Prfs
    /\ "none" \notin Threads \cup Callers \cup Prfs

VARIABLES
    pool,     \* positions in the ring, owners of the mutexes, events, flags
    slot,     \* [Slots -> record]: WorkItemQueue
    thread,   \* [Threads -> record]: where each EncryptionThreadProc is
    caller,   \* [Callers -> record]: where each caller is in the pool's code
    data,     \* [Callers -> [Units -> Nat]]: how often each unit of its data was transformed
    report    \* what key derivations report to: flags, events and counter of their caller

vars == <<pool, slot, thread, caller, data, report>>

----------------------------------------------------------------------------
FreeSlot == [state |-> "free", caller |-> "none", prf |-> "none", start |-> 0, count |-> 0,
             first |-> 0, outstanding |-> 0, completedEvent |-> FALSE]
Outside == [pc |-> "idle", calls |-> 0, prf |-> "none", count |-> 0, left |-> 0,
            start |-> 0, per |-> 0, remainder |-> 0, first |-> 0]

Init ==
    /\ pool = [enqueue |-> 0, dequeue |-> 0, enqueueMutex |-> "none", dequeueMutex |-> "none",
               readyEvent |-> FALSE, completedEvent |-> FALSE,
               running |-> FALSE, stopPending |-> FALSE, starts |-> MaxStarts]
    /\ slot = [s \in Slots |-> FreeSlot]
    /\ thread = [t \in Threads |-> [pc |-> "exited", slot |-> 0]]
    /\ caller = [c \in Callers |-> [Outside EXCEPT !.calls = MaxCalls[c]]]
    /\ data = [c \in Callers |-> [u \in Units |-> 0]]
    /\ report = [keyReady |-> [p \in Prfs |-> FALSE], result |-> [p \in Prfs |-> "none"],
                 keyEvent |-> FALSE, outstanding |-> 0, noOutstandingEvent |-> TRUE, abort |-> FALSE]

Following(position) == IF position + 1 >= QueueSize THEN 0 ELSE position + 1
Transform(c, start, count) ==
    data' = [data EXCEPT ![c] = [u \in Units |-> IF u \in start .. (start + count - 1) THEN @[u] + 1 ELSE @[u]]]

----------------------------------------------------------------------------
(* EncryptionThreadPoolStart *)

Start_KeepsPosition ==
    /\ ~pool.running /\ pool.starts > 0
    /\ pool' = [pool EXCEPT !.enqueue = 0, !.readyEvent = FALSE, !.completedEvent = FALSE,
                            !.running = TRUE, !.stopPending = FALSE, !.starts = @ - 1]
    /\ slot' = [s \in Slots |-> FreeSlot]
    /\ thread' = [t \in Threads |-> [pc |-> "loop", slot |-> 0]]
    /\ UNCHANGED <<caller, data, report>>

Start ==
    /\ ~pool.running /\ pool.starts > 0
    /\ pool' = [pool EXCEPT !.enqueue = 0, !.dequeue = 0, !.readyEvent = FALSE, !.completedEvent = FALSE,
                            !.running = TRUE, !.stopPending = FALSE, !.starts = @ - 1]
    /\ slot' = [s \in Slots |-> FreeSlot]
    /\ thread' = [t \in Threads |-> [pc |-> "loop", slot |-> 0]]
    /\ UNCHANGED <<caller, data, report>>

(* EncryptionThreadPoolStop, called when nobody uses the pool any more     *)
StopBegin_NoWakeup ==
    /\ pool.running /\ ~pool.stopPending
    /\ report.outstanding = 0 /\ \A c \in Callers : caller[c].pc = "idle"
    /\ pool' = [pool EXCEPT !.stopPending = TRUE]
    /\ UNCHANGED <<slot, thread, caller, data, report>>

StopBegin ==
    /\ pool.running /\ ~pool.stopPending
    /\ report.outstanding = 0 /\ \A c \in Callers : caller[c].pc = "idle"
    /\ pool' = [pool EXCEPT !.stopPending = TRUE, !.readyEvent = TRUE]
    /\ UNCHANGED <<slot, thread, caller, data, report>>

StopEnd ==
    /\ pool.running /\ pool.stopPending /\ \A t \in Threads : thread[t].pc = "exited"
    /\ pool' = [pool EXCEPT !.running = FALSE]
    /\ UNCHANGED <<slot, thread, caller, data, report>>

----------------------------------------------------------------------------
(* EncryptionThreadProc *)

At(t, pc) == thread[t].pc = pc
Go(t, pc) == thread' = [thread EXCEPT ![t].pc = pc]
SlotOf(t) == slot[thread[t].slot]

ThreadLoop(t) ==
    /\ At(t, "loop")
    /\ Go(t, IF pool.stopPending THEN "exited" ELSE "acquire")
    /\ UNCHANGED <<pool, slot, caller, data, report>>

(* Take DequeueMutex and the next slot, whatever its state *)
ThreadAcquire(t) ==
    /\ At(t, "acquire") /\ pool.dequeueMutex = "none"
    /\ thread' = [thread EXCEPT ![t] = [pc |-> "check", slot |-> pool.dequeue]]
    /\ pool' = [pool EXCEPT !.dequeueMutex = t, !.dequeue = Following(@)]
    /\ UNCHANGED <<slot, caller, data, report>>

ThreadWait(t) ==
    /\ \/ At(t, "check") /\ ~pool.stopPending /\ SlotOf(t).state # "ready" /\ Go(t, "wait") /\ UNCHANGED pool
       \/ At(t, "wait") /\ pool.readyEvent /\ Go(t, "check") /\ pool' = [pool EXCEPT !.readyEvent = FALSE]
    /\ UNCHANGED <<slot, caller, data, report>>

ThreadTake(t) ==
    /\ At(t, "check") /\ (pool.stopPending \/ SlotOf(t).state = "ready")
    /\ slot' = [slot EXCEPT ![thread[t].slot].state = "busy"]
    /\ pool' = [pool EXCEPT !.dequeueMutex = "none"]
    /\ Go(t, IF pool.stopPending THEN "exited" ELSE IF SlotOf(t).prf = "none" THEN "work" ELSE "derive")
    /\ UNCHANGED <<caller, data, report>>

ThreadWork(t) ==
    /\ At(t, "work")
    /\ Transform(SlotOf(t).caller, SlotOf(t).start, SlotOf(t).count)
    /\ Go(t, "free")
    /\ UNCHANGED <<pool, slot, caller, report>>

ThreadFree_EverySlot(t) ==
    /\ At(t, "free")
    /\ slot' = [slot EXCEPT ![thread[t].slot].state = "free"]
    /\ pool' = [pool EXCEPT !.completedEvent = TRUE]
    /\ Go(t, "count")
    /\ UNCHANGED <<caller, data, report>>

(* The slot of every fragment but the first is free again at once *)
ThreadFree(t) ==
    /\ At(t, "free")
    /\ IF thread[t].slot # SlotOf(t).first
       THEN /\ slot' = [slot EXCEPT ![thread[t].slot].state = "free"]
            /\ pool' = [pool EXCEPT !.completedEvent = TRUE]
       ELSE UNCHANGED <<pool, slot>>
    /\ Go(t, "count")
    /\ UNCHANGED <<caller, data, report>>

(* FirstFragment is read from the slot the thread has given up already *)
ThreadCountDown(t) ==
    /\ At(t, "count")
    /\ slot' = [slot EXCEPT ![SlotOf(t).first].outstanding = @ - 1]
    /\ Go(t, IF slot[SlotOf(t).first].outstanding = 1 THEN "signal" ELSE "loop")
    /\ UNCHANGED <<pool, caller, data, report>>

ThreadSignal(t) ==
    /\ At(t, "signal")
    /\ slot' = [slot EXCEPT ![SlotOf(t).first].completedEvent = TRUE]
    /\ Go(t, "loop")
    /\ UNCHANGED <<pool, caller, data, report>>

(* A derivation that finds the abort flag set ends early: with an error if *)
(* it is a memory-hard one, otherwise with a key that is not the right one *)
Outcomes(p) ==
    {"key"} \cup (IF p \in MemoryHard THEN {"failed"} ELSE {})
            \cup (IF report.abort THEN {IF p \in MemoryHard THEN "cancelled" ELSE "cut"} ELSE {})

ThreadDerive(t) ==
    /\ At(t, "derive")
    /\ \E outcome \in Outcomes(SlotOf(t).prf) :
          report' = [report EXCEPT !.result[SlotOf(t).prf] = outcome, !.keyReady[SlotOf(t).prf] = TRUE]
    /\ Go(t, "keyEvent")
    /\ UNCHANGED <<pool, slot, caller, data>>

ThreadReport_NoKeyEvent(t) ==
    /\ \/ At(t, "keyEvent") /\ Go(t, "countKey") /\ UNCHANGED report
       \/ /\ At(t, "countKey") /\ Go(t, IF report.outstanding = 1 THEN "noOutstanding" ELSE "release")
          /\ report' = [report EXCEPT !.outstanding = @ - 1]
       \/ /\ At(t, "noOutstanding") /\ Go(t, "release")
          /\ report' = [report EXCEPT !.noOutstandingEvent = TRUE]
    /\ UNCHANGED <<pool, slot, caller, data>>

(* The completion event; the interlocked counter; and when it reached zero, *)
(* in a step of its own, NoOutstandingWorkItemEvent                        *)
ThreadReport(t) ==
    /\ \/ /\ At(t, "keyEvent") /\ Go(t, "countKey")
          /\ report' = [report EXCEPT !.keyEvent = TRUE]
       \/ /\ At(t, "countKey") /\ Go(t, IF report.outstanding = 1 THEN "noOutstanding" ELSE "release")
          /\ report' = [report EXCEPT !.outstanding = @ - 1]
       \/ /\ At(t, "noOutstanding") /\ Go(t, "release")
          /\ report' = [report EXCEPT !.noOutstandingEvent = TRUE]
    /\ UNCHANGED <<pool, slot, caller, data>>

ThreadRelease(t) ==
    /\ At(t, "release")
    /\ slot' = [slot EXCEPT ![thread[t].slot].state = "free"]
    /\ pool' = [pool EXCEPT !.completedEvent = TRUE]
    /\ Go(t, "loop")
    /\ UNCHANGED <<caller, data, report>>

Derivation(t) == ThreadDerive(t) \/ ThreadReport(t) \/ ThreadRelease(t)

EncryptionThreadProc(t) ==
    \/ ThreadLoop(t) \/ ThreadAcquire(t) \/ ThreadWait(t) \/ ThreadTake(t)
    \/ ThreadWork(t) \/ ThreadFree(t) \/ ThreadCountDown(t) \/ ThreadSignal(t)
    \/ Derivation(t)

----------------------------------------------------------------------------
(* The callers' side of the ring, held under EnqueueMutex *)

In(c, pc) == caller[c].pc = pc
Advance(c, pc) == caller' = [caller EXCEPT ![c].pc = pc]

Acquire(c) ==
    /\ In(c, "acquire") /\ pool.enqueueMutex = "none"
    /\ pool' = [pool EXCEPT !.enqueueMutex = c]
    /\ caller' = [caller EXCEPT ![c].pc = IF caller[c].prf = "none" THEN "first" ELSE "put",
                                ![c].first = pool.enqueue]
    /\ UNCHANGED <<slot, thread, data, report>>

(* The slot at EnqueuePosition is taken: wait for WorkItemCompletedEvent and look again *)
AwaitSlot(c) ==
    /\ \/ In(c, "first") /\ slot[pool.enqueue].state # "free" /\ Advance(c, "firstWait") /\ UNCHANGED pool
       \/ In(c, "put") /\ slot[pool.enqueue].state # "free" /\ Advance(c, "putWait") /\ UNCHANGED pool
       \/ /\ pool.completedEvent /\ pool' = [pool EXCEPT !.completedEvent = FALSE]
          /\ (In(c, "firstWait") /\ Advance(c, "first")) \/ (In(c, "putWait") /\ Advance(c, "put"))
    /\ UNCHANGED <<slot, thread, data, report>>

(* Publish the filled slot; the mutex is released after the last one *)
MakeReady(c, record, last) ==
    /\ slot' = [slot EXCEPT ![pool.enqueue] = record]
    /\ pool' = [pool EXCEPT !.enqueue = Following(@), !.readyEvent = TRUE,
                            !.enqueueMutex = IF last THEN "none" ELSE @]

----------------------------------------------------------------------------
(* EncryptionThreadPoolDoWork *)

(* Without a running pool, or with one unit only, the caller works itself *)
DoWorkDirect(c) ==
    /\ In(c, "idle") /\ caller[c].calls > 0 /\ ~pool.stopPending
    /\ \E n \in UnitCounts :
          /\ n <= 1 \/ ~pool.running
          /\ data' = [data EXCEPT ![c] = [u \in Units |-> IF u < n THEN 1 ELSE 0]]
          /\ caller' = [caller EXCEPT ![c].calls = @ - 1, ![c].count = n]
    /\ UNCHANGED <<pool, slot, thread, report>>

(* As many fragments as threads, the first ones a unit longer if the units do not divide evenly *)
DoWorkBegin(c) ==
    /\ In(c, "idle") /\ caller[c].calls > 0 /\ pool.running /\ ~pool.stopPending
    /\ \E n \in UnitCounts :
          /\ n > 1
          /\ caller' = [caller EXCEPT ![c] =
                [@ EXCEPT !.pc = "acquire", !.calls = caller[c].calls - 1, !.count = n, !.start = 0,
                          !.left = IF n <= ThreadCount THEN n ELSE ThreadCount,
                          !.per = IF n <= ThreadCount THEN 1
                                  ELSE n \div ThreadCount + (IF n % ThreadCount > 0 THEN 1 ELSE 0),
                          !.remainder = IF n <= ThreadCount THEN 0 ELSE n % ThreadCount]]
    /\ data' = [data EXCEPT ![c] = [u \in Units |-> 0]]
    /\ UNCHANGED <<pool, slot, thread, report>>

DoWorkFirst(c) ==
    /\ In(c, "first") /\ slot[pool.enqueue].state = "free"
    /\ slot' = [slot EXCEPT ![pool.enqueue].outstanding = caller[c].left]
    /\ Advance(c, "put")
    /\ UNCHANGED <<pool, thread, data, report>>

DoWorkPut_RemainderKept(c) ==
    /\ In(c, "put") /\ caller[c].prf = "none" /\ slot[pool.enqueue].state = "free"
    /\ LET x == caller[c] IN
       /\ MakeReady(c, [slot[pool.enqueue] EXCEPT !.state = "ready", !.caller = c, !.prf = "none",
                           !.start = x.start, !.count = x.per, !.first = x.first], x.left = 1)
       /\ caller' = [caller EXCEPT ![c].left = @ - 1, ![c].start = @ + x.per,
                                   ![c].pc = IF x.left = 1 THEN "await" ELSE "put"]
    /\ UNCHANGED <<thread, data, report>>

DoWorkPut(c) ==
    /\ In(c, "put") /\ caller[c].prf = "none" /\ slot[pool.enqueue].state = "free"
    /\ LET x == caller[c]
           remainder == IF x.remainder > 0 THEN x.remainder - 1 ELSE 0
       IN /\ MakeReady(c, [slot[pool.enqueue] EXCEPT !.state = "ready", !.caller = c, !.prf = "none",
                              !.start = x.start, !.count = x.per, !.first = x.first], x.left = 1)
          /\ caller' = [caller EXCEPT ![c].left = @ - 1, ![c].start = @ + x.per, ![c].remainder = remainder,
                                      ![c].per = IF x.remainder > 0 /\ remainder = 0 THEN @ - 1 ELSE @,
                                      ![c].pc = IF x.left = 1 THEN "await" ELSE "put"]
    /\ UNCHANGED <<thread, data, report>>

DoWorkAwait(c) ==
    /\ In(c, "await") /\ slot[caller[c].first].completedEvent
    /\ slot' = [slot EXCEPT ![caller[c].first].completedEvent = FALSE]
    /\ Advance(c, "return")
    /\ UNCHANGED <<pool, thread, data, report>>

DoWorkReturn(c) ==
    /\ In(c, "return")
    /\ slot' = [slot EXCEPT ![caller[c].first].state = "free"]
    /\ pool' = [pool EXCEPT !.completedEvent = TRUE]
    /\ Advance(c, "idle")
    /\ UNCHANGED <<thread, data, report>>

EncryptionThreadPoolDoWork(c) ==
    DoWorkDirect(c) \/ DoWorkBegin(c) \/ DoWorkFirst(c) \/ DoWorkPut(c) \/ DoWorkAwait(c) \/ DoWorkReturn(c)

----------------------------------------------------------------------------
(* EncryptionThreadPoolBeginKeyDerivation: the counter, then the event,    *)
(* then the slot                                                           *)

(* A caller without a derivation of p under way asks for one, with its     *)
(* completion flag cleared                                                 *)
BeginCall(c) ==
    /\ In(c, "idle") /\ caller[c].calls > 0 /\ pool.running /\ ~pool.stopPending
    /\ \E p \in Prfs :
          /\ \A s \in Slots : slot[s].prf = p => slot[s].state = "free"
          /\ \A d \in Callers : caller[d].prf # p
          /\ report' = [report EXCEPT !.keyReady[p] = FALSE, !.result[p] = "none"]
          /\ caller' = [caller EXCEPT ![c] = [@ EXCEPT !.pc = "acquire", !.calls = caller[c].calls - 1, !.prf = p]]
    /\ UNCHANGED <<pool, slot, thread, data>>

BeginCount(c) ==
    /\ In(c, "put") /\ caller[c].prf # "none" /\ slot[pool.enqueue].state = "free"
    /\ report' = [report EXCEPT !.outstanding = @ + 1]
    /\ Advance(c, "clear")
    /\ UNCHANGED <<pool, slot, thread, data>>

BeginReady(c) ==
    /\ In(c, "clear")
    /\ report' = [report EXCEPT !.noOutstandingEvent = FALSE]
    /\ MakeReady(c, [slot[pool.enqueue] EXCEPT !.state = "ready", !.caller = c, !.prf = caller[c].prf], TRUE)
    /\ caller' = [caller EXCEPT ![c].pc = "idle", ![c].prf = "none"]
    /\ UNCHANGED <<thread, data>>

EncryptionThreadPoolBeginKeyDerivation(c) == BeginCount(c) \/ BeginReady(c)

----------------------------------------------------------------------------
Lifecycle == Start \/ StopBegin \/ StopEnd

Next ==
    \/ Lifecycle
    \/ \E t \in Threads : EncryptionThreadProc(t)
    \/ \E c \in Callers : Acquire(c) \/ AwaitSlot(c) \/ EncryptionThreadPoolDoWork(c)
                          \/ BeginCall(c) \/ EncryptionThreadPoolBeginKeyDerivation(c)

Spec == Init /\ [][Next]_vars

(* The pool's threads run, and a caller that is inside a call continues.   *)
(* Nobody has to call, start or stop the pool.                             *)
Inside(c) == ~In(c, "idle") /\ (Acquire(c) \/ AwaitSlot(c) \/ EncryptionThreadPoolDoWork(c)
                                \/ EncryptionThreadPoolBeginKeyDerivation(c))
Fairness ==
    /\ \A t \in Threads : WF_vars(EncryptionThreadProc(t))
    /\ \A c \in Callers : WF_vars(Inside(c))
    /\ WF_vars(StopEnd)

FairSpec == Spec /\ Fairness
----------------------------------------------------------------------------
(* Properties *)

(* The type invariant of the pool's ring, threads and callers *)
TypeOK ==
    /\ pool \in [enqueue : Slots, dequeue : Slots, enqueueMutex : Callers \cup {"none"},
                 dequeueMutex : Threads \cup {"none"}, readyEvent : BOOLEAN, completedEvent : BOOLEAN,
                 running : BOOLEAN, stopPending : BOOLEAN, starts : Nat]
    /\ slot \in [Slots -> [state : {"free", "ready", "busy"}, caller : Callers \cup {"none"}, prf : Prfs \cup {"none"},
                           start : Nat, count : Nat, first : Slots, outstanding : Nat, completedEvent : BOOLEAN]]
    /\ thread \in [Threads -> [pc : {"loop", "acquire", "check", "wait", "work", "free", "count", "signal", "derive",
                                     "keyEvent", "countKey", "noOutstanding", "release", "exited"}, slot : Slots]]
    /\ caller \in [Callers -> [pc : {"idle", "acquire", "first", "firstWait", "put", "putWait", "await", "return", "clear"},
                               calls : Nat, prf : Prfs \cup {"none"}, count : Nat, left : Nat,
                               start : Nat, per : Nat, remainder : Nat, first : Slots]]
    /\ data \in [Callers -> [Units -> Nat]]
    /\ report \in [keyReady : [Prfs -> BOOLEAN], result : [Prfs -> {"none", "key", "cut", "failed", "cancelled"}],
                   keyEvent : BOOLEAN, outstanding : Nat, noOutstandingEvent : BOOLEAN, abort : BOOLEAN]

(* When EncryptionThreadPoolDoWork has returned, every unit it was given   *)
(* has been transformed exactly once and nothing beyond them was touched   *)
WorkDone ==
    \A c \in Callers : In(c, "idle") =>
        \A u \in Units : data[c][u] = (IF u < caller[c].count THEN 1 ELSE 0)

(* A thread that still works on or counts down a fragment finds its call   *)
(* waiting for it: the slot it reads FirstFragment from after giving it up *)
(* has not been filled again for another call                              *)
FragmentOfLiveCall ==
    \A t \in Threads : thread[t].pc \in {"work", "free", "count", "signal"} =>
        /\ SlotOf(t).prf = "none" /\ SlotOf(t).caller # "none"
        /\ caller[SlotOf(t).caller].pc \in {"put", "putWait", "await"}
        /\ caller[SlotOf(t).caller].first = SlotOf(t).first
        /\ slot[SlotOf(t).first].state # "free"

(* EncryptionThreadPoolDoWork returns *)
EveryCallReturns == \A c \in Callers : In(c, "acquire") ~> In(c, "idle")

(* EncryptionThreadPoolStop returns: one event wakes all threads in turn *)
StopReturns == pool.stopPending ~> ~pool.running
=============================================================================
