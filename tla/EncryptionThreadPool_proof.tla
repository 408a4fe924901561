-------------------- MODULE EncryptionThreadPool_proof --------------------
(***************************************************************************)
(* Proofs about the thread pool, for any number of threads, callers, slots *)
(* and units: every unit of a call is transformed exactly once, and what   *)
(* a thread reads from a slot it has given up is still what it was.        *)
(***************************************************************************)
EXTENDS EncryptionThreadPool, FiniteSetTheorems, TLAPS

----------------------------------------------------------------------------
(* The inductive invariant *)

Holding == {"first", "firstWait", "put", "putWait", "clear"}
Fragmenting == {"work", "free", "count", "signal"}
Deriving == {"derive", "keyEvent", "countKey", "noOutstanding", "release"}
Active == Fragmenting \cup Deriving

(* x lies behind s on the way around the ring to f *)
After(x, s, f) == IF s < f THEN s < x /\ x <= f ELSE s < x \/ x <= f

(* Whoever works at a slot has it alone and does not see it ready.  The slot *)
(* of a fragment is given up before the fragment is counted, unless it is    *)
(* the first.                                                                *)
ThreadInv ==
    /\ \A t \in Threads : thread[t].pc \in {"work", "free"} \cup Deriving => SlotOf(t).state = "busy"
    /\ \A t \in Threads : thread[t].pc \in {"count", "signal"} =>
          SlotOf(t).state = (IF thread[t].slot = SlotOf(t).first THEN "busy" ELSE "free")
    /\ \A t \in Threads : thread[t].pc \in Fragmenting => SlotOf(t).prf = "none"
    /\ \A t \in Threads : thread[t].pc \in Deriving => SlotOf(t).prf # "none"
    /\ \A t, t2 \in Threads : thread[t].pc \in Active /\ thread[t2].pc \in Active /\ t # t2 => thread[t].slot # thread[t2].slot

(* EnqueueMutex, and when the pool is not in use *)
MutexInv ==
    /\ \A c \in Callers : pool.enqueueMutex = c <=> caller[c].pc \in Holding
    /\ ~pool.running => \A t \in Threads : thread[t].pc = "exited"
    /\ ~pool.running \/ pool.stopPending => report.outstanding = 0 /\ \A c \in Callers : caller[c].pc = "idle"

(* What is left to put into the ring of a call *)
Calling(c) == caller[c].prf = "none" /\ caller[c].pc # "idle"
Rest(x) == IF x.remainder > 0 THEN x.left * (x.per - 1) + x.remainder ELSE x.left * x.per
Share(x) ==
    /\ x.count = x.start + Rest(x) /\ x.count <= MaxUnits
    /\ x.per >= 1 /\ (x.remainder > 0 => x.per >= 2 /\ x.remainder < x.left)

(* The slot of the first fragment is taken from when it is put there until   *)
(* the call returns                                                          *)
CallInv ==
    /\ \A c \in Callers : caller[c].pc \in {"idle", "first", "firstWait", "await", "return"} => caller[c].prf = "none"
    /\ \A c \in Callers : caller[c].pc = "clear" => caller[c].prf # "none" /\ slot[pool.enqueue].state = "free"
    /\ \A c \in Callers : Calling(c) =>
          /\ Share(caller[c])
          /\ caller[c].pc \in {"acquire", "first", "firstWait"} => caller[c].start = 0
          /\ caller[c].pc \in {"await", "return"} <=> caller[c].left = 0
          /\ caller[c].pc \in {"await", "return"} => caller[c].start > 0
          /\ caller[c].pc \in {"first", "firstWait", "put", "putWait"} /\ caller[c].start = 0 => caller[c].first = pool.enqueue
          /\ caller[c].pc \in {"put", "putWait"} /\ caller[c].start = 0 => slot[caller[c].first].state = "free"
          /\ caller[c].start > 0 =>
                LET f == slot[caller[c].first] IN f.state # "free" /\ f.prf = "none" /\ f.caller = c /\ f.first = caller[c].first

(* A fragment that is not counted down belongs to a call in progress, and the *)
(* ring is not filled again between it and the first one                     *)
Live(s) ==
    \/ slot[s].state = "ready" /\ slot[s].prf = "none"
    \/ \E t \in Threads : thread[t].slot = s /\ thread[t].pc \in Fragmenting
FragmentInv ==
    \A s \in Slots : Live(s) =>
        LET c == slot[s].caller IN
        /\ c \in Callers /\ Calling(c) /\ caller[c].pc \in {"put", "putWait", "await"} /\ caller[c].start > 0
        /\ slot[s].first = caller[c].first
        /\ After(pool.enqueue, s, slot[s].first)

(* OutstandingFragmentCount is exact, and the completion event set after the *)
(* last fragment only                                                        *)
Awaited(c, s) ==
    /\ slot[s].caller = c /\ slot[s].prf = "none"
    /\ slot[s].state = "ready" \/ \E t \in Threads : thread[t].slot = s /\ thread[t].pc \in {"work", "free", "count"}
Uncounted(c) == {s \in Slots : Awaited(c, s)}
CountInv ==
    \A c \in Callers : Calling(c) /\ caller[c].pc \in {"put", "putWait", "await", "return"} =>
        slot[caller[c].first].outstanding = caller[c].left + Cardinality(Uncounted(c))

EventInv ==
    /\ \A s \in Slots : slot[s].completedEvent =>
          /\ \E c \in Callers : Calling(c) /\ caller[c].pc = "await" /\ caller[c].first = s
          /\ slot[s].outstanding = 0
    /\ \A t \in Threads : thread[t].pc = "signal" =>
          slot[SlotOf(t).first].outstanding = 0 /\ ~slot[SlotOf(t).first].completedEvent
    /\ \A t, t2 \in Threads : thread[t].pc = "signal" /\ thread[t2].pc = "signal" /\ t # t2 => SlotOf(t).first # SlotOf(t2).first

(* outstandingWorkItemCount is exact *)
Key(s) ==
    \/ slot[s].prf # "none" /\ slot[s].state = "ready"
    \/ \E t \in Threads : thread[t].slot = s /\ thread[t].pc \in {"derive", "keyEvent", "countKey"}
    \/ s = pool.enqueue /\ \E c \in Callers : caller[c].pc = "clear"
Keys == {s \in Slots : Key(s)}
KeyInv == report.outstanding = Cardinality(Keys)

(* The fragments that are not transformed yet are disjoint parts of the data *)
Undone(c, s) ==
    /\ slot[s].caller = c /\ slot[s].prf = "none"
    /\ slot[s].state = "ready" \/ \E t \in Threads : thread[t].slot = s /\ thread[t].pc = "work"
Covers(s, u) == slot[s].start <= u /\ u < slot[s].start + slot[s].count
DataInv ==
    \A c \in Callers :
        /\ ~Calling(c) => \A u \in Units : data[c][u] = (IF u < caller[c].count THEN 1 ELSE 0)
        /\ Calling(c) =>
              /\ \A u \in Units : data[c][u] = (IF u < caller[c].start /\ ~\E s \in Slots : Undone(c, s) /\ Covers(s, u) THEN 1 ELSE 0)
              /\ \A s \in Slots : Undone(c, s) => slot[s].start + slot[s].count <= caller[c].start
              /\ \A s, s2 \in Slots : Undone(c, s) /\ Undone(c, s2) /\ s # s2 =>
                    slot[s].start + slot[s].count <= slot[s2].start \/ slot[s2].start + slot[s2].count <= slot[s].start

IInv == TypeOK /\ ThreadInv /\ MutexInv /\ CallInv /\ FragmentInv /\ CountInv /\ EventInv /\ KeyInv /\ DataInv

----------------------------------------------------------------------------
(* Types *)

SlotType ==
    [state : {"free", "ready", "busy"}, caller : Callers \cup {"none"}, prf : Prfs \cup {"none"},
     start : Nat, count : Nat, first : Slots, outstanding : Nat, completedEvent : BOOLEAN]
ThreadPcs == {"loop", "acquire", "check", "wait", "exited"} \cup Active
CallerType ==
    [pc : {"idle", "acquire", "first", "firstWait", "put", "putWait", "await", "return", "clear"},
     calls : Nat, prf : Prfs \cup {"none"}, count : Nat, left : Nat,
     start : Nat, per : Nat, remainder : Nat, first : Slots]
PoolType ==
    [enqueue : Slots, dequeue : Slots, enqueueMutex : Callers \cup {"none"},
     dequeueMutex : Threads \cup {"none"}, readyEvent : BOOLEAN, completedEvent : BOOLEAN,
     running : BOOLEAN, stopPending : BOOLEAN, starts : Nat]
ReportType ==
    [keyReady : [Prfs -> BOOLEAN], result : [Prfs -> {"none", "key", "cut", "failed", "cancelled"}],
     keyEvent : BOOLEAN, outstanding : Nat, noOutstandingEvent : BOOLEAN, abort : BOOLEAN]

LEMMA Types ==
    TypeOK <=> /\ pool \in PoolType /\ slot \in [Slots -> SlotType] /\ report \in ReportType
               /\ thread \in [Threads -> [pc : ThreadPcs, slot : Slots]] /\ caller \in [Callers -> CallerType]
               /\ data \in [Callers -> [Units -> Nat]]
BY DEF TypeOK, PoolType, SlotType, ThreadPcs, CallerType, ReportType, Active, Fragmenting, Deriving

LEMMA TypesNext ==
    TypeOK' <=> /\ pool' \in PoolType /\ slot' \in [Slots -> SlotType] /\ report' \in ReportType
                /\ thread' \in [Threads -> [pc : ThreadPcs, slot : Slots]] /\ caller' \in [Callers -> CallerType]
                /\ data' \in [Callers -> [Units -> Nat]]
BY DEF TypeOK, PoolType, SlotType, ThreadPcs, CallerType, ReportType, Active, Fragmenting, Deriving

LEMMA SlotsAndUnits ==
    /\ QueueSize \in Nat \ {0} /\ Slots \subseteq Nat /\ IsFiniteSet(Slots) /\ 0 \in Slots
    /\ \A s \in Slots : s < QueueSize /\ Following(s) \in Slots
    /\ Units \subseteq Nat
    /\ ThreadCount \in Nat /\ ThreadCount >= 2
<1>1. QueueSize \in Nat \ {0} /\ MaxUnits \in Nat \ {0} /\ ThreadCount >= 2
  BY PoolAssumption
<1>2. IsFiniteSet(Slots)
  BY <1>1, FS_Interval DEF Slots
<1>3. ThreadCount \in Nat
  BY PoolAssumption, FS_CardinalityType DEF ThreadCount
<1>4. \A s \in Slots : s < QueueSize /\ Following(s) \in Slots
  BY <1>1 DEF Slots, Following
<1>. QED  BY <1>1, <1>2, <1>3, <1>4 DEF Slots, Units

(* Following goes around the ring *)
LEMMA AfterFollowing ==
    ASSUME NEW s \in Slots, NEW f \in Slots, NEW x \in Slots
    PROVE  /\ After(x, s, f) /\ x # f => After(Following(x), s, f)
           /\ After(Following(s), s, f)
           /\ s # f => ~After(s, s, f)
BY SlotsAndUnits DEF After, Following, Slots

LEMMA Fields ==
    ASSUME TypeOK
    PROVE  /\ pool.enqueue \in Slots /\ pool.dequeue \in Slots /\ pool.starts \in Nat
           /\ \A s \in Slots : /\ slot[s].state \in {"free", "ready", "busy"} /\ slot[s].caller \in Callers \cup {"none"}
                               /\ slot[s].prf \in Prfs \cup {"none"} /\ slot[s].start \in Nat /\ slot[s].count \in Nat
                               /\ slot[s].first \in Slots /\ slot[s].outstanding \in Nat
           /\ \A t \in Threads : thread[t].pc \in ThreadPcs /\ thread[t].slot \in Slots
           /\ \A c \in Callers : /\ caller[c].prf \in Prfs \cup {"none"} /\ caller[c].count \in Nat /\ caller[c].left \in Nat
                                 /\ caller[c].start \in Nat /\ caller[c].per \in Nat /\ caller[c].remainder \in Nat
                                 /\ caller[c].first \in Slots /\ caller[c].calls \in Nat
           /\ report.outstanding \in Nat
<1>1. pool.enqueue \in Slots /\ pool.dequeue \in Slots /\ pool.starts \in Nat
  BY Types DEF PoolType
<1>2. \A s \in Slots : /\ slot[s].state \in {"free", "ready", "busy"} /\ slot[s].caller \in Callers \cup {"none"}
                       /\ slot[s].prf \in Prfs \cup {"none"} /\ slot[s].start \in Nat /\ slot[s].count \in Nat
                       /\ slot[s].first \in Slots /\ slot[s].outstanding \in Nat
  BY Types DEF SlotType
<1>3. \A t \in Threads : thread[t].pc \in ThreadPcs /\ thread[t].slot \in Slots
  BY Types
<1>4. \A c \in Callers : /\ caller[c].prf \in Prfs \cup {"none"} /\ caller[c].count \in Nat /\ caller[c].left \in Nat
                         /\ caller[c].start \in Nat /\ caller[c].per \in Nat /\ caller[c].remainder \in Nat
                         /\ caller[c].first \in Slots /\ caller[c].calls \in Nat
  BY Types DEF CallerType
<1>5. report.outstanding \in Nat
  BY Types DEF ReportType
<1>. QED  BY <1>1, <1>2, <1>3, <1>4, <1>5

(* What the assignments to threads, slots and callers do *)
LEMMA GoStep ==
    ASSUME TypeOK, NEW t \in Threads, NEW pc \in ThreadPcs, Go(t, pc)
    PROVE  /\ thread' \in [Threads -> [pc : ThreadPcs, slot : Slots]]
           /\ thread'[t].pc = pc /\ thread'[t].slot = thread[t].slot
           /\ \A x \in Threads : x # t => thread'[x] = thread[x]
BY Types DEF Go

LEMMA AdvanceStep ==
    ASSUME TypeOK, NEW c \in Callers, NEW pc, Advance(c, pc),
           pc \in {"idle", "acquire", "first", "firstWait", "put", "putWait", "await", "return", "clear"}
    PROVE  /\ caller' \in [Callers -> CallerType]
           /\ caller'[c] = [caller[c] EXCEPT !.pc = pc]
           /\ \A x \in Callers : x # c => caller'[x] = caller[x]
BY ZenonT(60), Types DEF Advance, CallerType

CallerKept(c) ==
    /\ caller'[c].prf = caller[c].prf /\ caller'[c].count = caller[c].count /\ caller'[c].left = caller[c].left
    /\ caller'[c].start = caller[c].start /\ caller'[c].per = caller[c].per /\ caller'[c].remainder = caller[c].remainder
    /\ caller'[c].first = caller[c].first

LEMMA AdvanceFields ==
    ASSUME TypeOK, NEW c \in Callers, NEW pc, caller'[c] = [caller[c] EXCEPT !.pc = pc]
    PROVE  caller'[c].pc = pc /\ CallerKept(c)
<1>1. caller[c] \in CallerType
  BY Types
<1>. QED  BY <1>1 DEF CallerType, CallerKept

(* A fragment or a derivation stays what it is *)
WorkKept(s) ==
    /\ slot'[s].caller = slot[s].caller /\ slot'[s].prf = slot[s].prf /\ slot'[s].first = slot[s].first
    /\ slot'[s].start = slot[s].start /\ slot'[s].count = slot[s].count

LEMMA StateStep ==
    ASSUME TypeOK, NEW s \in Slots, NEW st \in {"free", "ready", "busy"}, slot' = [slot EXCEPT ![s].state = st]
    PROVE  /\ slot' \in [Slots -> SlotType]
           /\ slot'[s].state = st /\ slot'[s].outstanding = slot[s].outstanding /\ slot'[s].completedEvent = slot[s].completedEvent
           /\ \A x \in Slots : WorkKept(x) /\ (x # s => slot'[x] = slot[x])
<1>1. slot \in [Slots -> SlotType]
  BY Types
<1>. QED  BY <1>1 DEF SlotType, WorkKept

LEMMA OutstandingStep ==
    ASSUME TypeOK, NEW s \in Slots, NEW n \in Nat, slot' = [slot EXCEPT ![s].outstanding = n]
    PROVE  /\ slot' \in [Slots -> SlotType]
           /\ slot'[s].state = slot[s].state /\ slot'[s].outstanding = n /\ slot'[s].completedEvent = slot[s].completedEvent
           /\ \A x \in Slots : WorkKept(x) /\ (x # s => slot'[x] = slot[x])
<1>1. slot \in [Slots -> SlotType]
  BY Types
<1>. QED  BY <1>1 DEF SlotType, WorkKept

LEMMA EventStep ==
    ASSUME TypeOK, NEW s \in Slots, NEW b \in BOOLEAN, slot' = [slot EXCEPT ![s].completedEvent = b]
    PROVE  /\ slot' \in [Slots -> SlotType]
           /\ slot'[s].state = slot[s].state /\ slot'[s].outstanding = slot[s].outstanding /\ slot'[s].completedEvent = b
           /\ \A x \in Slots : WorkKept(x) /\ (x # s => slot'[x] = slot[x])
<1>1. slot \in [Slots -> SlotType]
  BY Types
<1>. QED  BY <1>1 DEF SlotType, WorkKept

----------------------------------------------------------------------------
(* Steps of threads that work at no slot, and of EncryptionThreadPoolStop *)

(* Threads that work at a slot stay where they are *)
ActiveKept == \A t \in Threads : thread[t].pc \in Active \/ thread'[t].pc \in Active => thread'[t] = thread[t]

LEMMA QuietStep ==
    ASSUME IInv, TypeOK', ActiveKept, slot' = slot, caller' = caller, data' = data, report' = report,
           pool'.enqueue = pool.enqueue, pool'.enqueueMutex = pool.enqueueMutex,
           ~pool'.running => \A t \in Threads : thread'[t].pc = "exited",
           ~pool'.running \/ pool'.stopPending => report.outstanding = 0 /\ \A c \in Callers : caller[c].pc = "idle"
    PROVE  IInv'
<1>1. ThreadInv'
  BY DEF IInv, ThreadInv, ActiveKept, Active, Deriving, Fragmenting, SlotOf
<1>2. MutexInv'
  BY DEF IInv, MutexInv
<1>3. CallInv'
  BY DEF IInv, CallInv, Calling, Share, Rest
<1>4. \A s \in Slots : Live(s)' <=> Live(s)
  BY DEF Live, ActiveKept, Active
<1>5. FragmentInv'
  BY <1>4 DEF IInv, FragmentInv, Calling
<1>6. \A c \in Callers : Uncounted(c)' = Uncounted(c)
  <2>1. \A c \in Callers : \A s \in Slots : Awaited(c, s)' <=> Awaited(c, s)
    BY DEF Awaited, ActiveKept, Active, Fragmenting
  <2>. QED  BY <2>1 DEF Uncounted
<1>7. CountInv'
  BY <1>6 DEF IInv, CountInv, Calling
<1>8. EventInv'
  BY DEF IInv, EventInv, Calling, ActiveKept, Active, Fragmenting, SlotOf
<1>9. Keys' = Keys
  <2>1. \A s \in Slots : Key(s)' <=> Key(s)
    BY DEF Key, ActiveKept, Active, Deriving
  <2>. QED  BY <2>1 DEF Keys
<1>10. KeyInv'
  BY <1>9 DEF IInv, KeyInv
<1>11. \A c \in Callers : \A s \in Slots : Undone(c, s)' <=> Undone(c, s)
  BY DEF Undone, ActiveKept, Active, Fragmenting
<1>12. DataInv'
  BY <1>11 DEF IInv, DataInv, Calling, Covers
<1>. QED  BY <1>1, <1>2, <1>3, <1>5, <1>7, <1>8, <1>10, <1>12 DEF IInv

LEMMA ThreadLoopStep ==
    ASSUME IInv, NEW t \in Threads, ThreadLoop(t)
    PROVE  IInv'
<1>1. TypeOK /\ thread[t].pc = "loop" /\ UNCHANGED <<pool, slot, caller, data, report>>
  BY DEF IInv, ThreadLoop, At
<1>2. PICK pc \in {"exited", "acquire"} : Go(t, pc)
  BY DEF ThreadLoop
<1>3. pc \in ThreadPcs
  BY DEF ThreadPcs
<1>4. /\ thread' \in [Threads -> [pc : ThreadPcs, slot : Slots]] /\ thread'[t].pc = pc
      /\ \A x \in Threads : x # t => thread'[x] = thread[x]
  BY <1>1, <1>2, <1>3, GoStep
<1>5. TypeOK'
  BY <1>1, <1>4, Types, TypesNext
<1>6. ActiveKept
  BY <1>1, <1>4 DEF ActiveKept, Active, Fragmenting, Deriving
<1>7. pool.running
  BY <1>1 DEF IInv, MutexInv
<1>. QED  BY <1>1, <1>5, <1>6, <1>7, QuietStep DEF IInv, MutexInv

LEMMA ThreadAcquireStep ==
    ASSUME IInv, NEW t \in Threads, ThreadAcquire(t)
    PROVE  IInv'
<1>1. /\ TypeOK /\ thread[t].pc = "acquire" /\ UNCHANGED <<slot, caller, data, report>>
      /\ thread' = [thread EXCEPT ![t] = [pc |-> "check", slot |-> pool.dequeue]]
  BY DEF IInv, ThreadAcquire, At
<1>2. pool.dequeue \in Slots /\ Following(pool.dequeue) \in Slots
  BY <1>1, Fields, SlotsAndUnits
<1>3. /\ thread' \in [Threads -> [pc : ThreadPcs, slot : Slots]] /\ thread'[t].pc = "check"
      /\ \A x \in Threads : x # t => thread'[x] = thread[x]
  BY <1>1, <1>2, Types DEF ThreadPcs
<1>4. /\ pool' \in PoolType /\ pool'.enqueue = pool.enqueue /\ pool'.enqueueMutex = pool.enqueueMutex
      /\ pool'.running = pool.running /\ pool'.stopPending = pool.stopPending
  BY <1>1, <1>2, Types DEF PoolType, ThreadAcquire
<1>5. TypeOK'
  BY <1>1, <1>3, <1>4, Types, TypesNext
<1>6. ActiveKept
  BY <1>1, <1>3 DEF ActiveKept, Active, Fragmenting, Deriving
<1>7. pool.running
  BY <1>1 DEF IInv, MutexInv
<1>. QED  BY <1>1, <1>4, <1>5, <1>6, <1>7, QuietStep DEF IInv, MutexInv

LEMMA ThreadWaitStep ==
    ASSUME IInv, NEW t \in Threads, ThreadWait(t)
    PROVE  IInv'
<1>1. TypeOK /\ thread[t].pc \in {"check", "wait"} /\ UNCHANGED <<slot, caller, data, report>>
  BY DEF IInv, ThreadWait, At
<1>2. PICK pc \in {"check", "wait"} : Go(t, pc)
  BY DEF ThreadWait
<1>3. pc \in ThreadPcs
  BY DEF ThreadPcs
<1>4. /\ thread' \in [Threads -> [pc : ThreadPcs, slot : Slots]] /\ thread'[t].pc = pc
      /\ \A x \in Threads : x # t => thread'[x] = thread[x]
  BY <1>1, <1>2, <1>3, GoStep
<1>5. pool' = pool \/ pool' = [pool EXCEPT !.readyEvent = FALSE]
  BY DEF ThreadWait
<1>6. /\ pool' \in PoolType /\ pool'.enqueue = pool.enqueue /\ pool'.enqueueMutex = pool.enqueueMutex
      /\ pool'.running = pool.running /\ pool'.stopPending = pool.stopPending
  BY <1>1, <1>5, Types DEF PoolType
<1>7. TypeOK'
  BY <1>1, <1>4, <1>6, Types, TypesNext
<1>8. ActiveKept
  BY <1>1, <1>2, <1>4 DEF ActiveKept, Active, Fragmenting, Deriving
<1>9. pool.running
  BY <1>1 DEF IInv, MutexInv
<1>. QED  BY <1>1, <1>6, <1>7, <1>8, <1>9, QuietStep DEF IInv, MutexInv

LEMMA StopBeginStep ==
    ASSUME IInv, StopBegin
    PROVE  IInv'
<1>1. /\ TypeOK /\ UNCHANGED <<slot, thread, caller, data, report>> /\ pool.running
      /\ report.outstanding = 0 /\ \A c \in Callers : caller[c].pc = "idle"
  BY DEF IInv, StopBegin
<1>2. /\ pool' \in PoolType /\ pool'.enqueue = pool.enqueue /\ pool'.enqueueMutex = pool.enqueueMutex
      /\ pool'.running = pool.running
  BY <1>1, Types DEF StopBegin, PoolType
<1>3. TypeOK'
  BY <1>1, <1>2, Types, TypesNext
<1>4. ActiveKept
  BY <1>1 DEF ActiveKept
<1>. QED  BY <1>1, <1>2, <1>3, <1>4, QuietStep

LEMMA StopEndStep ==
    ASSUME IInv, StopEnd
    PROVE  IInv'
<1>1. /\ TypeOK /\ UNCHANGED <<slot, thread, caller, data, report>> /\ pool.stopPending
      /\ \A t \in Threads : thread[t].pc = "exited"
  BY DEF IInv, StopEnd
<1>2. /\ pool' \in PoolType /\ pool'.enqueue = pool.enqueue /\ pool'.enqueueMutex = pool.enqueueMutex
  BY <1>1, Types DEF StopEnd, PoolType
<1>3. TypeOK'
  BY <1>1, <1>2, Types, TypesNext
<1>4. ActiveKept
  BY <1>1 DEF ActiveKept
<1>. QED  BY <1>1, <1>2, <1>3, <1>4, QuietStep DEF IInv, MutexInv

----------------------------------------------------------------------------
(* Steps of threads that work at a slot *)

(* Nobody uses a pool that is being stopped *)
LEMMA StoppedIsEmpty ==
    ASSUME IInv, ~pool.running \/ pool.stopPending
    PROVE  /\ \A c \in Callers : caller[c].pc = "idle"
           /\ \A s \in Slots : ~Live(s) /\ ~Key(s) /\ slot[s].state # "ready" /\ ~slot[s].completedEvent
<1>1. report.outstanding = 0 /\ \A c \in Callers : caller[c].pc = "idle"
  BY DEF IInv, MutexInv
<1>2. \A s \in Slots : ~Live(s)
  BY <1>1 DEF IInv, FragmentInv, Calling
<1>3. IsFiniteSet(Keys) /\ Cardinality(Keys) = 0
  BY <1>1, SlotsAndUnits, FS_Subset DEF IInv, KeyInv, Keys
<1>4. Keys = {}
  BY <1>3, FS_EmptySet
<1>5. \A s \in Slots : ~Key(s)
  BY <1>4 DEF Keys
<1>6. \A s \in Slots : slot[s].state # "ready"
  BY <1>2, <1>5 DEF Live, Key
<1>7. \A s \in Slots : ~slot[s].completedEvent
  BY <1>1 DEF IInv, EventInv, Calling
<1>. QED  BY <1>1, <1>2, <1>5, <1>6, <1>7

LEMMA ThreadTakeStep ==
    ASSUME IInv, NEW t \in Threads, ThreadTake(t)
    PROVE  IInv'
<1>. DEFINE s == thread[t].slot
<1>1. TypeOK /\ thread[t].pc = "check" /\ UNCHANGED <<caller, data, report>>
  BY DEF IInv, ThreadTake, At
<1>2. s \in Slots
  BY <1>1, Fields
<1>3. PICK pc \in {"exited", "work", "derive"} :
         /\ Go(t, pc)
         /\ pc = "exited" => pool.stopPending
         /\ pc = "work" => slot[s].prf = "none" /\ slot[s].state = "ready"
         /\ pc = "derive" => slot[s].prf # "none" /\ slot[s].state = "ready"
  BY DEF ThreadTake, SlotOf
<1>4. pc \in ThreadPcs
  BY DEF ThreadPcs, Active, Fragmenting, Deriving
<1>5. /\ thread' \in [Threads -> [pc : ThreadPcs, slot : Slots]] /\ thread'[t].pc = pc /\ thread'[t].slot = s
      /\ \A x \in Threads : x # t => thread'[x] = thread[x]
  BY <1>1, <1>3, <1>4, GoStep
<1>6. slot' = [slot EXCEPT ![s].state = "busy"]
  BY DEF ThreadTake
<1>7. /\ slot' \in [Slots -> SlotType] /\ slot'[s].state = "busy" /\ slot'[s].outstanding = slot[s].outstanding
      /\ slot'[s].completedEvent = slot[s].completedEvent
      /\ \A x \in Slots : WorkKept(x) /\ (x # s => slot'[x] = slot[x])
  BY <1>1, <1>2, <1>6, StateStep
<1>8. /\ pool' \in PoolType /\ pool'.enqueue = pool.enqueue /\ pool'.enqueueMutex = pool.enqueueMutex
      /\ pool'.running = pool.running /\ pool'.stopPending = pool.stopPending
  BY <1>1, Types DEF PoolType, ThreadTake
<1>9. TypeOK'
  BY <1>1, <1>5, <1>7, <1>8, Types, TypesNext
<1>10. pool.running
  BY <1>1 DEF IInv, MutexInv
<1>11. pc = "exited" => \A x \in Slots : ~Live(x) /\ ~Key(x) /\ slot[x].state # "ready" /\ ~slot[x].completedEvent
  BY <1>3, StoppedIsEmpty
<1>12. pc = "exited" => \A c \in Callers : caller[c].pc = "idle"
  BY <1>3, StoppedIsEmpty
<1>13. \A x \in Threads : thread[x].slot \in Slots /\ slot[thread[x].slot].first \in Slots
  BY <1>1, Fields
<1>. HIDE DEF s
<1>14. ThreadInv'
  <2>1. \A x \in Threads : thread[x].pc \in Active /\ thread[x].slot = s => pc = "exited" /\ thread[x].pc \in Deriving
    BY <1>2, <1>3, <1>11 DEF IInv, ThreadInv, Active, Fragmenting, Deriving, Live, SlotOf
  <2>. QED  BY SMTT(30), <1>1, <1>2, <1>3, <1>5, <1>7, <1>13, <2>1 DEF IInv, ThreadInv, Active, Fragmenting, Deriving, SlotOf, WorkKept
<1>15. MutexInv'
  BY <1>1, <1>8, <1>10 DEF IInv, MutexInv
<1>16. CallInv'
  <2>1. \A c \in Callers : caller[c].pc = "clear" => slot'[pool'.enqueue].state = "free"
    BY <1>1, <1>3, <1>7, <1>8, <1>12, Fields DEF IInv, CallInv
  <2>2. \A c \in Callers : Calling(c) /\ caller[c].pc \in {"put", "putWait"} /\ caller[c].start = 0 => slot'[caller[c].first].state = "free"
    BY <1>1, <1>3, <1>7, <1>12, Fields DEF IInv, CallInv
  <2>3. \A c \in Callers : Calling(c) /\ caller[c].start > 0 =>
           LET f == slot'[caller[c].first] IN f.state # "free" /\ f.prf = "none" /\ f.caller = c /\ f.first = caller[c].first
    BY <1>1, <1>7, Fields DEF IInv, CallInv, WorkKept
  <2>. QED  BY <1>1, <1>8, <2>1, <2>2, <2>3 DEF IInv, CallInv, Calling, Share, Rest
<1>17. \A x \in Slots : Live(x)' => Live(x)
  BY <1>1, <1>2, <1>3, <1>5, <1>7 DEF Live, Fragmenting, WorkKept
<1>18. FragmentInv'
  BY <1>1, <1>7, <1>8, <1>17 DEF IInv, FragmentInv, Calling, WorkKept
<1>19. \A c \in Callers : \A x \in Slots : (Awaited(c, x)' <=> Awaited(c, x)) /\ (Undone(c, x)' <=> Undone(c, x))
  BY <1>1, <1>2, <1>3, <1>5, <1>7, <1>11 DEF Awaited, Undone, WorkKept
<1>20. \A c \in Callers : Uncounted(c)' = Uncounted(c)
  BY <1>19 DEF Uncounted
<1>21. \A x \in Slots : slot'[x].outstanding = slot[x].outstanding /\ slot'[x].completedEvent = slot[x].completedEvent
  BY <1>7
<1>22. CountInv'
  BY <1>1, <1>20, <1>21, Fields DEF IInv, CountInv, Calling
<1>23. EventInv'
  BY SMTT(30), <1>1, <1>3, <1>5, <1>7, <1>13, <1>21 DEF IInv, EventInv, Calling, SlotOf, WorkKept
<1>24. Keys' = Keys
  <2>1. \A x \in Slots : Key(x)' <=> Key(x)
    BY <1>1, <1>2, <1>3, <1>5, <1>7, <1>8, <1>11 DEF Key, WorkKept
  <2>. QED  BY <2>1 DEF Keys
<1>25. KeyInv'
  BY <1>1, <1>24 DEF IInv, KeyInv
<1>26. DataInv'
  BY <1>1, <1>7, <1>19 DEF IInv, DataInv, Calling, Covers, WorkKept
<1>. QED  BY <1>9, <1>14, <1>15, <1>16, <1>18, <1>22, <1>23, <1>25, <1>26 DEF IInv

(* One thread moves and the slots stay as they are *)
LEMMA ThreadMoves ==
    ASSUME TypeOK, NEW t \in Threads, NEW pc \in ThreadPcs, Go(t, pc)
    PROVE  /\ thread' \in [Threads -> [pc : ThreadPcs, slot : Slots]] /\ thread'[t].pc = pc /\ thread'[t].slot = thread[t].slot
           /\ \A x \in Threads : x # t => thread'[x] = thread[x]
           /\ \A x \in Threads : thread'[x].slot = thread[x].slot
           /\ thread[t].slot \in Slots
BY GoStep, Fields

LEMMA ThreadWorkStep ==
    ASSUME IInv, NEW t \in Threads, ThreadWork(t)
    PROVE  IInv'
<1>1. TypeOK /\ thread[t].pc = "work" /\ UNCHANGED <<pool, slot, caller, report>> /\ Go(t, "free")
  BY DEF IInv, ThreadWork, At
<1>2. "free" \in ThreadPcs
  BY DEF ThreadPcs, Active, Fragmenting
<1>3. PICK s \in Slots :
         /\ thread' \in [Threads -> [pc : ThreadPcs, slot : Slots]] /\ thread'[t].pc = "free" /\ thread'[t].slot = s
         /\ thread[t].slot = s
         /\ \A x \in Threads : x # t => thread'[x] = thread[x]
  BY <1>1, <1>2, ThreadMoves
<1>4. PICK d \in Callers : d = slot[s].caller /\ Live(s) /\ Calling(d)
  BY <1>1, <1>3 DEF IInv, FragmentInv, Live, Fragmenting
<1>5. data' = [data EXCEPT ![d] = [u \in Units |-> IF u \in slot[s].start .. (slot[s].start + slot[s].count - 1) THEN @[u] + 1 ELSE @[u]]]
  BY <1>3, <1>4 DEF ThreadWork, Transform, SlotOf
<1>6. slot[s].start \in Nat /\ slot[s].count \in Nat
  BY <1>1, <1>3, Fields
<1>7. data \in [Callers -> [Units -> Nat]]
  BY <1>1, Types
<1>8. data' \in [Callers -> [Units -> Nat]]
  BY <1>4, <1>5, <1>6, <1>7
<1>9. \A u \in Units : data'[d][u] = (IF Covers(s, u) THEN data[d][u] + 1 ELSE data[d][u])
  <2>1. data'[d] = [u \in Units |-> IF u \in slot[s].start .. (slot[s].start + slot[s].count - 1) THEN data[d][u] + 1 ELSE data[d][u]]
    BY <1>4, <1>5, <1>7
  <2>2. \A u \in Units : u \in slot[s].start .. (slot[s].start + slot[s].count - 1) <=> Covers(s, u)
    <3>. SUFFICES ASSUME NEW u \in Units, NEW a \in Nat, NEW b \in Nat, a = slot[s].start, b = slot[s].count
                  PROVE  u \in a .. (a + b - 1) <=> Covers(s, u)
      BY <1>6
    <3>1. u \in Nat
      BY SlotsAndUnits
    <3>. QED  BY <3>1 DEF Covers
  <2>. QED  BY <2>1, <2>2
<1>10. \A c \in Callers : c # d => data'[c] = data[c]
  BY <1>5, <1>7
<1>11. TypeOK'
  BY <1>1, <1>3, <1>8, Types, TypesNext
<1>12. \A x, y \in Threads : thread[x].pc \in Active /\ thread[y].pc \in Active /\ x # y => thread[x].slot # thread[y].slot
  BY DEF IInv, ThreadInv
<1>13. slot[s].state = "busy" /\ slot[s].prf = "none"
  BY <1>1, <1>3 DEF IInv, ThreadInv, Fragmenting, SlotOf
<1>14. ThreadInv'
  BY <1>1, <1>3, <1>12, <1>13 DEF IInv, ThreadInv, Active, Fragmenting, Deriving, SlotOf
<1>15. MutexInv'
  BY <1>1, <1>3 DEF IInv, MutexInv
<1>16. CallInv'
  BY <1>1 DEF IInv, CallInv, Calling, Share, Rest
<1>17. \A x \in Slots : Live(x)' <=> Live(x)
  BY <1>1, <1>3 DEF Live, Fragmenting
<1>18. FragmentInv'
  BY <1>1, <1>17 DEF IInv, FragmentInv, Calling
<1>19. \A c \in Callers : \A x \in Slots : Awaited(c, x)' <=> Awaited(c, x)
  BY <1>1, <1>3 DEF Awaited
<1>20. \A c \in Callers : Uncounted(c)' = Uncounted(c)
  BY <1>19 DEF Uncounted
<1>21. CountInv'
  BY <1>1, <1>20 DEF IInv, CountInv, Calling
<1>22. EventInv'
  BY <1>1, <1>3 DEF IInv, EventInv, Calling, SlotOf
<1>23. Keys' = Keys
  <2>1. \A x \in Slots : Key(x)' <=> Key(x)
    BY <1>1, <1>3 DEF Key
  <2>. QED  BY <2>1 DEF Keys
<1>24. KeyInv'
  BY <1>1, <1>23 DEF IInv, KeyInv
<1>25. \A c \in Callers : \A x \in Slots : Undone(c, x)' <=> Undone(c, x) /\ x # s
  BY <1>1, <1>3, <1>12, <1>13 DEF Undone, Active, Fragmenting
<1>26. Undone(d, s)
  BY <1>1, <1>3, <1>4, <1>13 DEF Undone
<1>27. \A c \in Callers : Calling(c)' <=> Calling(c)
  BY <1>1 DEF Calling
<1>28. \A u \in Units : \A x \in Slots : Covers(x, u)' <=> Covers(x, u)
  BY <1>1 DEF Covers
<1>29. \A c \in Callers : c # d => \A x \in Slots : Undone(c, x)' <=> Undone(c, x)
  BY <1>4, <1>25 DEF Undone
<1>30. \A c \in Callers : Calling(c) => \A x \in Slots : Undone(c, x) => slot[x].start + slot[x].count <= caller[c].start
  BY DEF IInv, DataInv
<1>31. \A c \in Callers : Calling(c) => \A x, y \in Slots : Undone(c, x) /\ Undone(c, y) /\ x # y =>
          slot[x].start + slot[x].count <= slot[y].start \/ slot[y].start + slot[y].count <= slot[x].start
  BY DEF IInv, DataInv
<1>32. \A u \in Units : data'[d][u] =
           (IF u < caller[d].start /\ ~\E x \in Slots : Undone(d, x)' /\ Covers(x, u)' THEN 1 ELSE 0)
  <2>. SUFFICES ASSUME NEW u \in Units
                PROVE  data'[d][u] = (IF u < caller[d].start /\ ~\E x \in Slots : Undone(d, x)' /\ Covers(x, u)' THEN 1 ELSE 0)
    OBVIOUS
  <2>0. u \in Nat /\ caller[d].start \in Nat
    BY <1>1, <1>4, SlotsAndUnits, Fields
  <2>1. data[d][u] = (IF u < caller[d].start /\ ~\E x \in Slots : Undone(d, x) /\ Covers(x, u) THEN 1 ELSE 0)
    BY <1>4 DEF IInv, DataInv
  <2>2. CASE Covers(s, u)
    <3>1. data[d][u] = 0
      BY <2>1, <2>2, <1>3, <1>26
    <3>2. u < caller[d].start
      BY <2>0, <2>2, <1>3, <1>4, <1>6, <1>26, <1>30 DEF Covers
    <3>3. \A x \in Slots : Undone(d, x) /\ x # s => ~Covers(x, u)
      <4>1. \A x \in Slots : slot[x].start \in Nat /\ slot[x].count \in Nat
        BY <1>1, Fields
      <4>. QED  BY <4>1, <2>0, <2>2, <1>3, <1>4, <1>6, <1>26, <1>31 DEF Covers
    <3>4. ~\E x \in Slots : Undone(d, x)' /\ Covers(x, u)'
      BY <3>3, <1>4, <1>25, <1>28
    <3>5. data'[d][u] = data[d][u] + 1
      BY <1>9, <2>2
    <3>. QED  BY <3>1, <3>2, <3>4, <3>5
  <2>3. CASE ~Covers(s, u)
    <3>1. data'[d][u] = data[d][u]
      BY <1>9, <2>3
    <3>2. (\E x \in Slots : Undone(d, x)' /\ Covers(x, u)') <=> \E x \in Slots : Undone(d, x) /\ Covers(x, u)
      BY <2>3, <1>4, <1>25, <1>28
    <3>. QED  BY <2>1, <3>1, <3>2
  <2>. QED  BY <2>2, <2>3
<1>33. DataInv'
  <2>. SUFFICES ASSUME NEW c \in Callers
                PROVE  /\ ~Calling(c) => \A u \in Units : data'[c][u] = (IF u < caller[c].count THEN 1 ELSE 0)
                       /\ Calling(c) =>
                            /\ \A u \in Units : data'[c][u] =
                                  (IF u < caller[c].start /\ ~\E x \in Slots : Undone(c, x)' /\ Covers(x, u)' THEN 1 ELSE 0)
                            /\ \A x \in Slots : Undone(c, x)' => slot[x].start + slot[x].count <= caller[c].start
                            /\ \A x, y \in Slots : Undone(c, x)' /\ Undone(c, y)' /\ x # y =>
                                  slot[x].start + slot[x].count <= slot[y].start \/ slot[y].start + slot[y].count <= slot[x].start
    BY <1>1, <1>27 DEF DataInv
  <2>1. ~Calling(c) => \A u \in Units : data'[c][u] = (IF u < caller[c].count THEN 1 ELSE 0)
    BY <1>4, <1>10 DEF IInv, DataInv
  <2>2. Calling(c) => \A u \in Units : data'[c][u] =
           (IF u < caller[c].start /\ ~\E x \in Slots : Undone(c, x)' /\ Covers(x, u)' THEN 1 ELSE 0)
    <3>1. CASE c = d
      BY <3>1, <1>32
    <3>2. CASE c # d
      <4>1. \A u \in Units : (\E x \in Slots : Undone(c, x)' /\ Covers(x, u)') <=> \E x \in Slots : Undone(c, x) /\ Covers(x, u)
        BY <3>2, <1>28, <1>29
      <4>. QED  BY <4>1, <3>2, <1>10 DEF IInv, DataInv
    <3>. QED  BY <3>1, <3>2
  <2>3. Calling(c) => \A x \in Slots : Undone(c, x)' => slot[x].start + slot[x].count <= caller[c].start
    BY <1>25, <1>30
  <2>4. Calling(c) => \A x, y \in Slots : Undone(c, x)' /\ Undone(c, y)' /\ x # y =>
           slot[x].start + slot[x].count <= slot[y].start \/ slot[y].start + slot[y].count <= slot[x].start
    BY <1>25, <1>31
  <2>. QED  BY <2>1, <2>2, <2>3, <2>4
<1>. QED  BY <1>11, <1>14, <1>15, <1>16, <1>18, <1>21, <1>22, <1>24, <1>33 DEF IInv

LEMMA ThreadFreeStep ==
    ASSUME IInv, NEW t \in Threads, ThreadFree(t)
    PROVE  IInv'
<1>1. TypeOK /\ thread[t].pc = "free" /\ UNCHANGED <<caller, data, report>> /\ Go(t, "count")
  BY DEF IInv, ThreadFree, At
<1>2. "count" \in ThreadPcs
  BY DEF ThreadPcs, Active, Fragmenting
<1>3. PICK s \in Slots :
         /\ thread' \in [Threads -> [pc : ThreadPcs, slot : Slots]] /\ thread'[t].pc = "count" /\ thread'[t].slot = s
         /\ thread[t].slot = s
         /\ \A x \in Threads : x # t => thread'[x] = thread[x]
  BY <1>1, <1>2, ThreadMoves
<1>4. slot[s].state = "busy" /\ slot[s].prf = "none"
  BY <1>1, <1>3 DEF IInv, ThreadInv, Fragmenting, SlotOf
<1>5. /\ slot' \in [Slots -> SlotType] /\ slot'[s].outstanding = slot[s].outstanding
      /\ slot'[s].completedEvent = slot[s].completedEvent
      /\ slot'[s].state = (IF s = slot[s].first THEN "busy" ELSE "free")
      /\ \A x \in Slots : WorkKept(x) /\ (x # s => slot'[x] = slot[x])
  <2>1. CASE s = slot[s].first
    <3>1. slot' = slot
      BY <1>3, <2>1 DEF ThreadFree, SlotOf
    <3>. QED  BY <1>1, <1>4, <2>1, <3>1, Types DEF WorkKept
  <2>2. CASE s # slot[s].first
    <3>1. slot' = [slot EXCEPT ![s].state = "free"]
      BY <1>3, <2>2 DEF ThreadFree, SlotOf
    <3>. QED  BY <1>1, <2>2, <3>1, StateStep
  <2>. QED  BY <2>1, <2>2
<1>6. /\ pool' \in PoolType /\ pool'.enqueue = pool.enqueue /\ pool'.enqueueMutex = pool.enqueueMutex
      /\ pool'.running = pool.running /\ pool'.stopPending = pool.stopPending
  <2>1. pool' = pool \/ pool' = [pool EXCEPT !.completedEvent = TRUE]
    BY DEF ThreadFree
  <2>. QED  BY <1>1, <2>1, Types DEF PoolType
<1>7. TypeOK'
  BY <1>1, <1>3, <1>5, <1>6, Types, TypesNext
<1>8. \A x, y \in Threads : thread[x].pc \in Active /\ thread[y].pc \in Active /\ x # y => thread[x].slot # thread[y].slot
  BY DEF IInv, ThreadInv
<1>9. \A x \in Threads : thread[x].slot \in Slots /\ slot[thread[x].slot].first \in Slots
  BY <1>1, Fields
<1>10. \A x \in Slots : slot'[x].outstanding = slot[x].outstanding /\ slot'[x].completedEvent = slot[x].completedEvent
  BY <1>5
<1>11. ThreadInv'
  BY <1>1, <1>3, <1>4, <1>5, <1>8, <1>9 DEF IInv, ThreadInv, Active, Fragmenting, Deriving, SlotOf, WorkKept
<1>12. MutexInv'
  BY <1>1, <1>3, <1>6 DEF IInv, MutexInv
<1>13. CallInv'
  <2>1. \A c \in Callers : caller[c].pc = "clear" => slot'[pool'.enqueue].state = "free"
    BY <1>1, <1>4, <1>5, <1>6, Fields DEF IInv, CallInv
  <2>2. \A c \in Callers : Calling(c) /\ caller[c].pc \in {"put", "putWait"} /\ caller[c].start = 0 => slot'[caller[c].first].state = "free"
    BY <1>1, <1>4, <1>5, Fields DEF IInv, CallInv
  <2>3. \A c \in Callers : Calling(c) /\ caller[c].start > 0 =>
           LET f == slot'[caller[c].first] IN f.state # "free" /\ f.prf = "none" /\ f.caller = c /\ f.first = caller[c].first
    BY <1>1, <1>4, <1>5, Fields DEF IInv, CallInv, WorkKept
  <2>. QED  BY <1>1, <1>6, <2>1, <2>2, <2>3 DEF IInv, CallInv, Calling, Share, Rest
<1>14. \A x \in Slots : Live(x)' => Live(x)
  BY <1>1, <1>3, <1>5 DEF Live, Fragmenting, WorkKept
<1>15. FragmentInv'
  BY <1>1, <1>5, <1>6, <1>14 DEF IInv, FragmentInv, Calling, WorkKept
<1>16. \A c \in Callers : \A x \in Slots : (Awaited(c, x)' <=> Awaited(c, x)) /\ (Undone(c, x)' <=> Undone(c, x))
  BY <1>1, <1>3, <1>4, <1>5 DEF Awaited, Undone, WorkKept
<1>17. \A c \in Callers : Uncounted(c)' = Uncounted(c)
  BY <1>16 DEF Uncounted
<1>18. CountInv'
  BY <1>1, <1>10, <1>17, Fields DEF IInv, CountInv, Calling
<1>19. EventInv'
  BY <1>1, <1>3, <1>5, <1>9, <1>10 DEF IInv, EventInv, Calling, SlotOf, WorkKept
<1>20. Keys' = Keys
  <2>1. \A x \in Slots : Key(x)' <=> Key(x)
    BY <1>1, <1>3, <1>4, <1>5, <1>6 DEF Key, WorkKept
  <2>. QED  BY <2>1 DEF Keys
<1>21. KeyInv'
  BY <1>1, <1>20 DEF IInv, KeyInv
<1>22. DataInv'
  BY <1>1, <1>5, <1>16 DEF IInv, DataInv, Calling, Covers, WorkKept
<1>. QED  BY <1>7, <1>11, <1>12, <1>13, <1>15, <1>18, <1>19, <1>21, <1>22 DEF IInv

(* What is known of a fragment that is given up *)
LEMMA CountedCall ==
    ASSUME IInv, NEW t \in Threads, thread[t].pc \in Fragmenting
    PROVE  \E d \in Callers :
             /\ d = slot[thread[t].slot].caller /\ Calling(d) /\ caller[d].pc \in {"put", "putWait", "await"}
             /\ caller[d].start > 0 /\ caller[d].first = slot[thread[t].slot].first
             /\ slot[caller[d].first].state # "free" /\ slot[caller[d].first].prf = "none" /\ slot[caller[d].first].caller = d
             /\ slot[caller[d].first].first = caller[d].first
             /\ slot[caller[d].first].outstanding = caller[d].left + Cardinality(Uncounted(d))
<1>1. thread[t].slot \in Slots
  BY Fields DEF IInv
<1>2. Live(thread[t].slot)
  BY <1>1 DEF Live
<1>3. PICK d \in Callers :
             /\ d = slot[thread[t].slot].caller /\ Calling(d) /\ caller[d].pc \in {"put", "putWait", "await"}
             /\ caller[d].start > 0 /\ caller[d].first = slot[thread[t].slot].first
  BY <1>1, <1>2 DEF IInv, FragmentInv
<1>. QED  BY <1>3 DEF IInv, CallInv, CountInv

LEMMA UncountedSize ==
    ASSUME NEW c
    PROVE  IsFiniteSet(Uncounted(c)) /\ Cardinality(Uncounted(c)) \in Nat
<1>1. IsFiniteSet(Uncounted(c))
  BY SlotsAndUnits, FS_Subset DEF Uncounted
<1>. QED  BY <1>1, FS_CardinalityType

LEMMA ThreadCountDownStep ==
    ASSUME IInv, NEW t \in Threads, ThreadCountDown(t)
    PROVE  IInv'
<1>1. TypeOK /\ thread[t].pc = "count" /\ UNCHANGED <<pool, caller, data, report>>
  BY DEF IInv, ThreadCountDown, At
<1>2. PICK s \in Slots : s = thread[t].slot
  BY <1>1, Fields
<1>3. PICK d \in Callers :
             /\ d = slot[s].caller /\ Calling(d) /\ caller[d].pc \in {"put", "putWait", "await"}
             /\ caller[d].start > 0 /\ caller[d].first = slot[s].first
             /\ slot[caller[d].first].state # "free" /\ slot[caller[d].first].prf = "none" /\ slot[caller[d].first].caller = d
             /\ slot[caller[d].first].first = caller[d].first
             /\ slot[caller[d].first].outstanding = caller[d].left + Cardinality(Uncounted(d))
  BY <1>1, <1>2, CountedCall DEF Fragmenting
<1>4. PICK f \in Slots : f = slot[s].first
  BY <1>1, Fields
<1>5. slot[f].outstanding \in Nat /\ caller[d].left \in Nat /\ IsFiniteSet(Uncounted(d)) /\ Cardinality(Uncounted(d)) \in Nat
  BY <1>1, <1>3, Fields, UncountedSize
<1>6. slot[s].prf = "none"
  BY <1>1, <1>2 DEF IInv, ThreadInv, Fragmenting, SlotOf
<1>7. Awaited(d, s)
  BY <1>1, <1>2, <1>3, <1>6 DEF Awaited
<1>8. s \in Uncounted(d) /\ Cardinality(Uncounted(d) \ {s}) = Cardinality(Uncounted(d)) - 1
  BY <1>5, <1>7, FS_RemoveElement DEF Uncounted
<1>9. Cardinality(Uncounted(d)) >= 1
  <2>1. Cardinality(Uncounted(d) \ {s}) \in Nat
    BY <1>5, FS_Subset, FS_CardinalityType
  <2>. QED  BY <1>5, <1>8, <2>1
<1>10. PICK n \in Nat : n = slot[f].outstanding - 1
  BY <1>3, <1>4, <1>5, <1>9
<1>11. slot' = [slot EXCEPT ![f].outstanding = n]
  BY <1>1, <1>2, <1>4, <1>10 DEF ThreadCountDown, SlotOf
<1>12. /\ slot' \in [Slots -> SlotType] /\ slot'[f].state = slot[f].state /\ slot'[f].outstanding = n
       /\ slot'[f].completedEvent = slot[f].completedEvent
       /\ \A x \in Slots : WorkKept(x) /\ (x # f => slot'[x] = slot[x])
  BY <1>1, <1>11, OutstandingStep
<1>13. \A x \in Slots : slot'[x].state = slot[x].state /\ slot'[x].completedEvent = slot[x].completedEvent
  BY <1>12
<1>14. PICK pc \in {"signal", "loop"} : Go(t, pc) /\ (pc = "signal" <=> n = 0)
  <2>1. Go(t, IF slot[f].outstanding = 1 THEN "signal" ELSE "loop")
    BY <1>2, <1>4 DEF ThreadCountDown, SlotOf
  <2>2. slot[f].outstanding = 1 <=> n = 0
    BY <1>5, <1>10
  <2>3. CASE slot[f].outstanding = 1
    BY <2>1, <2>2, <2>3
  <2>4. CASE slot[f].outstanding # 1
    BY <2>1, <2>2, <2>4
  <2>. QED  BY <2>3, <2>4
<1>15. pc \in ThreadPcs
  BY DEF ThreadPcs, Active, Fragmenting
<1>16. /\ thread' \in [Threads -> [pc : ThreadPcs, slot : Slots]] /\ thread'[t].pc = pc /\ thread'[t].slot = s
       /\ \A x \in Threads : x # t => thread'[x] = thread[x]
  BY <1>1, <1>2, <1>14, <1>15, ThreadMoves
<1>17. TypeOK'
  BY <1>1, <1>12, <1>16, Types, TypesNext
<1>18. \A x, y \in Threads : thread[x].pc \in Active /\ thread[y].pc \in Active /\ x # y => thread[x].slot # thread[y].slot
  BY DEF IInv, ThreadInv
<1>19. \A x \in Threads : thread[x].slot \in Slots /\ slot[thread[x].slot].first \in Slots
  BY <1>1, Fields
<1>20. ThreadInv'
  BY SMTT(30), <1>1, <1>2, <1>12, <1>13, <1>16, <1>18, <1>19 DEF IInv, ThreadInv, Active, Fragmenting, Deriving, SlotOf, WorkKept
<1>21. pool.running
  BY <1>1 DEF IInv, MutexInv
<1>22. MutexInv'
  BY <1>1, <1>21 DEF IInv, MutexInv
<1>23. CallInv'
  <2>1. \A c \in Callers : caller[c].pc = "clear" => slot'[pool'.enqueue].state = "free"
    BY <1>1, <1>13, Fields DEF IInv, CallInv
  <2>2. \A c \in Callers : Calling(c) /\ caller[c].pc \in {"put", "putWait"} /\ caller[c].start = 0 => slot'[caller[c].first].state = "free"
    BY <1>1, <1>13, Fields DEF IInv, CallInv
  <2>3. \A c \in Callers : Calling(c) /\ caller[c].start > 0 =>
           LET g == slot'[caller[c].first] IN g.state # "free" /\ g.prf = "none" /\ g.caller = c /\ g.first = caller[c].first
    BY <1>1, <1>12, <1>13, Fields DEF IInv, CallInv, WorkKept
  <2>. QED  BY <1>1, <2>1, <2>2, <2>3 DEF IInv, CallInv, Calling, Share, Rest
<1>24. \A x \in Slots : Live(x)' => Live(x)
  BY SMTT(30), <1>1, <1>2, <1>12, <1>13, <1>16 DEF Live, Fragmenting, WorkKept
<1>25. FragmentInv'
  BY <1>1, <1>12, <1>24 DEF IInv, FragmentInv, Calling, WorkKept
<1>26. \A c \in Callers : \A x \in Slots : Undone(c, x)' <=> Undone(c, x)
  <2>1. \A x \in Threads : thread'[x].slot = thread[x].slot /\ (thread'[x].pc = "work" <=> thread[x].pc = "work")
    BY <1>1, <1>2, <1>14, <1>16
  <2>2. \A x \in Slots : slot'[x].state = slot[x].state /\ slot'[x].caller = slot[x].caller /\ slot'[x].prf = slot[x].prf
    BY <1>12, <1>13 DEF WorkKept
  <2>. QED  BY <2>1, <2>2 DEF Undone
<1>27. slot[s].state # "ready"
  BY <1>1, <1>2 DEF IInv, ThreadInv, SlotOf
<1>28. \A c \in Callers : \A x \in Slots : Awaited(c, x)' <=> Awaited(c, x) /\ x # s
  BY <1>1, <1>2, <1>12, <1>13, <1>14, <1>16, <1>18, <1>27 DEF Awaited, WorkKept, Active, Fragmenting
<1>29. \A c \in Callers : c # d => Uncounted(c)' = Uncounted(c)
  BY <1>3, <1>28 DEF Uncounted, Awaited
<1>30. Uncounted(d)' = Uncounted(d) \ {s}
  BY <1>28 DEF Uncounted
<1>31. \A c \in Callers : c # d /\ Calling(c) /\ caller[c].start > 0 => caller[c].first # f
  BY <1>3, <1>4 DEF IInv, CallInv
<1>32. \A c \in Callers : c # d /\ Calling(c) /\ caller[c].pc \in {"put", "putWait", "await", "return"} => caller[c].first # f
  <2>1. \A c \in Callers : Calling(c) /\ caller[c].pc \in {"put", "putWait"} /\ caller[c].start = 0 => slot[caller[c].first].state = "free"
    BY DEF IInv, CallInv
  <2>2. \A c \in Callers : Calling(c) /\ caller[c].pc \in {"await", "return"} => caller[c].start > 0
    BY DEF IInv, CallInv
  <2>3. \A c \in Callers : caller[c].start \in Nat
    BY <1>1, Fields
  <2>. QED  BY <1>3, <1>4, <1>31, <2>1, <2>2, <2>3
<1>33. CountInv'
  <2>. SUFFICES ASSUME NEW c \in Callers, Calling(c), caller[c].pc \in {"put", "putWait", "await", "return"}
                PROVE  slot'[caller[c].first].outstanding = caller[c].left + Cardinality(Uncounted(c)')
    BY <1>1 DEF CountInv, Calling
  <2>1. CASE c = d
    BY <2>1, <1>3, <1>4, <1>5, <1>8, <1>10, <1>12, <1>30
  <2>2. CASE c # d
    <3>1. caller[c].first \in Slots /\ caller[c].first # f
      BY <2>2, <1>1, <1>32, Fields
    <3>. QED  BY <2>2, <3>1, <1>12, <1>29 DEF IInv, CountInv
  <2>. QED  BY <2>1, <2>2
<1>34. \A x \in Threads : thread[x].pc = "signal" => slot[thread[x].slot].first # f
  <2>. SUFFICES ASSUME NEW x \in Threads, thread[x].pc = "signal", slot[thread[x].slot].first = f
                PROVE  FALSE
    OBVIOUS
  <2>1. slot[f].outstanding = 0
    BY DEF IInv, EventInv, SlotOf
  <2>. QED  BY <2>1, <1>3, <1>4, <1>5, <1>9
<1>35. ~slot[f].completedEvent
  <2>1. slot[f].outstanding # 0
    BY <1>3, <1>4, <1>5, <1>9
  <2>. QED  BY <2>1 DEF IInv, EventInv
<1>36. EventInv'
  <2>1. \A x \in Slots : slot'[x].completedEvent =>
             /\ \E c \in Callers : Calling(c)' /\ caller'[c].pc = "await" /\ caller'[c].first = x
             /\ slot'[x].outstanding = 0
    BY <1>1, <1>12, <1>13, <1>35 DEF IInv, EventInv, Calling
  <2>2. \A x \in Threads : thread'[x].pc = "signal" =>
           slot'[slot'[thread'[x].slot].first].outstanding = 0 /\ ~slot'[slot'[thread'[x].slot].first].completedEvent
    <3>1. \A x \in Threads : x # t /\ thread[x].pc = "signal" =>
           slot[slot[thread[x].slot].first].outstanding = 0 /\ ~slot[slot[thread[x].slot].first].completedEvent
      BY DEF IInv, EventInv, SlotOf
    <3>2. \A x \in Slots : slot'[x].first = slot[x].first
      BY <1>12 DEF WorkKept
    <3>. QED  BY <3>1, <3>2, <1>4, <1>12, <1>13, <1>14, <1>16, <1>19, <1>34, <1>35
  <2>3. \A x, y \in Threads : thread'[x].pc = "signal" /\ thread'[y].pc = "signal" /\ x # y =>
           slot'[thread'[x].slot].first # slot'[thread'[y].slot].first
    <3>1. \A x, y \in Threads : thread[x].pc = "signal" /\ thread[y].pc = "signal" /\ x # y =>
           slot[thread[x].slot].first # slot[thread[y].slot].first
      BY DEF IInv, EventInv, SlotOf
    <3>2. \A x \in Slots : slot'[x].first = slot[x].first
      BY <1>12 DEF WorkKept
    <3>. QED  BY <3>1, <3>2, <1>4, <1>16, <1>19, <1>34
  <2>. QED  BY <2>1, <2>2, <2>3 DEF EventInv, SlotOf
<1>37. Keys' = Keys
  <2>1. \A x \in Slots : Key(x)' <=> Key(x)
    BY <1>1, <1>2, <1>12, <1>13, <1>14, <1>16 DEF Key, WorkKept
  <2>. QED  BY <2>1 DEF Keys
<1>38. KeyInv'
  BY <1>1, <1>37 DEF IInv, KeyInv
<1>39. DataInv'
  BY <1>1, <1>12, <1>26 DEF IInv, DataInv, Calling, Covers, WorkKept
<1>. QED  BY <1>17, <1>20, <1>22, <1>23, <1>25, <1>33, <1>36, <1>38, <1>39 DEF IInv

LEMMA ThreadSignalStep ==
    ASSUME IInv, NEW t \in Threads, ThreadSignal(t)
    PROVE  IInv'
<1>1. TypeOK /\ thread[t].pc = "signal" /\ UNCHANGED <<pool, caller, data, report>> /\ Go(t, "loop")
  BY DEF IInv, ThreadSignal, At
<1>2. "loop" \in ThreadPcs
  BY DEF ThreadPcs
<1>3. PICK s \in Slots :
         /\ thread' \in [Threads -> [pc : ThreadPcs, slot : Slots]] /\ thread'[t].pc = "loop" /\ thread'[t].slot = s
         /\ thread[t].slot = s
         /\ \A x \in Threads : x # t => thread'[x] = thread[x]
  BY <1>1, <1>2, ThreadMoves
<1>4. PICK d \in Callers :
             /\ d = slot[s].caller /\ Calling(d) /\ caller[d].pc \in {"put", "putWait", "await"}
             /\ caller[d].start > 0 /\ caller[d].first = slot[s].first
             /\ slot[caller[d].first].state # "free" /\ slot[caller[d].first].prf = "none" /\ slot[caller[d].first].caller = d
             /\ slot[caller[d].first].first = caller[d].first
             /\ slot[caller[d].first].outstanding = caller[d].left + Cardinality(Uncounted(d))
  BY <1>1, <1>3, CountedCall DEF Fragmenting
<1>5. PICK f \in Slots : f = slot[s].first
  BY <1>1, Fields
<1>6. slot[f].outstanding = 0 /\ ~slot[f].completedEvent
  BY <1>1, <1>3, <1>5 DEF IInv, EventInv, SlotOf
<1>7. slot' = [slot EXCEPT ![f].completedEvent = TRUE]
  BY <1>3, <1>5 DEF ThreadSignal, SlotOf
<1>8. /\ slot' \in [Slots -> SlotType] /\ slot'[f].state = slot[f].state /\ slot'[f].outstanding = slot[f].outstanding
      /\ slot'[f].completedEvent = TRUE
      /\ \A x \in Slots : WorkKept(x) /\ (x # f => slot'[x] = slot[x])
  BY <1>1, <1>7, EventStep
<1>9. \A x \in Slots : slot'[x].state = slot[x].state /\ slot'[x].outstanding = slot[x].outstanding
  BY <1>8
<1>10. TypeOK'
  BY <1>1, <1>3, <1>8, Types, TypesNext
<1>11. \A x, y \in Threads : thread[x].pc \in Active /\ thread[y].pc \in Active /\ x # y => thread[x].slot # thread[y].slot
  BY DEF IInv, ThreadInv
<1>12. \A x \in Threads : thread[x].slot \in Slots /\ slot[thread[x].slot].first \in Slots
  BY <1>1, Fields
<1>13. ThreadInv'
  BY SMTT(30), <1>1, <1>3, <1>8, <1>9, <1>11, <1>12 DEF IInv, ThreadInv, Active, Fragmenting, Deriving, SlotOf, WorkKept
<1>14. pool.running
  BY <1>1 DEF IInv, MutexInv
<1>15. MutexInv'
  BY <1>1, <1>14 DEF IInv, MutexInv
<1>16. CallInv'
  <2>1. \A c \in Callers : caller[c].pc = "clear" => slot'[pool'.enqueue].state = "free"
    BY <1>1, <1>9, Fields DEF IInv, CallInv
  <2>2. \A c \in Callers : Calling(c) /\ caller[c].pc \in {"put", "putWait"} /\ caller[c].start = 0 => slot'[caller[c].first].state = "free"
    BY <1>1, <1>9, Fields DEF IInv, CallInv
  <2>3. \A c \in Callers : Calling(c) /\ caller[c].start > 0 =>
           LET g == slot'[caller[c].first] IN g.state # "free" /\ g.prf = "none" /\ g.caller = c /\ g.first = caller[c].first
    BY <1>1, <1>8, <1>9, Fields DEF IInv, CallInv, WorkKept
  <2>. QED  BY <1>1, <2>1, <2>2, <2>3 DEF IInv, CallInv, Calling, Share, Rest
<1>17. \A x \in Slots : Live(x)' => Live(x)
  BY <1>1, <1>3, <1>8, <1>9 DEF Live, Fragmenting, WorkKept
<1>18. FragmentInv'
  BY <1>1, <1>8, <1>17 DEF IInv, FragmentInv, Calling, WorkKept
<1>19. \A c \in Callers : \A x \in Slots : (Awaited(c, x)' <=> Awaited(c, x)) /\ (Undone(c, x)' <=> Undone(c, x))
  <2>1. \A x \in Threads : /\ thread'[x].slot = thread[x].slot /\ (thread'[x].pc = "work" <=> thread[x].pc = "work")
                           /\ thread'[x].pc \in {"work", "free", "count"} <=> thread[x].pc \in {"work", "free", "count"}
    BY <1>1, <1>3
  <2>2. \A x \in Slots : slot'[x].state = slot[x].state /\ slot'[x].caller = slot[x].caller /\ slot'[x].prf = slot[x].prf
    BY <1>8, <1>9 DEF WorkKept
  <2>. QED  BY <2>1, <2>2 DEF Undone, Awaited
<1>20. \A c \in Callers : Uncounted(c)' = Uncounted(c)
  BY <1>19 DEF Uncounted
<1>21. CountInv'
  BY <1>1, <1>9, <1>20, Fields DEF IInv, CountInv, Calling
<1>22. caller[d].pc = "await"
  <2>1. caller[d].left = 0
    BY <1>1, <1>4, <1>5, <1>6, Fields, UncountedSize
  <2>. QED  BY <1>4, <2>1 DEF IInv, CallInv
<1>23. EventInv'
  <2>1. \A x \in Slots : slot'[x].completedEvent =>
             /\ \E c \in Callers : Calling(c)' /\ caller'[c].pc = "await" /\ caller'[c].first = x
             /\ slot'[x].outstanding = 0
    BY <1>1, <1>4, <1>5, <1>6, <1>8, <1>9, <1>22 DEF IInv, EventInv, Calling
  <2>2. \A x \in Slots : slot'[x].first = slot[x].first
    BY <1>8 DEF WorkKept
  <2>3. \A x, y \in Threads : thread[x].pc = "signal" /\ thread[y].pc = "signal" /\ x # y =>
           slot[thread[x].slot].first # slot[thread[y].slot].first
    BY DEF IInv, EventInv, SlotOf
  <2>4. \A x \in Threads : thread'[x].pc = "signal" =>
           slot'[slot'[thread'[x].slot].first].outstanding = 0 /\ ~slot'[slot'[thread'[x].slot].first].completedEvent
    <3>1. \A x \in Threads : thread[x].pc = "signal" =>
           slot[slot[thread[x].slot].first].outstanding = 0 /\ ~slot[slot[thread[x].slot].first].completedEvent
      BY DEF IInv, EventInv, SlotOf
    <3>. QED  BY <2>2, <2>3, <3>1, <1>1, <1>3, <1>5, <1>8, <1>12
  <2>5. \A x, y \in Threads : thread'[x].pc = "signal" /\ thread'[y].pc = "signal" /\ x # y =>
           slot'[thread'[x].slot].first # slot'[thread'[y].slot].first
    BY <2>2, <2>3, <1>3, <1>12
  <2>. QED  BY <2>1, <2>4, <2>5 DEF EventInv, SlotOf
<1>24. Keys' = Keys
  <2>1. \A x \in Slots : Key(x)' <=> Key(x)
    BY <1>1, <1>3, <1>8, <1>9 DEF Key, WorkKept
  <2>. QED  BY <2>1 DEF Keys
<1>25. KeyInv'
  BY <1>1, <1>24 DEF IInv, KeyInv
<1>26. DataInv'
  BY <1>1, <1>8, <1>19 DEF IInv, DataInv, Calling, Covers, WorkKept
<1>. QED  BY <1>10, <1>13, <1>15, <1>16, <1>18, <1>21, <1>23, <1>25, <1>26 DEF IInv

(* A derivation touches no fragment, whatever its thread reports *)
LEMMA DerivingStep ==
    ASSUME IInv, TypeOK', NEW t \in Threads, thread[t].pc \in Deriving, thread'[t].pc \in Deriving, thread'[t].slot = thread[t].slot,
           \A x \in Threads : x # t => thread'[x] = thread[x],
           UNCHANGED <<pool, slot, caller, data>>
    PROVE  ThreadInv' /\ CallInv' /\ FragmentInv' /\ CountInv' /\ EventInv' /\ DataInv'
<1>1. ThreadInv'
  BY DEF IInv, ThreadInv, Active, Deriving, Fragmenting, SlotOf
<1>2. CallInv'
  BY DEF IInv, CallInv, Calling, Share, Rest
<1>3. \A s \in Slots : Live(s)' <=> Live(s)
  BY DEF Live, Deriving, Fragmenting
<1>4. FragmentInv'
  BY <1>3 DEF IInv, FragmentInv, Calling
<1>5. \A c \in Callers : \A x \in Slots : (Awaited(c, x)' <=> Awaited(c, x)) /\ (Undone(c, x)' <=> Undone(c, x))
  BY DEF Awaited, Undone, Deriving
<1>6. \A c \in Callers : Uncounted(c)' = Uncounted(c)
  BY <1>5 DEF Uncounted
<1>7. CountInv'
  BY <1>6 DEF IInv, CountInv, Calling
<1>8. EventInv'
  BY DEF IInv, EventInv, Calling, Deriving, SlotOf
<1>9. DataInv'
  BY <1>5 DEF IInv, DataInv, Calling, Covers
<1>. QED  BY <1>1, <1>2, <1>4, <1>7, <1>8, <1>9

LEMMA ThreadDeriveStep ==
    ASSUME IInv, NEW t \in Threads, ThreadDerive(t)
    PROVE  IInv'
<1>1. TypeOK /\ thread[t].pc = "derive" /\ UNCHANGED <<pool, slot, caller, data>> /\ Go(t, "keyEvent")
  BY DEF IInv, ThreadDerive, At
<1>2. "keyEvent" \in ThreadPcs
  BY DEF ThreadPcs, Active, Deriving
<1>3. PICK s \in Slots :
         /\ thread' \in [Threads -> [pc : ThreadPcs, slot : Slots]] /\ thread'[t].pc = "keyEvent" /\ thread'[t].slot = s
         /\ thread[t].slot = s
         /\ \A x \in Threads : x # t => thread'[x] = thread[x]
  BY <1>1, <1>2, ThreadMoves
<1>4. slot[s].prf \in Prfs
  BY <1>1, <1>3, Fields DEF IInv, ThreadInv, Deriving, SlotOf
<1>5. PICK outcome \in {"key", "cut", "failed", "cancelled"} :
         report' = [report EXCEPT !.result[slot[s].prf] = outcome, !.keyReady[slot[s].prf] = TRUE]
  BY <1>3 DEF ThreadDerive, Outcomes, SlotOf
<1>6. report' \in ReportType /\ report'.outstanding = report.outstanding
  BY <1>1, <1>4, <1>5, Types DEF ReportType
<1>7. TypeOK'
  BY <1>1, <1>3, <1>6, Types, TypesNext
<1>8. ThreadInv' /\ CallInv' /\ FragmentInv' /\ CountInv' /\ EventInv' /\ DataInv'
  BY <1>1, <1>3, <1>7, DerivingStep DEF Deriving
<1>9. MutexInv'
  BY <1>1, <1>3, <1>6 DEF IInv, MutexInv
<1>10. Keys' = Keys
  <2>1. \A x \in Slots : Key(x)' <=> Key(x)
    BY <1>1, <1>3 DEF Key
  <2>. QED  BY <2>1 DEF Keys
<1>11. KeyInv'
  BY <1>6, <1>10 DEF IInv, KeyInv
<1>. QED  BY <1>7, <1>8, <1>9, <1>11 DEF IInv

LEMMA ThreadReportStep ==
    ASSUME IInv, NEW t \in Threads, ThreadReport(t)
    PROVE  IInv'
<1>1. TypeOK /\ UNCHANGED <<pool, slot, caller, data>>
  BY DEF IInv, ThreadReport
<1>2. PICK pc \in {"countKey", "noOutstanding", "release"} : Go(t, pc)
  BY DEF ThreadReport
<1>3. pc \in ThreadPcs
  BY DEF ThreadPcs, Active, Deriving
<1>4. PICK s \in Slots :
         /\ thread' \in [Threads -> [pc : ThreadPcs, slot : Slots]] /\ thread'[t].pc = pc /\ thread'[t].slot = s
         /\ thread[t].slot = s
         /\ \A x \in Threads : x # t => thread'[x] = thread[x]
  BY <1>1, <1>2, <1>3, ThreadMoves
<1>5. report \in ReportType /\ report.outstanding \in Nat
  BY <1>1, Types, Fields
<1>6. thread[t].pc \in Deriving /\ pc \in Deriving
  BY <1>2 DEF ThreadReport, At, Deriving
<1>7. IsFiniteSet(Keys) /\ report.outstanding = Cardinality(Keys)
  BY SlotsAndUnits, FS_Subset DEF IInv, KeyInv, Keys
<1>8. report' \in ReportType /\ Cardinality(Keys') = report'.outstanding
      /\ (~pool.running \/ pool.stopPending => report'.outstanding = 0)
  <2>1. CASE thread[t].pc = "keyEvent"
    <3>1. pc = "countKey" /\ report' = [report EXCEPT !.keyEvent = TRUE]
      <4>1. Go(t, "countKey") /\ report' = [report EXCEPT !.keyEvent = TRUE]
        BY <2>1 DEF ThreadReport, At
      <4>2. "countKey" \in ThreadPcs
        BY DEF ThreadPcs, Active, Deriving
      <4>3. thread'[t].pc = "countKey"
        BY <4>1, <4>2, <1>1, ThreadMoves
      <4>. QED  BY <4>1, <4>3, <1>4
    <3>2. report' \in ReportType /\ report'.outstanding = report.outstanding
      BY <1>5, <3>1 DEF ReportType
    <3>3. \A x \in Slots : Key(x)' <=> Key(x)
      BY <2>1, <3>1, <1>1, <1>4 DEF Key
    <3>4. Keys' = Keys
      BY <3>3 DEF Keys
    <3>. QED  BY <3>2, <3>4, <1>7 DEF IInv, MutexInv
  <2>2. CASE thread[t].pc = "countKey"
    <3>1. Go(t, IF report.outstanding = 1 THEN "noOutstanding" ELSE "release") /\ report' = [report EXCEPT !.outstanding = @ - 1]
      BY <2>2 DEF ThreadReport, At
    <3>2. thread'[t].pc = IF report.outstanding = 1 THEN "noOutstanding" ELSE "release"
      <4>1. (IF report.outstanding = 1 THEN "noOutstanding" ELSE "release") \in ThreadPcs
        BY DEF ThreadPcs, Active, Deriving
      <4>. QED  BY <4>1, <3>1, <1>1, ThreadMoves
    <3>3. Key(s) /\ s \in Keys
      BY <2>2, <1>4 DEF Key, Keys
    <3>4. slot[s].state = "busy"
      BY <2>2, <1>4 DEF IInv, ThreadInv, Deriving, SlotOf
    <3>5. \A x \in Threads : x # t /\ thread[x].pc \in Active => thread[x].slot # s
      BY <1>4, <1>6 DEF IInv, ThreadInv, Active
    <3>6. (\E c \in Callers : caller[c].pc = "clear") => pool.enqueue # s
      BY <3>4 DEF IInv, CallInv
    <3>7. \A x \in Slots : Key(x)' <=> Key(x) /\ x # s
      BY <2>2, <3>2, <3>4, <3>5, <3>6, <1>1, <1>4 DEF Key, Active, Deriving
    <3>8. Keys' = Keys \ {s}
      BY <3>7 DEF Keys
    <3>9. Cardinality(Keys \ {s}) = Cardinality(Keys) - 1 /\ Cardinality(Keys \ {s}) \in Nat
      BY <3>3, <1>7, FS_RemoveElement, FS_Subset, FS_CardinalityType
    <3>10. report.outstanding - 1 \in Nat
      BY <3>9, <1>7
    <3>11. report' \in ReportType /\ report'.outstanding = report.outstanding - 1
      BY <1>5, <3>1, <3>10 DEF ReportType
    <3>12. pool.running /\ ~pool.stopPending
      BY <3>3, StoppedIsEmpty
    <3>. QED  BY <3>8, <3>9, <3>11, <3>12, <1>7
  <2>3. CASE thread[t].pc = "noOutstanding"
    <3>1. Go(t, "release") /\ report' = [report EXCEPT !.noOutstandingEvent = TRUE]
      BY <2>3 DEF ThreadReport, At
    <3>2. thread'[t].pc = "release"
      <4>1. "release" \in ThreadPcs
        BY DEF ThreadPcs, Active, Deriving
      <4>. QED  BY <4>1, <3>1, <1>1, ThreadMoves
    <3>3. report' \in ReportType /\ report'.outstanding = report.outstanding
      BY <1>5, <3>1 DEF ReportType
    <3>4. \A x \in Slots : Key(x)' <=> Key(x)
      BY <2>3, <3>2, <1>1, <1>4 DEF Key
    <3>5. Keys' = Keys
      BY <3>4 DEF Keys
    <3>. QED  BY <3>3, <3>5, <1>7 DEF IInv, MutexInv
  <2>. QED  BY <2>1, <2>2, <2>3 DEF ThreadReport, At
<1>9. TypeOK'
  BY <1>1, <1>4, <1>8, Types, TypesNext
<1>10. ThreadInv' /\ CallInv' /\ FragmentInv' /\ CountInv' /\ EventInv' /\ DataInv'
  BY <1>1, <1>4, <1>6, <1>9, DerivingStep
<1>11. MutexInv'
  <2>1. pool.running
    BY <1>6 DEF IInv, MutexInv, Deriving
  <2>. QED  BY <2>1, <1>1, <1>8 DEF IInv, MutexInv
<1>12. KeyInv'
  BY <1>8 DEF KeyInv
<1>. QED  BY <1>9, <1>10, <1>11, <1>12 DEF IInv

LEMMA ThreadReleaseStep ==
    ASSUME IInv, NEW t \in Threads, ThreadRelease(t)
    PROVE  IInv'
<1>1. TypeOK /\ thread[t].pc = "release" /\ UNCHANGED <<caller, data, report>> /\ Go(t, "loop")
  BY DEF IInv, ThreadRelease, At
<1>2. "loop" \in ThreadPcs
  BY DEF ThreadPcs
<1>3. PICK s \in Slots :
         /\ thread' \in [Threads -> [pc : ThreadPcs, slot : Slots]] /\ thread'[t].pc = "loop" /\ thread'[t].slot = s
         /\ thread[t].slot = s
         /\ \A x \in Threads : x # t => thread'[x] = thread[x]
  BY <1>1, <1>2, ThreadMoves
<1>4. slot[s].state = "busy" /\ slot[s].prf # "none"
  BY <1>1, <1>3 DEF IInv, ThreadInv, Deriving, SlotOf
<1>5. slot' = [slot EXCEPT ![s].state = "free"]
  BY <1>3 DEF ThreadRelease
<1>6. /\ slot' \in [Slots -> SlotType] /\ slot'[s].outstanding = slot[s].outstanding
      /\ slot'[s].completedEvent = slot[s].completedEvent /\ slot'[s].state = "free"
      /\ \A x \in Slots : WorkKept(x) /\ (x # s => slot'[x] = slot[x])
  BY <1>1, <1>5, StateStep
<1>7. /\ pool' \in PoolType /\ pool'.enqueue = pool.enqueue /\ pool'.enqueueMutex = pool.enqueueMutex
      /\ pool'.running = pool.running /\ pool'.stopPending = pool.stopPending
  BY <1>1, Types DEF PoolType, ThreadRelease
<1>8. TypeOK'
  BY <1>1, <1>3, <1>6, <1>7, Types, TypesNext
<1>9. \A x \in Threads : x # t /\ thread[x].pc \in Active => thread[x].slot # s
  BY <1>1, <1>3 DEF IInv, ThreadInv, Active, Deriving
<1>10. \A x \in Threads : thread[x].slot \in Slots /\ slot[thread[x].slot].first \in Slots
  BY <1>1, Fields
<1>11. \A x \in Slots : slot'[x].outstanding = slot[x].outstanding /\ slot'[x].completedEvent = slot[x].completedEvent
  BY <1>6
<1>12. ThreadInv'
  BY SMTT(30), <1>1, <1>3, <1>4, <1>6, <1>9, <1>10 DEF IInv, ThreadInv, Active, Fragmenting, Deriving, SlotOf, WorkKept
<1>13. pool.running
  BY <1>1 DEF IInv, MutexInv
<1>14. MutexInv'
  BY <1>1, <1>7, <1>13 DEF IInv, MutexInv
<1>15. CallInv'
  <2>1. \A c \in Callers : caller[c].pc = "clear" => slot'[pool'.enqueue].state = "free"
    BY <1>1, <1>4, <1>6, <1>7, Fields DEF IInv, CallInv
  <2>2. \A c \in Callers : Calling(c) /\ caller[c].pc \in {"put", "putWait"} /\ caller[c].start = 0 => slot'[caller[c].first].state = "free"
    BY <1>1, <1>4, <1>6, Fields DEF IInv, CallInv
  <2>3. \A c \in Callers : Calling(c) /\ caller[c].start > 0 =>
           LET f == slot'[caller[c].first] IN f.state # "free" /\ f.prf = "none" /\ f.caller = c /\ f.first = caller[c].first
    BY <1>1, <1>4, <1>6, Fields DEF IInv, CallInv, WorkKept
  <2>. QED  BY <1>1, <1>7, <2>1, <2>2, <2>3 DEF IInv, CallInv, Calling, Share, Rest
<1>16. \A x \in Slots : Live(x)' => Live(x)
  BY <1>1, <1>3, <1>6 DEF Live, Fragmenting, WorkKept
<1>17. FragmentInv'
  BY <1>1, <1>6, <1>7, <1>16 DEF IInv, FragmentInv, Calling, WorkKept
<1>18. \A c \in Callers : \A x \in Slots : (Awaited(c, x)' <=> Awaited(c, x)) /\ (Undone(c, x)' <=> Undone(c, x))
  BY <1>1, <1>3, <1>4, <1>6 DEF Awaited, Undone, WorkKept
<1>19. \A c \in Callers : Uncounted(c)' = Uncounted(c)
  BY <1>18 DEF Uncounted
<1>20. CountInv'
  BY <1>1, <1>11, <1>19, Fields DEF IInv, CountInv, Calling
<1>21. EventInv'
  BY <1>1, <1>3, <1>6, <1>10, <1>11 DEF IInv, EventInv, Calling, SlotOf, WorkKept
<1>22. Keys' = Keys
  <2>1. \A x \in Slots : Key(x)' <=> Key(x)
    BY <1>1, <1>3, <1>4, <1>6, <1>7 DEF Key, WorkKept
  <2>. QED  BY <2>1 DEF Keys
<1>23. KeyInv'
  BY <1>1, <1>22 DEF IInv, KeyInv
<1>24. DataInv'
  BY <1>1, <1>6, <1>18 DEF IInv, DataInv, Calling, Covers, WorkKept
<1>. QED  BY <1>8, <1>12, <1>14, <1>15, <1>17, <1>20, <1>21, <1>23, <1>24 DEF IInv

----------------------------------------------------------------------------
(* Steps of callers that leave the ring alone *)

(* What depends on the slots and threads only, while they stay as they are *)
LEMMA RingKept ==
    ASSUME IInv, slot' = slot, thread' = thread, pool'.enqueue = pool.enqueue,
           (\E c \in Callers : caller'[c].pc = "clear") <=> \E c \in Callers : caller[c].pc = "clear"
    PROVE  /\ ThreadInv'
           /\ \A s \in Slots : Live(s)' <=> Live(s)
           /\ \A c \in Callers : Uncounted(c)' = Uncounted(c)
           /\ \A c \in Callers : \A s \in Slots : Undone(c, s)' <=> Undone(c, s)
           /\ \A s \in Slots : \A u \in Units : Covers(s, u)' <=> Covers(s, u)
           /\ Keys' = Keys
<1>1. ThreadInv'
  BY DEF IInv, ThreadInv, SlotOf
<1>2. \A s \in Slots : Live(s)' <=> Live(s)
  BY DEF Live
<1>3. \A c \in Callers : \A s \in Slots : (Awaited(c, s)' <=> Awaited(c, s)) /\ (Undone(c, s)' <=> Undone(c, s))
  BY DEF Awaited, Undone
<1>4. \A c \in Callers : Uncounted(c)' = Uncounted(c)
  BY <1>3 DEF Uncounted
<1>5. \A s \in Slots : Key(s)' <=> Key(s)
  BY DEF Key
<1>6. Keys' = Keys
  BY <1>5 DEF Keys
<1>7. \A s \in Slots : \A u \in Units : Covers(s, u)' <=> Covers(s, u)
  BY DEF Covers
<1>. QED  BY <1>1, <1>2, <1>3, <1>4, <1>6, <1>7

(* The callers that do not move keep what the invariant says of them *)
LEMMA OthersCall ==
    ASSUME IInv, NEW c \in Callers, slot' = slot, pool'.enqueue = pool.enqueue,
           \A x \in Callers : x # c => caller'[x] = caller[x],
           caller'[c].pc \in {"idle", "first", "firstWait", "await", "return"} => caller'[c].prf = "none",
           caller'[c].pc = "clear" => caller'[c].prf # "none" /\ slot[pool.enqueue].state = "free",
           Calling(c)' =>
              /\ Share(caller'[c])
              /\ caller'[c].pc \in {"acquire", "first", "firstWait"} => caller'[c].start = 0
              /\ caller'[c].pc \in {"await", "return"} <=> caller'[c].left = 0
              /\ caller'[c].pc \in {"await", "return"} => caller'[c].start > 0
              /\ caller'[c].pc \in {"first", "firstWait", "put", "putWait"} /\ caller'[c].start = 0 => caller'[c].first = pool.enqueue
              /\ caller'[c].pc \in {"put", "putWait"} /\ caller'[c].start = 0 => slot[caller'[c].first].state = "free"
              /\ caller'[c].start > 0 =>
                    LET f == slot[caller'[c].first] IN
                    f.state # "free" /\ f.prf = "none" /\ f.caller = c /\ f.first = caller'[c].first
    PROVE  CallInv'
<1>1. \A x \in Callers : x # c => (Calling(x)' <=> Calling(x)) /\ (Share(caller'[x]) <=> Share(caller[x]))
  BY DEF Calling, Share, Rest
<1>2. \A x \in Callers : caller'[x].pc \in {"idle", "first", "firstWait", "await", "return"} => caller'[x].prf = "none"
  BY DEF IInv, CallInv
<1>3. \A x \in Callers : caller'[x].pc = "clear" => caller'[x].prf # "none" /\ slot'[pool'.enqueue].state = "free"
  BY DEF IInv, CallInv
<1>4. \A x \in Callers : Calling(x)' =>
              /\ Share(caller'[x])
              /\ caller'[x].pc \in {"acquire", "first", "firstWait"} => caller'[x].start = 0
              /\ caller'[x].pc \in {"await", "return"} <=> caller'[x].left = 0
              /\ caller'[x].pc \in {"await", "return"} => caller'[x].start > 0
              /\ caller'[x].pc \in {"first", "firstWait", "put", "putWait"} /\ caller'[x].start = 0 => caller'[x].first = pool'.enqueue
              /\ caller'[x].pc \in {"put", "putWait"} /\ caller'[x].start = 0 => slot'[caller'[x].first].state = "free"
              /\ caller'[x].start > 0 =>
                    LET f == slot'[caller'[x].first] IN
                    f.state # "free" /\ f.prf = "none" /\ f.caller = x /\ f.first = caller'[x].first
  <2>. SUFFICES ASSUME NEW x \in Callers, Calling(x)', x # c
                PROVE  /\ Share(caller'[x])
                       /\ caller'[x].pc \in {"acquire", "first", "firstWait"} => caller'[x].start = 0
                       /\ caller'[x].pc \in {"await", "return"} <=> caller'[x].left = 0
                       /\ caller'[x].pc \in {"await", "return"} => caller'[x].start > 0
                       /\ caller'[x].pc \in {"first", "firstWait", "put", "putWait"} /\ caller'[x].start = 0
                             => caller'[x].first = pool'.enqueue
                       /\ caller'[x].pc \in {"put", "putWait"} /\ caller'[x].start = 0 => slot'[caller'[x].first].state = "free"
                       /\ caller'[x].start > 0 =>
                             LET f == slot'[caller'[x].first] IN
                             f.state # "free" /\ f.prf = "none" /\ f.caller = x /\ f.first = caller'[x].first
    OBVIOUS
  <2>. QED  BY <1>1 DEF IInv, CallInv
<1>. QED  BY <1>2, <1>3, <1>4 DEF CallInv

(* A caller inside a call keeps the pool in use *)
LEMMA InUse ==
    ASSUME IInv, NEW c \in Callers, caller[c].pc # "idle"
    PROVE  pool.running /\ ~pool.stopPending
BY DEF IInv, MutexInv

LEMMA MutexOfCaller ==
    ASSUME IInv, NEW c \in Callers, pool.enqueueMutex = c
    PROVE  \A x \in Callers : x # c => caller[x].pc \notin Holding
BY DEF IInv, MutexInv

LEMMA AcquireStep ==
    ASSUME IInv, NEW c \in Callers, Acquire(c)
    PROVE  IInv'
<1>1. TypeOK /\ caller[c].pc = "acquire" /\ pool.enqueueMutex = "none" /\ UNCHANGED <<slot, thread, data, report>>
  BY DEF IInv, Acquire, In
<1>2. /\ pool' \in PoolType /\ pool'.enqueue = pool.enqueue /\ pool'.enqueueMutex = c
      /\ pool'.running = pool.running /\ pool'.stopPending = pool.stopPending
  BY <1>1, Types DEF PoolType, Acquire
<1>3. PICK pc \in {"first", "put"} :
         /\ pc = "first" <=> caller[c].prf = "none"
         /\ caller' = [caller EXCEPT ![c].pc = pc, ![c].first = pool.enqueue]
  BY DEF Acquire
<1>4. pool.enqueue \in Slots
  BY <1>1, Fields
<1>5. /\ caller' \in [Callers -> CallerType] /\ caller'[c].pc = pc /\ caller'[c].first = pool.enqueue
      /\ caller'[c].prf = caller[c].prf /\ caller'[c].count = caller[c].count /\ caller'[c].left = caller[c].left
      /\ caller'[c].start = caller[c].start /\ caller'[c].per = caller[c].per /\ caller'[c].remainder = caller[c].remainder
      /\ \A x \in Callers : x # c => caller'[x] = caller[x]
  BY ZenonT(60), <1>1, <1>3, <1>4, Types DEF CallerType
<1>6. TypeOK'
  BY <1>1, <1>2, <1>5, Types, TypesNext
<1>7. (\E x \in Callers : caller'[x].pc = "clear") <=> \E x \in Callers : caller[x].pc = "clear"
  BY <1>1, <1>5
<1>8. /\ ThreadInv'
      /\ \A s \in Slots : Live(s)' <=> Live(s)
      /\ \A x \in Callers : Uncounted(x)' = Uncounted(x)
      /\ \A x \in Callers : \A s \in Slots : Undone(x, s)' <=> Undone(x, s)
      /\ \A s \in Slots : \A u \in Units : Covers(s, u)' <=> Covers(s, u)
      /\ Keys' = Keys
  BY <1>1, <1>2, <1>7, RingKept
<1>9. \A x \in Callers : Calling(x)' <=> Calling(x)
  BY <1>1, <1>5 DEF Calling
<1>10. "none" \notin Callers
  BY PoolAssumption
<1>11. MutexInv'
  BY <1>1, <1>2, <1>5, <1>10 DEF IInv, MutexInv, Holding
<1>12. CallInv'
  <2>1. Calling(c) => Share(caller'[c]) /\ caller[c].start = 0 /\ caller[c].left # 0
    BY <1>1, <1>5 DEF IInv, CallInv, Share, Rest
  <2>. QED  BY SMTT(30), <1>1, <1>2, <1>3, <1>5, <1>9, <2>1, OthersCall DEF Calling
<1>13. FragmentInv'
  <2>1. \A s \in Slots : Live(s) => slot[s].caller # c
    BY <1>1 DEF IInv, FragmentInv
  <2>. QED  BY <1>1, <1>2, <1>5, <1>8, <1>9, <2>1 DEF IInv, FragmentInv
<1>14. CountInv'
  BY <1>1, <1>3, <1>5, <1>8, <1>9 DEF IInv, CountInv, Calling
<1>15. EventInv'
  BY <1>1, <1>5, <1>9 DEF IInv, EventInv, SlotOf
<1>16. KeyInv'
  BY <1>1, <1>8 DEF IInv, KeyInv
<1>17. DataInv'
  BY <1>1, <1>5, <1>8, <1>9 DEF IInv, DataInv
<1>. QED  BY <1>6, <1>8, <1>11, <1>12, <1>13, <1>14, <1>15, <1>16, <1>17 DEF IInv

LEMMA AwaitSlotStep ==
    ASSUME IInv, NEW c \in Callers, AwaitSlot(c)
    PROVE  IInv'
<1>1. TypeOK /\ UNCHANGED <<slot, thread, data, report>>
  BY DEF IInv, AwaitSlot
<1>2. pool' = pool \/ pool' = [pool EXCEPT !.completedEvent = FALSE]
  BY DEF AwaitSlot
<1>3. /\ pool' \in PoolType /\ pool'.enqueue = pool.enqueue /\ pool'.enqueueMutex = pool.enqueueMutex
      /\ pool'.running = pool.running /\ pool'.stopPending = pool.stopPending
  BY <1>1, <1>2, Types DEF PoolType
<1>4. PICK pc \in {"first", "firstWait", "put", "putWait"} :
         /\ Advance(c, pc)
         /\ \/ pc \in {"first", "firstWait"} /\ caller[c].pc \in {"first", "firstWait"}
            \/ pc \in {"put", "putWait"} /\ caller[c].pc \in {"put", "putWait"}
  BY DEF AwaitSlot, In
<1>5. /\ caller' \in [Callers -> CallerType] /\ caller'[c] = [caller[c] EXCEPT !.pc = pc]
      /\ \A x \in Callers : x # c => caller'[x] = caller[x]
  BY <1>1, <1>4, AdvanceStep
<1>6. caller'[c].pc = pc /\ CallerKept(c)
  BY <1>1, <1>5, AdvanceFields
<1>7. TypeOK'
  BY <1>1, <1>3, <1>5, Types, TypesNext
<1>8. (\E x \in Callers : caller'[x].pc = "clear") <=> \E x \in Callers : caller[x].pc = "clear"
  BY <1>4, <1>5, <1>6
<1>9. /\ ThreadInv'
      /\ \A s \in Slots : Live(s)' <=> Live(s)
      /\ \A x \in Callers : Uncounted(x)' = Uncounted(x)
      /\ \A x \in Callers : \A s \in Slots : Undone(x, s)' <=> Undone(x, s)
      /\ \A s \in Slots : \A u \in Units : Covers(s, u)' <=> Covers(s, u)
      /\ Keys' = Keys
  BY <1>1, <1>3, <1>8, RingKept
<1>10. \A x \in Callers : Calling(x)' <=> Calling(x)
  BY <1>4, <1>5, <1>6 DEF Calling, CallerKept
<1>11. \A x \in Callers :
          /\ caller'[x].prf = caller[x].prf /\ caller'[x].count = caller[x].count /\ caller'[x].left = caller[x].left
          /\ caller'[x].start = caller[x].start /\ caller'[x].first = caller[x].first
          /\ caller'[x].pc \in {"put", "putWait"} <=> caller[x].pc \in {"put", "putWait"}
          /\ caller'[x].pc = "await" <=> caller[x].pc = "await"
          /\ caller'[x].pc = "return" <=> caller[x].pc = "return"
  BY <1>4, <1>5, <1>6 DEF CallerKept
<1>12. MutexInv'
  BY <1>1, <1>3, <1>4, <1>5, <1>6 DEF IInv, MutexInv, Holding
<1>13. CallInv'
  <2>1. caller[c].pc \in {"first", "firstWait"} => caller[c].prf = "none"
    BY DEF IInv, CallInv
  <2>2. Calling(c) =>
           /\ Share(caller'[c]) /\ caller[c].left # 0
           /\ caller[c].pc \in {"first", "firstWait"} => caller[c].start = 0
           /\ caller[c].start = 0 => caller[c].first = pool.enqueue
           /\ caller[c].pc \in {"put", "putWait"} /\ caller[c].start = 0 => slot[caller[c].first].state = "free"
           /\ caller[c].start > 0 =>
                LET f == slot[caller[c].first] IN f.state # "free" /\ f.prf = "none" /\ f.caller = c /\ f.first = caller[c].first
    BY <1>4, <1>6 DEF IInv, CallInv, Share, Rest, CallerKept
  <2>. QED  BY ZenonT(60), <1>1, <1>3, <1>4, <1>5, <1>6, <1>10, <2>1, <2>2, OthersCall DEF CallerKept
<1>14. FragmentInv'
  BY <1>1, <1>3, <1>9, <1>10, <1>11 DEF IInv, FragmentInv
<1>15. CountInv'
  BY <1>1, <1>9, <1>10, <1>11 DEF IInv, CountInv
<1>16. EventInv'
  BY <1>1, <1>4, <1>5, <1>10 DEF IInv, EventInv, SlotOf
<1>17. KeyInv'
  BY <1>1, <1>9 DEF IInv, KeyInv
<1>18. DataInv'
  BY <1>1, <1>9, <1>10, <1>11 DEF IInv, DataInv
<1>. QED  BY <1>7, <1>9, <1>12, <1>13, <1>14, <1>15, <1>16, <1>17, <1>18 DEF IInv

(* What is left of a call adds up: before the first fragment is cut off ... *)
LEMMA ShareOfCall ==
    ASSUME NEW n \in UnitCounts, n > 1, NEW x, x.count = n, x.start = 0,
           x.left = (IF n <= ThreadCount THEN n ELSE ThreadCount),
           x.per = (IF n <= ThreadCount THEN 1 ELSE n \div ThreadCount + (IF n % ThreadCount > 0 THEN 1 ELSE 0)),
           x.remainder = (IF n <= ThreadCount THEN 0 ELSE n % ThreadCount)
    PROVE  Share(x) /\ x.left \in Nat \ {0} /\ x.per \in Nat /\ x.remainder \in Nat /\ n \in Nat
<1>. DEFINE T == ThreadCount
<1>1. n \in Nat /\ n <= MaxUnits /\ MaxUnits \in Nat
  BY PoolAssumption
<1>2. T \in Nat /\ T >= 2
  BY SlotsAndUnits
<1>. HIDE DEF T
<1>3. CASE n <= T
  <2>1. x.left = n /\ x.per = 1 /\ x.remainder = 0
    BY <1>3 DEF T
  <2>. QED  BY <2>1, <1>1 DEF Share, Rest
<1>4. CASE ~(n <= T)
  <2>1. x.left = T /\ x.per = n \div T + (IF n % T > 0 THEN 1 ELSE 0) /\ x.remainder = n % T
    BY <1>4 DEF T
  <2>2. PICK q \in Int : q = n \div T
    BY <1>1, <1>2
  <2>3. PICK r \in Int : r = n % T
    BY <1>1, <1>2
  <2>4. n = T * q + r /\ 0 <= r /\ r < T
    BY <1>1, <1>2, <2>2, <2>3
  <2>5. q >= 1
    BY <2>4, <1>1, <1>2, <1>4
  <2>6. CASE r > 0
    <3>1. x.per = q + 1 /\ x.remainder = r
      BY <2>1, <2>2, <2>3, <2>6
    <3>2. x.per - 1 = q
      BY <3>1
    <3>. QED  BY <3>1, <3>2, <2>1, <2>4, <2>5, <2>6, <1>1, <1>2 DEF Share, Rest
  <2>7. CASE r = 0
    <3>1. x.per = q /\ x.remainder = 0
      BY <2>1, <2>2, <2>3, <2>7
    <3>. QED  BY <3>1, <2>1, <2>4, <2>5, <2>7, <1>1, <1>2 DEF Share, Rest
  <2>. QED  BY <2>4, <2>6, <2>7
<1>. QED  BY <1>3, <1>4

(* ... and as each is *)
LEMMA ShareOfRest ==
    ASSUME NEW x, NEW y, Share(x), x.left \in Nat \ {0}, x.per \in Nat, x.remainder \in Nat, x.start \in Nat, x.count \in Nat,
           y.count = x.count, y.start = x.start + x.per, y.left = x.left - 1,
           y.remainder = (IF x.remainder > 0 THEN x.remainder - 1 ELSE 0),
           y.per = (IF x.remainder > 0 /\ y.remainder = 0 THEN x.per - 1 ELSE x.per)
    PROVE  Share(y) /\ y.left \in Nat /\ y.start \in Nat \ {0} /\ y.per \in Nat /\ y.remainder \in Nat
<1>. DEFINE l == x.left
            p == x.per
            r == x.remainder
<1>1. l \in Nat \ {0} /\ p \in Nat /\ r \in Nat /\ p >= 1 /\ (r > 0 => p >= 2 /\ r < l)
  BY DEF Share
<1>2. x.count = x.start + (IF r > 0 THEN l * (p - 1) + r ELSE l * p) /\ x.count <= MaxUnits
  BY DEF Share, Rest
<1>3. (l - 1) * p = l * p - p /\ (l - 1) * (p - 1) = l * (p - 1) - (p - 1)
  BY <1>1
<1>4. l * p \in Int /\ l * (p - 1) \in Int
  BY <1>1
<1>5. CASE r = 0
  <2>1. y.left = l - 1 /\ y.remainder = 0 /\ y.per = p /\ y.start = x.start + p
    BY <1>5
  <2>2. y.count = y.start + (l - 1) * p
    BY <2>1, <1>1, <1>2, <1>3, <1>4, <1>5
  <2>. QED  BY <2>1, <2>2, <1>1, <1>2, <1>5 DEF Share, Rest
<1>6. CASE r = 1
  <2>1. y.left = l - 1 /\ y.remainder = 0 /\ y.per = p - 1 /\ y.start = x.start + p
    BY <1>6
  <2>2. y.count = y.start + (l - 1) * (p - 1)
    BY <2>1, <1>1, <1>2, <1>3, <1>4, <1>6
  <2>. QED  BY <2>1, <2>2, <1>1, <1>2, <1>6 DEF Share, Rest
<1>7. CASE r > 1
  <2>1. y.left = l - 1 /\ y.remainder = r - 1 /\ y.per = p /\ y.start = x.start + p
    BY <1>1, <1>7
  <2>2. PICK m \in Int, k \in Int : m = l * (p - 1) /\ k = (l - 1) * (p - 1)
    BY <1>1
  <2>3. k = m - (p - 1) /\ x.count = x.start + (m + r)
    BY <2>2, <1>2, <1>3, <1>7
  <2>4. y.count = y.start + (k + (r - 1))
    BY <2>1, <2>3, <1>1
  <2>. QED  BY <2>1, <2>2, <2>4, <1>1, <1>2, <1>7 DEF Share, Rest
<1>. QED  BY <1>1, <1>5, <1>6, <1>7

(* Nothing of a caller that is not in a call is in the ring *)
LEMMA IdleHasNoFragment ==
    ASSUME IInv, NEW c \in Callers, ~Calling(c)
    PROVE  \A s \in Slots : ~(Live(s) /\ slot[s].caller = c) /\ ~Awaited(c, s) /\ ~Undone(c, s)
<1>1. \A s \in Slots : ~(Live(s) /\ slot[s].caller = c)
  BY DEF IInv, FragmentInv
<1>2. \A s \in Slots : Awaited(c, s) => Live(s) /\ slot[s].caller = c
  BY DEF Awaited, Live, Fragmenting
<1>3. \A s \in Slots : Undone(c, s) => Live(s) /\ slot[s].caller = c
  BY DEF Undone, Live, Fragmenting
<1>. QED  BY <1>1, <1>2, <1>3

LEMMA CallerAssigned ==
    ASSUME TypeOK, NEW c \in Callers, NEW y \in CallerType, caller' = [caller EXCEPT ![c] = y]
    PROVE  caller' \in [Callers -> CallerType] /\ caller'[c] = y /\ \A x \in Callers : x # c => caller'[x] = caller[x]
BY Types

LEMMA DoWorkDirectStep ==
    ASSUME IInv, NEW c \in Callers, DoWorkDirect(c)
    PROVE  IInv'
<1>1. TypeOK /\ caller[c].pc = "idle" /\ caller[c].calls > 0 /\ UNCHANGED <<pool, slot, thread, report>>
  BY DEF IInv, DoWorkDirect, In
<1>2. PICK n \in UnitCounts :
         /\ data' = [data EXCEPT ![c] = [u \in Units |-> IF u < n THEN 1 ELSE 0]]
         /\ caller' = [caller EXCEPT ![c].calls = @ - 1, ![c].count = n]
  BY DEF DoWorkDirect
<1>3. n \in Nat /\ caller[c].calls - 1 \in Nat
  BY <1>1, PoolAssumption, Fields
<1>4. /\ caller' \in [Callers -> CallerType] /\ caller'[c].pc = caller[c].pc /\ caller'[c].prf = caller[c].prf
      /\ caller'[c].count = n
      /\ \A x \in Callers : x # c => caller'[x] = caller[x]
  <2>1. PICK calls \in Nat : calls = caller[c].calls - 1
    BY <1>3
  <2>2. caller[c] \in CallerType
    BY <1>1, Types
  <2>3. PICK y : y = [caller[c] EXCEPT !.calls = calls, !.count = n]
    OBVIOUS
  <2>4. y \in CallerType /\ y.pc = caller[c].pc /\ y.prf = caller[c].prf /\ y.count = n
    BY <2>2, <2>3, <1>3 DEF CallerType
  <2>5. caller' = [caller EXCEPT ![c] = y]
    BY <1>1, <1>2, <2>1, <2>3, Types
  <2>. QED  BY <1>1, <2>4, <2>5, CallerAssigned
<1>5. /\ data' \in [Callers -> [Units -> Nat]] /\ \A u \in Units : data'[c][u] = (IF u < n THEN 1 ELSE 0)
      /\ \A x \in Callers : x # c => data'[x] = data[x]
  BY <1>1, <1>2, Types
<1>6. TypeOK'
  BY <1>1, <1>4, <1>5, Types, TypesNext
<1>7. (\E x \in Callers : caller'[x].pc = "clear") <=> \E x \in Callers : caller[x].pc = "clear"
  BY <1>1, <1>4
<1>8. /\ ThreadInv'
      /\ \A s \in Slots : Live(s)' <=> Live(s)
      /\ \A x \in Callers : Uncounted(x)' = Uncounted(x)
      /\ \A x \in Callers : \A s \in Slots : Undone(x, s)' <=> Undone(x, s)
      /\ \A s \in Slots : \A u \in Units : Covers(s, u)' <=> Covers(s, u)
      /\ Keys' = Keys
  BY <1>1, <1>7, RingKept
<1>9. ~Calling(c) /\ ~Calling(c)' /\ caller[c].prf = "none"
  BY <1>1, <1>4 DEF Calling, IInv, CallInv
<1>10. \A x \in Callers : x # c => (Calling(x)' <=> Calling(x))
  BY <1>4 DEF Calling
<1>11. MutexInv'
  BY <1>1, <1>4 DEF IInv, MutexInv
<1>12. CallInv'
  BY <1>1, <1>4, <1>9, OthersCall
<1>13. FragmentInv'
  BY <1>1, <1>4, <1>8, <1>9, <1>10 DEF IInv, FragmentInv
<1>14. CountInv'
  BY <1>1, <1>4, <1>8, <1>9, <1>10 DEF IInv, CountInv
<1>15. EventInv'
  BY <1>1, <1>4, <1>9, <1>10 DEF IInv, EventInv, SlotOf
<1>16. KeyInv'
  BY <1>1, <1>8 DEF IInv, KeyInv
<1>17. DataInv'
  BY <1>1, <1>4, <1>5, <1>8, <1>9, <1>10 DEF IInv, DataInv
<1>. QED  BY <1>6, <1>8, <1>11, <1>12, <1>13, <1>14, <1>15, <1>16, <1>17 DEF IInv

LEMMA DoWorkBeginStep ==
    ASSUME IInv, NEW c \in Callers, DoWorkBegin(c)
    PROVE  IInv'
<1>1. /\ TypeOK /\ caller[c].pc = "idle" /\ caller[c].calls > 0 /\ UNCHANGED <<pool, slot, thread, report>>
      /\ pool.running /\ ~pool.stopPending
      /\ data' = [data EXCEPT ![c] = [u \in Units |-> 0]]
  BY DEF IInv, DoWorkBegin, In
<1>2. PICK n \in UnitCounts :
         /\ n > 1
         /\ caller' = [caller EXCEPT ![c] =
                [@ EXCEPT !.pc = "acquire", !.calls = caller[c].calls - 1, !.count = n, !.start = 0,
                          !.left = IF n <= ThreadCount THEN n ELSE ThreadCount,
                          !.per = IF n <= ThreadCount THEN 1
                                  ELSE n \div ThreadCount + (IF n % ThreadCount > 0 THEN 1 ELSE 0),
                          !.remainder = IF n <= ThreadCount THEN 0 ELSE n % ThreadCount]]
  BY DEF DoWorkBegin
<1>3. PICK left, per, remainder :
         /\ left = (IF n <= ThreadCount THEN n ELSE ThreadCount)
         /\ per = (IF n <= ThreadCount THEN 1 ELSE n \div ThreadCount + (IF n % ThreadCount > 0 THEN 1 ELSE 0))
         /\ remainder = (IF n <= ThreadCount THEN 0 ELSE n % ThreadCount)
  OBVIOUS
<1>4. caller' = [caller EXCEPT ![c] = [@ EXCEPT !.pc = "acquire", !.calls = caller[c].calls - 1, !.count = n, !.start = 0,
                                              !.left = left, !.per = per, !.remainder = remainder]]
  BY <1>2, <1>3
<1>5. left \in Nat \ {0} /\ per \in Nat /\ remainder \in Nat /\ n \in Nat
  <2>1. PICK x : x = [count |-> n, start |-> 0, left |-> left, per |-> per, remainder |-> remainder]
    OBVIOUS
  <2>2. x.count = n /\ x.start = 0 /\ x.left = left /\ x.per = per /\ x.remainder = remainder
    BY <2>1
  <2>. QED  BY <2>2, <1>2, <1>3, ShareOfCall
<1>6. PICK calls \in Nat : calls = caller[c].calls - 1
  BY <1>1, Fields
<1>7. PICK y : y = [caller[c] EXCEPT !.pc = "acquire", !.calls = calls, !.prf = caller[c].prf, !.count = n, !.start = 0,
                                     !.left = left, !.per = per, !.remainder = remainder]
  OBVIOUS
<1>8. caller' \in [Callers -> CallerType] /\ caller'[c] = y /\ \A x \in Callers : x # c => caller'[x] = caller[x]
  <2>1. caller[c] \in CallerType /\ caller[c].prf \in Prfs \cup {"none"}
    BY <1>1, Types, Fields
  <2>2. y \in CallerType
    BY <1>5, <1>7, <2>1 DEF CallerType
  <2>3. y = [caller[c] EXCEPT !.pc = "acquire", !.calls = calls, !.count = n, !.start = 0,
                              !.left = left, !.per = per, !.remainder = remainder]
    BY <1>7, <2>1 DEF CallerType
  <2>4. caller' = [caller EXCEPT ![c] = y]
    BY <1>4, <1>6, <2>3
  <2>. QED  BY <1>1, <2>2, <2>4, CallerAssigned
<1>9. /\ caller'[c].pc = "acquire" /\ caller'[c].prf = caller[c].prf /\ caller'[c].count = n
      /\ caller'[c].start = 0 /\ caller'[c].left = left /\ caller'[c].per = per /\ caller'[c].remainder = remainder
      /\ caller'[c].first = caller[c].first
      /\ \A x \in Callers : x # c => caller'[x] = caller[x]
  <2>1. caller[c] \in CallerType /\ caller[c].prf \in Prfs \cup {"none"}
    BY <1>1, Types, Fields
  <2>2. /\ y.pc = "acquire" /\ y.prf = caller[c].prf /\ y.count = n /\ y.start = 0 /\ y.left = left /\ y.per = per
        /\ y.remainder = remainder /\ y.first = caller[c].first
    BY <1>5, <1>7, <2>1 DEF CallerType
  <2>. QED  BY <1>8, <2>2
<1>10. Share(caller'[c])
  BY <1>2, <1>3, <1>9, ShareOfCall
<1>11. /\ data' \in [Callers -> [Units -> Nat]] /\ \A u \in Units : data'[c][u] = 0
      /\ \A x \in Callers : x # c => data'[x] = data[x]
  BY <1>1, Types
<1>12. TypeOK'
  BY <1>1, <1>8, <1>11, Types, TypesNext
<1>13. (\E x \in Callers : caller'[x].pc = "clear") <=> \E x \in Callers : caller[x].pc = "clear"
  BY <1>1, <1>9
<1>14. /\ ThreadInv'
       /\ \A s \in Slots : Live(s)' <=> Live(s)
       /\ \A x \in Callers : Uncounted(x)' = Uncounted(x)
       /\ \A x \in Callers : \A s \in Slots : Undone(x, s)' <=> Undone(x, s)
       /\ \A s \in Slots : \A u \in Units : Covers(s, u)' <=> Covers(s, u)
       /\ Keys' = Keys
  BY <1>1, <1>13, RingKept
<1>15. ~Calling(c) /\ Calling(c)' /\ caller[c].prf = "none"
  BY <1>1, <1>9 DEF Calling, IInv, CallInv
<1>16. \A x \in Callers : x # c => (Calling(x)' <=> Calling(x))
  BY <1>9 DEF Calling
<1>17. MutexInv'
  BY <1>1, <1>9 DEF IInv, MutexInv, Holding
<1>18. CallInv'
  BY <1>1, <1>9, <1>5, <1>10, <1>15, OthersCall
<1>19. FragmentInv'
  BY <1>1, <1>9, <1>14, <1>15, <1>16 DEF IInv, FragmentInv
<1>20. CountInv'
  BY <1>1, <1>9, <1>14, <1>15, <1>16 DEF IInv, CountInv
<1>21. EventInv'
  BY <1>1, <1>9, <1>15, <1>16 DEF IInv, EventInv, SlotOf
<1>22. KeyInv'
  BY <1>1, <1>14 DEF IInv, KeyInv
<1>23. DataInv'
  <2>1. \A u \in Units : ~(u < 0)
    BY SlotsAndUnits
  <2>2. \A s \in Slots : ~Undone(c, s)
    BY <1>15, IdleHasNoFragment
  <2>. QED  BY <1>1, <1>9, <1>11, <1>14, <1>15, <1>16, <2>1, <2>2 DEF IInv, DataInv
<1>. QED  BY <1>12, <1>14, <1>17, <1>18, <1>19, <1>20, <1>21, <1>22, <1>23 DEF IInv

(* A caller that is not in the pool asks for a derivation *)
LEMMA DerivationAsked ==
    ASSUME IInv, NEW c \in Callers, NEW p \in Prfs, caller[c].pc = "idle", pool.running, ~pool.stopPending,
           UNCHANGED <<pool, slot, thread, data>>,
           report' \in ReportType, report'.outstanding = report.outstanding,
           caller' \in [Callers -> CallerType], caller'[c].pc = "acquire", caller'[c].prf = p, caller'[c].count = caller[c].count,
           \A x \in Callers : x # c => caller'[x] = caller[x]
    PROVE  IInv'
<1>1. TypeOK /\ p # "none"
  BY PoolAssumption DEF IInv
<1>2. TypeOK'
  BY <1>1, Types, TypesNext
<1>3. (\E x \in Callers : caller'[x].pc = "clear") <=> \E x \in Callers : caller[x].pc = "clear"
  OBVIOUS
<1>4. /\ ThreadInv'
      /\ \A s \in Slots : Live(s)' <=> Live(s)
      /\ \A x \in Callers : Uncounted(x)' = Uncounted(x)
      /\ \A x \in Callers : \A s \in Slots : Undone(x, s)' <=> Undone(x, s)
      /\ \A s \in Slots : \A u \in Units : Covers(s, u)' <=> Covers(s, u)
      /\ Keys' = Keys
  BY <1>3, RingKept
<1>5. ~Calling(c) /\ ~Calling(c)'
  BY <1>1 DEF Calling
<1>6. \A x \in Callers : x # c => (Calling(x)' <=> Calling(x))
  BY DEF Calling
<1>7. MutexInv'
  BY DEF IInv, MutexInv, Holding
<1>8. CallInv'
  BY <1>5, OthersCall
<1>9. FragmentInv'
  BY <1>4, <1>5, <1>6 DEF IInv, FragmentInv
<1>10. CountInv'
  BY <1>4, <1>5, <1>6 DEF IInv, CountInv
<1>11. EventInv'
  BY <1>5, <1>6 DEF IInv, EventInv, SlotOf
<1>12. KeyInv'
  BY <1>4 DEF IInv, KeyInv
<1>13. DataInv'
  BY <1>4, <1>5, <1>6 DEF IInv, DataInv
<1>. QED  BY <1>2, <1>4, <1>7, <1>8, <1>9, <1>10, <1>11, <1>12, <1>13 DEF IInv

LEMMA BeginCallStep ==
    ASSUME IInv, NEW c \in Callers, BeginCall(c)
    PROVE  IInv'
<1>1. /\ TypeOK /\ caller[c].pc = "idle" /\ caller[c].calls > 0 /\ UNCHANGED <<pool, slot, thread, data>>
      /\ pool.running /\ ~pool.stopPending
  BY DEF IInv, BeginCall, In
<1>2. PICK p \in Prfs :
         /\ report' = [report EXCEPT !.keyReady[p] = FALSE, !.result[p] = "none"]
         /\ caller' = [caller EXCEPT ![c] = [@ EXCEPT !.pc = "acquire", !.calls = caller[c].calls - 1, !.prf = p]]
  BY DEF BeginCall
<1>3. report' \in ReportType /\ report'.outstanding = report.outstanding
  BY <1>1, <1>2, Types DEF ReportType
<1>4. caller[c] \in CallerType /\ caller[c].calls - 1 \in Nat
  BY <1>1, Types, Fields
<1>5. /\ caller' \in [Callers -> CallerType] /\ caller'[c].pc = "acquire" /\ caller'[c].prf = p /\ caller'[c].count = caller[c].count
      /\ \A x \in Callers : x # c => caller'[x] = caller[x]
  <2>1. PICK calls \in Nat : calls = caller[c].calls - 1
    BY <1>4
  <2>2. PICK y : y = [caller[c] EXCEPT !.pc = "acquire", !.calls = calls, !.prf = p]
    OBVIOUS
  <2>3. y \in CallerType /\ y.pc = "acquire" /\ y.prf = p /\ y.count = caller[c].count
    BY <1>4, <2>2 DEF CallerType
  <2>4. caller' = [caller EXCEPT ![c] = y]
    BY <1>2, <2>1, <2>2
  <2>. QED  BY <1>1, <2>3, <2>4, CallerAssigned
<1>. QED  BY <1>1, <1>3, <1>5, DerivationAsked

----------------------------------------------------------------------------
(* Steps of callers that change a slot *)

(* The slot to be filled next is used by nobody, and no fragment is behind it *)
LEMMA EnqueueSlotIdle ==
    ASSUME IInv, NEW e \in Slots, e = pool.enqueue, slot[e].state = "free"
    PROVE  /\ \A t \in Threads : thread[t].pc \in Active => thread[t].slot # e
           /\ ~Live(e) /\ ~slot[e].completedEvent
           /\ \A c \in Callers : ~Awaited(c, e) /\ ~Undone(c, e)
           /\ \A c \in Callers : Calling(c) /\ caller[c].start > 0 => caller[c].first # e
           /\ \A s \in Slots : Live(s) => slot[s].first # e /\ After(Following(e), s, slot[s].first)
<1>1. TypeOK
  BY DEF IInv
<1>2. \A c \in Callers : Calling(c) /\ caller[c].start > 0 => caller[c].first # e
  BY DEF IInv, CallInv
<1>3. \A s \in Slots : Live(s) => slot[s].first # e /\ slot[s].first \in Slots /\ After(e, s, slot[s].first)
  BY <1>1, <1>2, Fields DEF IInv, FragmentInv
<1>4. ~Live(e)
  BY <1>3, AfterFollowing
<1>5. \A s \in Slots : Live(s) => After(Following(e), s, slot[s].first)
  BY <1>3, AfterFollowing
<1>6. \A t \in Threads : thread[t].pc \in Fragmenting => thread[t].slot # e
  BY <1>4 DEF Live
<1>7. \A t \in Threads : thread[t].pc \in Deriving => thread[t].slot # e
  BY DEF IInv, ThreadInv, Deriving, SlotOf
<1>8. ~slot[e].completedEvent
  <2>1. \A c \in Callers : Calling(c) /\ caller[c].pc = "await" => caller[c].start > 0
    BY DEF IInv, CallInv
  <2>. QED  BY <2>1, <1>2 DEF IInv, EventInv
<1>9. \A c \in Callers : ~Awaited(c, e) /\ ~Undone(c, e)
  BY <1>4 DEF Awaited, Undone, Live, Fragmenting
<1>. QED  BY <1>2, <1>3, <1>4, <1>5, <1>6, <1>7, <1>8, <1>9 DEF Active

(* Callers in the middle of a call have put their first fragment, apart from the one that holds the mutex *)
LEMMA OthersHaveBegun ==
    ASSUME IInv, NEW c \in Callers, pool.enqueueMutex = c
    PROVE  \A x \in Callers : x # c /\ Calling(x) /\ caller[x].pc \in {"first", "firstWait", "put", "putWait", "await", "return"} =>
              caller[x].start > 0 /\ caller[x].pc \in {"await", "return"}
BY MutexOfCaller DEF IInv, CallInv, Holding

LEMMA DoWorkFirstStep ==
    ASSUME IInv, NEW c \in Callers, DoWorkFirst(c)
    PROVE  IInv'
<1>1. TypeOK /\ caller[c].pc = "first" /\ UNCHANGED <<pool, thread, data, report>> /\ Advance(c, "put")
  BY DEF IInv, DoWorkFirst, In
<1>2. PICK e \in Slots : e = pool.enqueue /\ slot[e].state = "free"
  BY <1>1, Fields DEF DoWorkFirst
<1>3. PICK n \in Nat : n = caller[c].left
  BY <1>1, Fields
<1>4. slot' = [slot EXCEPT ![e].outstanding = n]
  BY <1>2, <1>3 DEF DoWorkFirst
<1>5. /\ slot' \in [Slots -> SlotType] /\ slot'[e].state = slot[e].state /\ slot'[e].outstanding = n
      /\ slot'[e].completedEvent = slot[e].completedEvent
      /\ \A x \in Slots : WorkKept(x) /\ (x # e => slot'[x] = slot[x])
  BY <1>1, <1>4, OutstandingStep
<1>6. \A x \in Slots : slot'[x].state = slot[x].state /\ slot'[x].completedEvent = slot[x].completedEvent
  BY <1>5
<1>7. /\ caller' \in [Callers -> CallerType] /\ caller'[c] = [caller[c] EXCEPT !.pc = "put"]
      /\ \A x \in Callers : x # c => caller'[x] = caller[x]
  BY <1>1, AdvanceStep
<1>8. caller'[c].pc = "put" /\ CallerKept(c)
  BY <1>1, <1>7, AdvanceFields
<1>9. TypeOK'
  BY <1>1, <1>5, <1>7, Types, TypesNext
<1>10. /\ \A t \in Threads : thread[t].pc \in Active => thread[t].slot # e
       /\ ~Live(e) /\ ~slot[e].completedEvent
       /\ \A x \in Callers : ~Awaited(x, e) /\ ~Undone(x, e)
       /\ \A x \in Callers : Calling(x) /\ caller[x].start > 0 => caller[x].first # e
       /\ \A s \in Slots : Live(s) => slot[s].first # e
  BY <1>2, EnqueueSlotIdle
<1>11. pool.enqueueMutex = c
  BY <1>1 DEF IInv, MutexInv, Holding
<1>12. \A x \in Callers : x # c /\ Calling(x) /\ caller[x].pc \in {"put", "putWait", "await", "return"} => caller[x].first # e
  BY <1>10, <1>11, OthersHaveBegun
<1>13. \A x \in Callers :
          /\ caller'[x].prf = caller[x].prf /\ caller'[x].count = caller[x].count /\ caller'[x].left = caller[x].left
          /\ caller'[x].start = caller[x].start /\ caller'[x].first = caller[x].first /\ caller'[x].per = caller[x].per
          /\ caller'[x].remainder = caller[x].remainder
          /\ caller'[x].pc = (IF x = c THEN "put" ELSE caller[x].pc)
  BY <1>7, <1>8 DEF CallerKept
<1>14. \A x \in Callers : Calling(x)' <=> Calling(x)
  BY <1>1, <1>13 DEF Calling
<1>15. Calling(c) /\ caller[c].start = 0 /\ caller[c].first = e
  BY <1>1, <1>2 DEF IInv, CallInv, Calling
<1>16. \A t \in Threads : thread[t].slot \in Slots /\ slot[thread[t].slot].first \in Slots
  BY <1>1, Fields
<1>17. ThreadInv'
  BY <1>1, <1>5, <1>6, <1>16 DEF IInv, ThreadInv, SlotOf, WorkKept
<1>18. MutexInv'
  <2>1. pool.running /\ ~pool.stopPending
    BY <1>1, InUse
  <2>. QED  BY <2>1, <1>1, <1>13 DEF IInv, MutexInv, Holding
<1>19. CallInv'
  <2>1. \A x \in Callers : Calling(x) =>
              /\ Share(caller'[x])
              /\ caller[x].pc \in {"acquire", "first", "firstWait"} => caller[x].start = 0
              /\ caller[x].pc \in {"await", "return"} <=> caller[x].left = 0
              /\ caller[x].pc \in {"await", "return"} => caller[x].start > 0
              /\ caller[x].pc \in {"first", "firstWait", "put", "putWait"} /\ caller[x].start = 0 => caller[x].first = pool.enqueue
              /\ caller[x].pc \in {"put", "putWait"} /\ caller[x].start = 0 => slot[caller[x].first].state = "free"
              /\ caller[x].start > 0 =>
                   LET f == slot[caller[x].first] IN f.state # "free" /\ f.prf = "none" /\ f.caller = x /\ f.first = caller[x].first
    BY <1>13 DEF IInv, CallInv, Share, Rest
  <2>2. \A x \in Callers : Calling(x)' =>
              /\ caller'[x].pc \in {"acquire", "first", "firstWait"} => caller'[x].start = 0
              /\ caller'[x].pc \in {"await", "return"} <=> caller'[x].left = 0
              /\ caller'[x].pc \in {"await", "return"} => caller'[x].start > 0
              /\ caller'[x].pc \in {"first", "firstWait", "put", "putWait"} /\ caller'[x].start = 0 => caller'[x].first = pool.enqueue
    BY <2>1, <1>1, <1>2, <1>13, <1>14, <1>15
  <2>3. \A x \in Callers : Calling(x)' /\ caller'[x].pc \in {"put", "putWait"} /\ caller'[x].start = 0 =>
              slot'[caller'[x].first].state = "free"
    BY <2>1, <1>2, <1>5, <1>6, <1>13, <1>14, <1>15
  <2>4. \A x \in Callers : Calling(x)' /\ caller'[x].start > 0 =>
             LET f == slot'[caller'[x].first] IN f.state # "free" /\ f.prf = "none" /\ f.caller = x /\ f.first = caller'[x].first
    <3>1. \A x \in Callers : caller[x].first \in Slots
      BY <1>1, Fields
    <3>. QED  BY <2>1, <3>1, <1>5, <1>6, <1>13, <1>14 DEF WorkKept
  <2>5. \A x \in Callers : /\ caller'[x].pc \in {"idle", "first", "firstWait", "await", "return"} => caller'[x].prf = "none"
                           /\ caller'[x].pc = "clear" => caller'[x].prf # "none" /\ slot'[pool.enqueue].state = "free"
    BY <1>2, <1>6, <1>13 DEF IInv, CallInv
  <2>. QED  BY <2>1, <2>2, <2>3, <2>4, <2>5, <1>1, <1>14 DEF CallInv
<1>20. \A s \in Slots : Live(s)' <=> Live(s)
  BY <1>1, <1>5, <1>6 DEF Live, WorkKept
<1>21. FragmentInv'
  <2>1. \A s \in Slots : slot'[s].caller = slot[s].caller /\ slot'[s].first = slot[s].first
    BY <1>5 DEF WorkKept
  <2>. QED  BY <2>1, <1>1, <1>13, <1>14, <1>20 DEF IInv, FragmentInv
<1>22. \A x \in Callers : \A s \in Slots : (Awaited(x, s)' <=> Awaited(x, s)) /\ (Undone(x, s)' <=> Undone(x, s))
  BY <1>1, <1>5, <1>6 DEF Awaited, Undone, WorkKept
<1>23. \A x \in Callers : Uncounted(x)' = Uncounted(x)
  BY <1>22 DEF Uncounted
<1>24. CountInv'
  <2>1. Uncounted(c) = {}
    <3>1. \A s \in Slots : ~Awaited(c, s)
      <4>1. \A s \in Slots : Awaited(c, s) => Live(s) /\ slot[s].caller = c
        BY DEF Awaited, Live, Fragmenting
      <4>. QED  BY <4>1, <1>1 DEF IInv, FragmentInv
    <3>. QED  BY <3>1 DEF Uncounted
  <2>2. Cardinality(Uncounted(c)') = 0
    BY <2>1, <1>23, FS_EmptySet
  <2>3. slot'[caller'[c].first].outstanding = caller'[c].left + Cardinality(Uncounted(c)')
    BY <2>2, <1>3, <1>5, <1>13, <1>15
  <2>4. \A x \in Callers : x # c /\ Calling(x) /\ caller[x].pc \in {"put", "putWait", "await", "return"} =>
           slot'[caller[x].first].outstanding = caller[x].left + Cardinality(Uncounted(x)')
    <3>1. \A x \in Callers : caller[x].first \in Slots
      BY <1>1, Fields
    <3>. QED  BY <3>1, <1>5, <1>12, <1>23 DEF IInv, CountInv
  <2>. QED  BY <2>3, <2>4, <1>13, <1>14 DEF CountInv
<1>25. EventInv'
  <2>1. \A x \in Slots : slot'[x].completedEvent =>
             /\ \E d \in Callers : Calling(d)' /\ caller'[d].pc = "await" /\ caller'[d].first = x
             /\ slot'[x].outstanding = 0
    <3>. SUFFICES ASSUME NEW x \in Slots, slot'[x].completedEvent
                  PROVE  /\ \E d \in Callers : Calling(d)' /\ caller'[d].pc = "await" /\ caller'[d].first = x
                         /\ slot'[x].outstanding = 0
      OBVIOUS
    <3>1. x # e /\ slot[x].completedEvent
      BY <1>6, <1>10
    <3>2. PICK d \in Callers : Calling(d) /\ caller[d].pc = "await" /\ caller[d].first = x
      BY <3>1 DEF IInv, EventInv
    <3>3. slot[x].outstanding = 0
      BY <3>1 DEF IInv, EventInv
    <3>. QED  BY <3>1, <3>2, <3>3, <1>1, <1>5, <1>13, <1>14
  <2>2. \A x \in Slots : slot'[x].first = slot[x].first
    BY <1>5 DEF WorkKept
  <2>3. \A t \in Threads : thread[t].pc = "signal" => slot[thread[t].slot].first # e
    BY <1>10, <1>16 DEF Live, Fragmenting
  <2>4. \A t \in Threads : thread[t].pc = "signal" =>
           slot'[slot'[thread[t].slot].first].outstanding = 0 /\ ~slot'[slot'[thread[t].slot].first].completedEvent
    BY <2>2, <2>3, <1>5, <1>16 DEF IInv, EventInv, SlotOf
  <2>5. \A t, t2 \in Threads : thread[t].pc = "signal" /\ thread[t2].pc = "signal" /\ t # t2 =>
           slot'[thread[t].slot].first # slot'[thread[t2].slot].first
    BY <2>2, <1>16 DEF IInv, EventInv, SlotOf
  <2>. QED  BY <2>1, <2>4, <2>5, <1>1 DEF EventInv, SlotOf
<1>26. Keys' = Keys
  <2>1. \A s \in Slots : Key(s)' <=> Key(s)
    BY <1>1, <1>5, <1>6, <1>13 DEF Key, WorkKept
  <2>. QED  BY <2>1 DEF Keys
<1>27. KeyInv'
  BY <1>1, <1>26 DEF IInv, KeyInv
<1>28. DataInv'
  BY <1>1, <1>5, <1>13, <1>14, <1>22 DEF IInv, DataInv, Covers, WorkKept
<1>. QED  BY <1>9, <1>17, <1>18, <1>19, <1>21, <1>24, <1>25, <1>27, <1>28 DEF IInv

(* When the completion event is set, nobody works at a fragment of the call any more *)
LEMMA CompletedCall ==
    ASSUME IInv, NEW c \in Callers, Calling(c), caller[c].pc = "await", slot[caller[c].first].completedEvent
    PROVE  /\ \A s \in Slots : ~(Live(s) /\ slot[s].caller = c)
           /\ slot[caller[c].first].outstanding = 0
<1>1. caller[c].first \in Slots
  BY Fields DEF IInv
<1>2. slot[caller[c].first].outstanding = 0
  BY <1>1 DEF IInv, EventInv
<1>3. caller[c].left \in Nat /\ IsFiniteSet(Uncounted(c)) /\ Cardinality(Uncounted(c)) \in Nat
  BY Fields, UncountedSize DEF IInv
<1>4. Cardinality(Uncounted(c)) = 0
  BY <1>2, <1>3 DEF IInv, CountInv
<1>5. Uncounted(c) = {}
  BY <1>3, <1>4, FS_EmptySet
<1>6. \A s \in Slots : ~Awaited(c, s)
  BY <1>5 DEF Uncounted
<1>7. \A s \in Slots : Live(s) /\ slot[s].caller = c => FALSE
  <2>. SUFFICES ASSUME NEW s \in Slots, Live(s), slot[s].caller = c
                PROVE  FALSE
    OBVIOUS
  <2>1. slot[s].prf = "none"
    BY DEF Live, IInv, ThreadInv, SlotOf
  <2>2. PICK t \in Threads : thread[t].slot = s /\ thread[t].pc = "signal"
    BY <2>1, <1>6 DEF Live, Awaited, Fragmenting
  <2>3. ~slot[slot[s].first].completedEvent
    BY <2>2 DEF IInv, EventInv, SlotOf
  <2>4. slot[s].first = caller[c].first
    BY DEF IInv, FragmentInv
  <2>. QED  BY <2>3, <2>4
<1>. QED  BY <1>2, <1>7

LEMMA DoWorkAwaitStep ==
    ASSUME IInv, NEW c \in Callers, DoWorkAwait(c)
    PROVE  IInv'
<1>1. TypeOK /\ caller[c].pc = "await" /\ UNCHANGED <<pool, thread, data, report>> /\ Advance(c, "return")
  BY DEF IInv, DoWorkAwait, In
<1>2. PICK f \in Slots : f = caller[c].first
  BY <1>1, Fields
<1>3. slot[f].completedEvent /\ slot' = [slot EXCEPT ![f].completedEvent = FALSE]
  BY <1>2 DEF DoWorkAwait
<1>4. /\ slot' \in [Slots -> SlotType] /\ slot'[f].state = slot[f].state /\ slot'[f].outstanding = slot[f].outstanding
      /\ slot'[f].completedEvent = FALSE
      /\ \A x \in Slots : WorkKept(x) /\ (x # f => slot'[x] = slot[x])
  BY <1>1, <1>3, EventStep
<1>5. \A x \in Slots : /\ slot'[x].state = slot[x].state /\ slot'[x].outstanding = slot[x].outstanding
                       /\ slot'[x].completedEvent => x # f /\ slot[x].completedEvent
  BY <1>4
<1>6. /\ caller' \in [Callers -> CallerType] /\ caller'[c] = [caller[c] EXCEPT !.pc = "return"]
      /\ \A x \in Callers : x # c => caller'[x] = caller[x]
  BY <1>1, AdvanceStep
<1>7. caller'[c].pc = "return" /\ CallerKept(c)
  BY <1>1, <1>6, AdvanceFields
<1>8. TypeOK'
  BY <1>1, <1>4, <1>6, Types, TypesNext
<1>9. \A x \in Callers :
          /\ caller'[x].prf = caller[x].prf /\ caller'[x].count = caller[x].count /\ caller'[x].left = caller[x].left
          /\ caller'[x].start = caller[x].start /\ caller'[x].first = caller[x].first /\ caller'[x].per = caller[x].per
          /\ caller'[x].remainder = caller[x].remainder
          /\ caller'[x].pc = (IF x = c THEN "return" ELSE caller[x].pc)
  BY <1>6, <1>7 DEF CallerKept
<1>10. \A x \in Callers : Calling(x)' <=> Calling(x)
  BY <1>1, <1>9 DEF Calling
<1>11. Calling(c)
  BY <1>1 DEF IInv, CallInv, Calling
<1>12. \A s \in Slots : ~(Live(s) /\ slot[s].caller = c)
  BY <1>1, <1>2, <1>3, <1>11, CompletedCall
<1>13. \A t \in Threads : thread[t].slot \in Slots /\ slot[thread[t].slot].first \in Slots
  BY <1>1, Fields
<1>14. ThreadInv'
  BY <1>1, <1>4, <1>5, <1>13 DEF IInv, ThreadInv, SlotOf, WorkKept
<1>15. MutexInv'
  <2>1. pool.running /\ ~pool.stopPending
    BY <1>1, InUse
  <2>. QED  BY <2>1, <1>1, <1>9 DEF IInv, MutexInv, Holding
<1>16. CallInv'
  <2>1. \A x \in Callers : Calling(x) =>
              /\ Share(caller'[x])
              /\ caller[x].pc \in {"acquire", "first", "firstWait"} => caller[x].start = 0
              /\ caller[x].pc \in {"await", "return"} <=> caller[x].left = 0
              /\ caller[x].pc \in {"await", "return"} => caller[x].start > 0
              /\ caller[x].pc \in {"first", "firstWait", "put", "putWait"} /\ caller[x].start = 0 => caller[x].first = pool.enqueue
              /\ caller[x].pc \in {"put", "putWait"} /\ caller[x].start = 0 => slot[caller[x].first].state = "free"
              /\ caller[x].start > 0 =>
                   LET g == slot[caller[x].first] IN g.state # "free" /\ g.prf = "none" /\ g.caller = x /\ g.first = caller[x].first
    BY <1>9 DEF IInv, CallInv, Share, Rest
  <2>2. \A x \in Callers : Calling(x)' =>
              /\ caller'[x].pc \in {"acquire", "first", "firstWait"} => caller'[x].start = 0
              /\ caller'[x].pc \in {"await", "return"} <=> caller'[x].left = 0
              /\ caller'[x].pc \in {"await", "return"} => caller'[x].start > 0
              /\ caller'[x].pc \in {"first", "firstWait", "put", "putWait"} /\ caller'[x].start = 0 => caller'[x].first = pool.enqueue
    BY <2>1, <1>1, <1>9, <1>10
  <2>3. \A x \in Callers : Calling(x)' /\ caller'[x].pc \in {"put", "putWait"} /\ caller'[x].start = 0 =>
              slot'[caller'[x].first].state = "free"
    <3>1. \A x \in Callers : caller[x].first \in Slots
      BY <1>1, Fields
    <3>. QED  BY <2>1, <3>1, <1>5, <1>9, <1>10
  <2>4. \A x \in Callers : Calling(x)' /\ caller'[x].start > 0 =>
             LET g == slot'[caller'[x].first] IN g.state # "free" /\ g.prf = "none" /\ g.caller = x /\ g.first = caller'[x].first
    <3>1. \A x \in Callers : caller[x].first \in Slots
      BY <1>1, Fields
    <3>. QED  BY <2>1, <3>1, <1>4, <1>5, <1>9, <1>10 DEF WorkKept
  <2>5. \A x \in Callers : /\ caller'[x].pc \in {"idle", "first", "firstWait", "await", "return"} => caller'[x].prf = "none"
                           /\ caller'[x].pc = "clear" => caller'[x].prf # "none" /\ slot'[pool.enqueue].state = "free"
    BY <1>1, <1>5, <1>9, Fields DEF IInv, CallInv
  <2>. QED  BY <2>1, <2>2, <2>3, <2>4, <2>5, <1>1, <1>10 DEF CallInv
<1>17. \A s \in Slots : Live(s)' <=> Live(s)
  BY <1>1, <1>4, <1>5 DEF Live, WorkKept
<1>18. FragmentInv'
  <2>1. \A s \in Slots : slot'[s].caller = slot[s].caller /\ slot'[s].first = slot[s].first
    BY <1>4 DEF WorkKept
  <2>. QED  BY <2>1, <1>1, <1>9, <1>10, <1>12, <1>17 DEF IInv, FragmentInv
<1>19. \A x \in Callers : \A s \in Slots : (Awaited(x, s)' <=> Awaited(x, s)) /\ (Undone(x, s)' <=> Undone(x, s))
  BY <1>1, <1>4, <1>5 DEF Awaited, Undone, WorkKept
<1>20. \A x \in Callers : Uncounted(x)' = Uncounted(x)
  BY <1>19 DEF Uncounted
<1>21. CountInv'
  <2>1. \A x \in Callers : caller[x].first \in Slots
    BY <1>1, Fields
  <2>. QED  BY <2>1, <1>1, <1>5, <1>9, <1>10, <1>20 DEF IInv, CountInv
<1>22. EventInv'
  <2>1. \A x \in Slots : slot'[x].completedEvent =>
             /\ \E d \in Callers : Calling(d)' /\ caller'[d].pc = "await" /\ caller'[d].first = x
             /\ slot'[x].outstanding = 0
    <3>. SUFFICES ASSUME NEW x \in Slots, slot'[x].completedEvent
                  PROVE  /\ \E d \in Callers : Calling(d)' /\ caller'[d].pc = "await" /\ caller'[d].first = x
                         /\ slot'[x].outstanding = 0
      OBVIOUS
    <3>1. x # f /\ slot[x].completedEvent
      BY <1>5
    <3>2. PICK d \in Callers : Calling(d) /\ caller[d].pc = "await" /\ caller[d].first = x
      BY <3>1 DEF IInv, EventInv
    <3>3. slot[x].outstanding = 0
      BY <3>1 DEF IInv, EventInv
    <3>. QED  BY <3>1, <3>2, <3>3, <1>2, <1>5, <1>9, <1>10
  <2>2. \A x \in Slots : slot'[x].first = slot[x].first
    BY <1>4 DEF WorkKept
  <2>3. \A t \in Threads : thread[t].pc = "signal" =>
           slot'[slot'[thread[t].slot].first].outstanding = 0 /\ ~slot'[slot'[thread[t].slot].first].completedEvent
    BY <2>2, <1>5, <1>13 DEF IInv, EventInv, SlotOf
  <2>4. \A t, t2 \in Threads : thread[t].pc = "signal" /\ thread[t2].pc = "signal" /\ t # t2 =>
           slot'[thread[t].slot].first # slot'[thread[t2].slot].first
    BY <2>2, <1>13 DEF IInv, EventInv, SlotOf
  <2>. QED  BY <2>1, <2>3, <2>4, <1>1 DEF EventInv, SlotOf
<1>23. Keys' = Keys
  <2>1. \A s \in Slots : Key(s)' <=> Key(s)
    BY <1>1, <1>4, <1>5, <1>9 DEF Key, WorkKept
  <2>. QED  BY <2>1 DEF Keys
<1>24. KeyInv'
  BY <1>1, <1>23 DEF IInv, KeyInv
<1>25. DataInv'
  BY <1>1, <1>4, <1>9, <1>10, <1>19 DEF IInv, DataInv, Covers, WorkKept
<1>. QED  BY <1>8, <1>14, <1>15, <1>16, <1>18, <1>21, <1>22, <1>24, <1>25 DEF IInv

LEMMA DoWorkReturnStep ==
    ASSUME IInv, NEW c \in Callers, DoWorkReturn(c)
    PROVE  IInv'
<1>1. TypeOK /\ caller[c].pc = "return" /\ UNCHANGED <<thread, data, report>> /\ Advance(c, "idle")
  BY DEF IInv, DoWorkReturn, In
<1>2. PICK f \in Slots : f = caller[c].first
  BY <1>1, Fields
<1>3. slot' = [slot EXCEPT ![f].state = "free"]
  BY <1>2 DEF DoWorkReturn
<1>4. /\ slot' \in [Slots -> SlotType] /\ slot'[f].state = "free" /\ slot'[f].outstanding = slot[f].outstanding
      /\ slot'[f].completedEvent = slot[f].completedEvent
      /\ \A x \in Slots : WorkKept(x) /\ (x # f => slot'[x] = slot[x])
  BY <1>1, <1>3, StateStep
<1>5. \A x \in Slots : slot'[x].completedEvent = slot[x].completedEvent /\ slot'[x].outstanding = slot[x].outstanding
  BY <1>4
<1>6. /\ caller' \in [Callers -> CallerType] /\ caller'[c] = [caller[c] EXCEPT !.pc = "idle"]
      /\ \A x \in Callers : x # c => caller'[x] = caller[x]
  BY <1>1, AdvanceStep
<1>7. caller'[c].pc = "idle" /\ CallerKept(c)
  BY <1>1, <1>6, AdvanceFields
<1>8. /\ pool' \in PoolType /\ pool'.enqueue = pool.enqueue /\ pool'.enqueueMutex = pool.enqueueMutex
      /\ pool'.running = pool.running /\ pool'.stopPending = pool.stopPending
  BY <1>1, Types DEF PoolType, DoWorkReturn
<1>9. TypeOK'
  BY <1>1, <1>4, <1>6, <1>8, Types, TypesNext
<1>10. Calling(c)
  BY <1>1 DEF IInv, CallInv, Calling
<1>11. \A s \in Slots : ~(Live(s) /\ slot[s].caller = c)
  BY <1>1 DEF IInv, FragmentInv
<1>12. caller[c].start > 0 /\ caller[c].left = 0 /\ Share(caller[c])
  BY <1>1, <1>10 DEF IInv, CallInv
<1>13. slot[f].state # "free" /\ slot[f].prf = "none" /\ slot[f].caller = c
  BY <1>2, <1>10, <1>12 DEF IInv, CallInv
<1>14. \A t \in Threads : thread[t].pc \in Active => thread[t].slot # f
  <2>1. \A t \in Threads : thread[t].pc \in Fragmenting => thread[t].slot # f
    BY <1>11, <1>13 DEF Live
  <2>2. \A t \in Threads : thread[t].pc \in Deriving => thread[t].slot # f
    BY <1>13 DEF IInv, ThreadInv, SlotOf
  <2>. QED  BY <2>1, <2>2 DEF Active
<1>15. slot[f].state # "ready"
  BY <1>11, <1>13 DEF Live
<1>16. \A x \in Callers :
          /\ caller'[x].prf = caller[x].prf /\ caller'[x].count = caller[x].count /\ caller'[x].left = caller[x].left
          /\ caller'[x].start = caller[x].start /\ caller'[x].first = caller[x].first /\ caller'[x].per = caller[x].per
          /\ caller'[x].remainder = caller[x].remainder
          /\ caller'[x].pc = (IF x = c THEN "idle" ELSE caller[x].pc)
  BY <1>6, <1>7 DEF CallerKept
<1>17. ~Calling(c)' /\ \A x \in Callers : x # c => (Calling(x)' <=> Calling(x))
  BY <1>16 DEF Calling
<1>18. \A t \in Threads : thread[t].slot \in Slots /\ slot[thread[t].slot].first \in Slots
  BY <1>1, Fields
<1>19. ThreadInv'
  BY <1>1, <1>4, <1>14, <1>18 DEF IInv, ThreadInv, SlotOf, WorkKept, Active, Fragmenting, Deriving
<1>20. MutexInv'
  <2>1. pool.running /\ ~pool.stopPending
    BY <1>1, InUse
  <2>. QED  BY <2>1, <1>1, <1>8, <1>16 DEF IInv, MutexInv, Holding
<1>21. CallInv'
  <2>1. \A x \in Callers : Calling(x) =>
              /\ Share(caller'[x])
              /\ caller[x].pc \in {"acquire", "first", "firstWait"} => caller[x].start = 0
              /\ caller[x].pc \in {"await", "return"} <=> caller[x].left = 0
              /\ caller[x].pc \in {"await", "return"} => caller[x].start > 0
              /\ caller[x].pc \in {"first", "firstWait", "put", "putWait"} /\ caller[x].start = 0 => caller[x].first = pool.enqueue
              /\ caller[x].pc \in {"put", "putWait"} /\ caller[x].start = 0 => slot[caller[x].first].state = "free"
              /\ caller[x].start > 0 =>
                   LET g == slot[caller[x].first] IN g.state # "free" /\ g.prf = "none" /\ g.caller = x /\ g.first = caller[x].first
    BY <1>16 DEF IInv, CallInv, Share, Rest
  <2>2. \A x \in Callers : Calling(x)' =>
              /\ caller'[x].pc \in {"acquire", "first", "firstWait"} => caller'[x].start = 0
              /\ caller'[x].pc \in {"await", "return"} <=> caller'[x].left = 0
              /\ caller'[x].pc \in {"await", "return"} => caller'[x].start > 0
              /\ caller'[x].pc \in {"first", "firstWait", "put", "putWait"} /\ caller'[x].start = 0 => caller'[x].first = pool.enqueue
    BY <2>1, <1>1, <1>16, <1>17
  <2>3. \A x \in Callers : caller[x].first \in Slots
    BY <1>1, Fields
  <2>4. \A x \in Callers : Calling(x)' /\ caller'[x].pc \in {"put", "putWait"} /\ caller'[x].start = 0 =>
              slot'[caller'[x].first].state = "free"
    BY <2>1, <2>3, <1>4, <1>16, <1>17
  <2>5. \A x \in Callers : Calling(x)' /\ caller'[x].start > 0 =>
             LET g == slot'[caller'[x].first] IN g.state # "free" /\ g.prf = "none" /\ g.caller = x /\ g.first = caller'[x].first
    <3>1. \A x \in Callers : Calling(x)' /\ caller'[x].start > 0 => x # c /\ caller[x].first # f
      BY <2>1, <1>13, <1>16, <1>17
    <3>. QED  BY <2>1, <2>3, <3>1, <1>4, <1>16, <1>17
  <2>6. \A x \in Callers : /\ caller'[x].pc \in {"idle", "first", "firstWait", "await", "return"} => caller'[x].prf = "none"
                           /\ caller'[x].pc = "clear" => caller'[x].prf # "none" /\ slot'[pool.enqueue].state = "free"
    BY <1>1, <1>4, <1>16, Fields DEF IInv, CallInv
  <2>. QED  BY <2>1, <2>2, <2>4, <2>5, <2>6, <1>1, <1>8, <1>17 DEF CallInv
<1>22. \A s \in Slots : Live(s)' <=> Live(s)
  BY <1>1, <1>4, <1>15 DEF Live, WorkKept
<1>23. FragmentInv'
  <2>1. \A s \in Slots : slot'[s].caller = slot[s].caller /\ slot'[s].first = slot[s].first
    BY <1>4 DEF WorkKept
  <2>. QED  BY <2>1, <1>1, <1>8, <1>11, <1>16, <1>17, <1>22 DEF IInv, FragmentInv
<1>24. \A x \in Callers : \A s \in Slots : (Awaited(x, s)' <=> Awaited(x, s)) /\ (Undone(x, s)' <=> Undone(x, s))
  BY <1>1, <1>4, <1>15 DEF Awaited, Undone, WorkKept
<1>25. \A x \in Callers : Uncounted(x)' = Uncounted(x)
  BY <1>24 DEF Uncounted
<1>26. CountInv'
  <2>1. \A x \in Callers : caller[x].first \in Slots
    BY <1>1, Fields
  <2>. QED  BY <2>1, <1>1, <1>5, <1>16, <1>17, <1>25 DEF IInv, CountInv
<1>27. EventInv'
  <2>1. \A x \in Slots : slot'[x].completedEvent =>
             /\ \E d \in Callers : Calling(d)' /\ caller'[d].pc = "await" /\ caller'[d].first = x
             /\ slot'[x].outstanding = 0
    <3>. SUFFICES ASSUME NEW x \in Slots, slot'[x].completedEvent
                  PROVE  /\ \E d \in Callers : Calling(d)' /\ caller'[d].pc = "await" /\ caller'[d].first = x
                         /\ slot'[x].outstanding = 0
      OBVIOUS
    <3>1. slot[x].completedEvent
      BY <1>5
    <3>2. PICK d \in Callers : Calling(d) /\ caller[d].pc = "await" /\ caller[d].first = x
      BY <3>1 DEF IInv, EventInv
    <3>3. slot[x].outstanding = 0
      BY <3>1 DEF IInv, EventInv
    <3>. QED  BY <3>2, <3>3, <1>1, <1>5, <1>16, <1>17
  <2>2. \A x \in Slots : slot'[x].first = slot[x].first
    BY <1>4 DEF WorkKept
  <2>3. \A t \in Threads : thread[t].pc = "signal" =>
           slot'[slot'[thread[t].slot].first].outstanding = 0 /\ ~slot'[slot'[thread[t].slot].first].completedEvent
    BY <2>2, <1>5, <1>18 DEF IInv, EventInv, SlotOf
  <2>4. \A t, t2 \in Threads : thread[t].pc = "signal" /\ thread[t2].pc = "signal" /\ t # t2 =>
           slot'[thread[t].slot].first # slot'[thread[t2].slot].first
    BY <2>2, <1>18 DEF IInv, EventInv, SlotOf
  <2>. QED  BY <2>1, <2>3, <2>4, <1>1 DEF EventInv, SlotOf
<1>28. Keys' = Keys
  <2>1. \A s \in Slots : Key(s)' <=> Key(s)
    BY <1>1, <1>4, <1>8, <1>13, <1>16 DEF Key, WorkKept
  <2>. QED  BY <2>1 DEF Keys
<1>29. KeyInv'
  BY <1>1, <1>28 DEF IInv, KeyInv
<1>30. DataInv'
  <2>1. caller[c].start = caller[c].count
    <3>1. /\ caller[c].per \in Nat /\ caller[c].remainder \in Nat /\ caller[c].start \in Nat /\ caller[c].count \in Nat
      BY <1>1, Fields
    <3>2. caller[c].remainder = 0
      BY <3>1, <1>12 DEF Share
    <3>3. Rest(caller[c]) = 0
      BY <3>1, <3>2, <1>12 DEF Rest
    <3>. QED  BY <3>1, <3>3, <1>12 DEF Share
  <2>2. \A s \in Slots : Undone(c, s) => Live(s) /\ slot[s].caller = c
    BY DEF Undone, Live, Fragmenting
  <2>3. \A u \in Units : data[c][u] = (IF u < caller[c].start /\ ~\E s \in Slots : Undone(c, s) /\ Covers(s, u) THEN 1 ELSE 0)
    BY <1>10 DEF IInv, DataInv
  <2>4. \A u \in Units : data[c][u] = (IF u < caller[c].count THEN 1 ELSE 0)
    BY <2>1, <2>2, <2>3, <1>11
  <2>. QED  BY <2>4, <1>1, <1>4, <1>16, <1>17, <1>24 DEF IInv, DataInv, Covers, WorkKept
<1>. QED  BY <1>9, <1>19, <1>20, <1>21, <1>23, <1>26, <1>27, <1>29, <1>30 DEF IInv

LEMMA BeginCountStep ==
    ASSUME IInv, NEW c \in Callers, BeginCount(c)
    PROVE  IInv'
<1>1. TypeOK /\ caller[c].pc = "put" /\ caller[c].prf # "none" /\ UNCHANGED <<pool, slot, thread, data>> /\ Advance(c, "clear")
  BY DEF IInv, BeginCount, In
<1>2. PICK e \in Slots : e = pool.enqueue /\ slot[e].state = "free"
  BY <1>1, Fields DEF BeginCount
<1>3. PICK n \in Nat : n = report.outstanding + 1
  BY <1>1, Fields
<1>4. report' = [report EXCEPT !.outstanding = n]
  BY <1>3 DEF BeginCount
<1>5. report' \in ReportType /\ report'.outstanding = n
  BY <1>1, <1>4, Types DEF ReportType
<1>6. /\ caller' \in [Callers -> CallerType] /\ caller'[c] = [caller[c] EXCEPT !.pc = "clear"]
      /\ \A x \in Callers : x # c => caller'[x] = caller[x]
  BY <1>1, AdvanceStep
<1>7. caller'[c].pc = "clear" /\ CallerKept(c)
  BY <1>1, <1>6, AdvanceFields
<1>8. TypeOK'
  BY <1>1, <1>5, <1>6, Types, TypesNext
<1>9. ~Calling(c) /\ ~Calling(c)'
  BY <1>1, <1>7 DEF Calling, CallerKept
<1>10. \A x \in Callers : x # c => (Calling(x)' <=> Calling(x))
  BY <1>6 DEF Calling
<1>11. ThreadInv'
  BY <1>1 DEF IInv, ThreadInv, SlotOf
<1>12. MutexInv'
  <2>1. pool.running /\ ~pool.stopPending
    BY <1>1, InUse
  <2>. QED  BY <2>1, <1>1, <1>6, <1>7 DEF IInv, MutexInv, Holding
<1>13. CallInv'
  BY <1>1, <1>2, <1>6, <1>7, <1>9, OthersCall DEF CallerKept
<1>14. \A s \in Slots : Live(s)' <=> Live(s)
  BY <1>1 DEF Live
<1>15. FragmentInv'
  BY <1>1, <1>6, <1>9, <1>10, <1>14 DEF IInv, FragmentInv
<1>16. \A x \in Callers : \A s \in Slots : (Awaited(x, s)' <=> Awaited(x, s)) /\ (Undone(x, s)' <=> Undone(x, s))
  BY <1>1 DEF Awaited, Undone
<1>17. \A x \in Callers : Uncounted(x)' = Uncounted(x)
  BY <1>16 DEF Uncounted
<1>18. CountInv'
  BY <1>1, <1>6, <1>9, <1>10, <1>17 DEF IInv, CountInv
<1>19. EventInv'
  BY <1>1, <1>6, <1>9, <1>10 DEF IInv, EventInv, SlotOf
<1>20. KeyInv'
  <2>1. pool.enqueueMutex = c
    BY <1>1 DEF IInv, MutexInv, Holding
  <2>2. \A x \in Callers : caller[x].pc # "clear"
    BY <1>1, <2>1, MutexOfCaller DEF Holding
  <2>3. \A t \in Threads : thread[t].pc \in Active => thread[t].slot # e
    BY <1>2, EnqueueSlotIdle
  <2>4. ~Key(e)
    BY <1>2, <2>2, <2>3 DEF Key, Active, Deriving
  <2>5. \A s \in Slots : Key(s)' <=> Key(s) \/ s = e
    BY <1>1, <1>2, <1>7, <2>2 DEF Key
  <2>6. Keys' = Keys \cup {e} /\ e \notin Keys
    BY <2>4, <2>5 DEF Keys
  <2>7. IsFiniteSet(Keys)
    BY SlotsAndUnits, FS_Subset DEF Keys
  <2>8. Cardinality(Keys \cup {e}) = Cardinality(Keys) + 1
    BY <2>6, <2>7, FS_AddElement
  <2>. QED  BY <1>3, <1>5, <2>6, <2>8 DEF IInv, KeyInv
<1>21. DataInv'
  <2>1. \A x \in Callers : caller'[x].count = caller[x].count /\ caller'[x].start = caller[x].start
    BY <1>6, <1>7 DEF CallerKept
  <2>2. \A x \in Callers : Calling(x)' <=> Calling(x)
    BY <1>9, <1>10
  <2>. QED  BY <2>1, <2>2, <1>1, <1>16 DEF IInv, DataInv, Covers
<1>. QED  BY <1>8, <1>11, <1>12, <1>13, <1>15, <1>18, <1>19, <1>20, <1>21 DEF IInv

(* The slot filled last: what is left in it of the counter and the event of its former call stays *)
LEMMA FilledPool ==
    ASSUME TypeOK, NEW c \in Callers, pool.enqueueMutex = c, NEW last, NEW record, MakeReady(c, record, last)
    PROVE  /\ pool' \in PoolType /\ pool'.enqueue = Following(pool.enqueue)
           /\ pool'.enqueueMutex \in {c, "none"} /\ (pool'.enqueueMutex = "none" <=> last)
           /\ pool'.running = pool.running /\ pool'.stopPending = pool.stopPending
           /\ slot' = [slot EXCEPT ![pool.enqueue] = record]
<1>1. Following(pool.enqueue) \in Slots
  BY Fields, SlotsAndUnits
<1>2. "none" \notin Callers
  BY PoolAssumption
<1>3. CASE last
  <2>1. pool' = [pool EXCEPT !.enqueue = Following(pool.enqueue), !.readyEvent = TRUE, !.enqueueMutex = "none"]
    BY <1>3 DEF MakeReady
  <2>. QED  BY <1>1, <1>2, <1>3, <2>1, Types DEF PoolType, MakeReady
<1>4. CASE ~last
  <2>1. pool' = [pool EXCEPT !.enqueue = Following(pool.enqueue), !.readyEvent = TRUE, !.enqueueMutex = pool.enqueueMutex]
    BY <1>4 DEF MakeReady
  <2>. QED  BY <1>1, <1>2, <1>4, <2>1, Types DEF PoolType, MakeReady
<1>. QED  BY <1>3, <1>4

LEMMA FragmentPut ==
    ASSUME TypeOK, NEW e \in Slots, NEW c \in Callers, NEW start \in Nat, NEW count \in Nat, NEW first \in Slots,
           slot' = [slot EXCEPT ![e] = [slot[e] EXCEPT !.state = "ready", !.caller = c, !.prf = "none",
                                                       !.start = start, !.count = count, !.first = first]]
    PROVE  /\ slot' \in [Slots -> SlotType]
           /\ slot'[e].state = "ready" /\ slot'[e].caller = c /\ slot'[e].prf = "none" /\ slot'[e].start = start
           /\ slot'[e].count = count /\ slot'[e].first = first
           /\ slot'[e].outstanding = slot[e].outstanding /\ slot'[e].completedEvent = slot[e].completedEvent
           /\ \A x \in Slots : x # e => slot'[x] = slot[x]
<1>1. slot \in [Slots -> SlotType]
  BY Types
<1>2. PICK r : r = [slot[e] EXCEPT !.state = "ready", !.caller = c, !.prf = "none", !.start = start, !.count = count, !.first = first]
  OBVIOUS
<1>3. /\ r \in SlotType /\ r.state = "ready" /\ r.caller = c /\ r.prf = "none" /\ r.start = start /\ r.count = count /\ r.first = first
      /\ r.outstanding = slot[e].outstanding /\ r.completedEvent = slot[e].completedEvent
  <2>1. slot[e] \in SlotType
    BY <1>1
  <2>. QED  BY <1>2, <2>1 DEF SlotType
<1>4. slot' = [slot EXCEPT ![e] = r]
  BY <1>2
<1>. QED  BY <1>1, <1>3, <1>4

LEMMA DerivationPut ==
    ASSUME TypeOK, NEW e \in Slots, NEW c \in Callers, NEW prf \in Prfs,
           slot' = [slot EXCEPT ![e] = [slot[e] EXCEPT !.state = "ready", !.caller = c, !.prf = prf]]
    PROVE  /\ slot' \in [Slots -> SlotType]
           /\ slot'[e].state = "ready" /\ slot'[e].prf = prf
           /\ slot'[e].outstanding = slot[e].outstanding /\ slot'[e].completedEvent = slot[e].completedEvent
           /\ \A x \in Slots : x # e => slot'[x] = slot[x]
<1>1. slot \in [Slots -> SlotType]
  BY Types
<1>2. PICK r : r = [slot[e] EXCEPT !.state = "ready", !.caller = c, !.prf = prf]
  OBVIOUS
<1>3. /\ r \in SlotType /\ r.state = "ready" /\ r.prf = prf
      /\ r.outstanding = slot[e].outstanding /\ r.completedEvent = slot[e].completedEvent
  <2>1. slot[e] \in SlotType
    BY <1>1
  <2>. QED  BY <1>2, <2>1 DEF SlotType
<1>4. slot' = [slot EXCEPT ![e] = r]
  BY <1>2
<1>. QED  BY <1>1, <1>3, <1>4

(* Filling a slot leaves the work in all others as it is *)
LEMMA RingFilled ==
    ASSUME IInv, TypeOK', NEW e \in Slots, e = pool.enqueue, slot[e].state = "free", thread' = thread, pool'.enqueue = Following(e),
           slot'[e].state = "ready", slot'[e].outstanding = slot[e].outstanding, slot'[e].completedEvent = slot[e].completedEvent,
           \A x \in Slots : x # e => slot'[x] = slot[x]
    PROVE  /\ ThreadInv'
           /\ \A s \in Slots : s # e => (Live(s)' <=> Live(s)) /\ (Live(s) => After(pool'.enqueue, s, slot[s].first))
           /\ \A c \in Callers : \A s \in Slots : s # e => (Awaited(c, s)' <=> Awaited(c, s)) /\ (Undone(c, s)' <=> Undone(c, s))
           /\ \A s \in Slots : slot'[s].outstanding = slot[s].outstanding /\ slot'[s].completedEvent = slot[s].completedEvent
           /\ \A t \in Threads : thread[t].pc \in Active => thread[t].slot # e
           /\ \A t \in Threads : thread'[t].pc = "signal" =>
                 slot'[slot'[thread'[t].slot].first].outstanding = 0 /\ ~slot'[slot'[thread'[t].slot].first].completedEvent
           /\ \A t, t2 \in Threads : thread'[t].pc = "signal" /\ thread'[t2].pc = "signal" /\ t # t2 =>
                 slot'[thread'[t].slot].first # slot'[thread'[t2].slot].first
<1>1. /\ \A t \in Threads : thread[t].pc \in Active => thread[t].slot # e
      /\ \A s \in Slots : Live(s) => After(Following(e), s, slot[s].first)
  BY EnqueueSlotIdle
<1>2. \A t \in Threads : thread[t].slot \in Slots /\ slot[thread[t].slot].first \in Slots
  BY Fields DEF IInv
<1>3. \A t \in Threads : thread[t].pc \in Active => slot'[thread[t].slot] = slot[thread[t].slot]
  BY <1>1, <1>2
<1>4. ThreadInv'
  BY <1>3 DEF IInv, ThreadInv, SlotOf, Active, Fragmenting, Deriving
<1>5. \A s \in Slots : s # e => (Live(s)' <=> Live(s))
  BY DEF Live
<1>6. \A c \in Callers : \A s \in Slots : s # e => (Awaited(c, s)' <=> Awaited(c, s)) /\ (Undone(c, s)' <=> Undone(c, s))
  BY DEF Awaited, Undone
<1>7. \A s \in Slots : slot'[s].outstanding = slot[s].outstanding /\ slot'[s].completedEvent = slot[s].completedEvent
  OBVIOUS
<1>8. \A t \in Threads : thread[t].pc = "signal" => slot'[thread[t].slot].first = slot[thread[t].slot].first
  BY <1>3 DEF Active, Fragmenting
<1>9. \A t \in Threads : thread'[t].pc = "signal" =>
         slot'[slot'[thread'[t].slot].first].outstanding = 0 /\ ~slot'[slot'[thread'[t].slot].first].completedEvent
  BY <1>2, <1>7, <1>8 DEF IInv, EventInv, SlotOf
<1>10. \A t, t2 \in Threads : thread'[t].pc = "signal" /\ thread'[t2].pc = "signal" /\ t # t2 =>
         slot'[thread'[t].slot].first # slot'[thread'[t2].slot].first
  BY <1>8 DEF IInv, EventInv, SlotOf
<1>. QED  BY <1>1, <1>4, <1>5, <1>6, <1>7, <1>9, <1>10

LEMMA BeginReadyStep ==
    ASSUME IInv, NEW c \in Callers, BeginReady(c)
    PROVE  IInv'
<1>1. /\ TypeOK /\ caller[c].pc = "clear" /\ UNCHANGED <<thread, data>>
      /\ report' = [report EXCEPT !.noOutstandingEvent = FALSE]
      /\ MakeReady(c, [slot[pool.enqueue] EXCEPT !.state = "ready", !.caller = c, !.prf = caller[c].prf], TRUE)
      /\ caller' = [caller EXCEPT ![c].pc = "idle", ![c].prf = "none"]
  BY DEF IInv, BeginReady, In
<1>2. PICK e \in Slots : e = pool.enqueue
  BY <1>1, Fields
<1>3. slot[e].state = "free"
  BY <1>1, <1>2 DEF IInv, CallInv
<1>4. PICK prf \in Prfs : prf = caller[c].prf
  BY <1>1, Fields DEF IInv, CallInv
<1>5. pool.enqueueMutex = c /\ \A x \in Callers : x # c => caller[x].pc \notin Holding
  BY <1>1, MutexOfCaller DEF IInv, MutexInv, Holding
<1>6. /\ pool' \in PoolType /\ pool'.enqueue = Following(e) /\ pool'.enqueueMutex = "none"
      /\ pool'.running = pool.running /\ pool'.stopPending = pool.stopPending
      /\ slot' = [slot EXCEPT ![e] = [slot[e] EXCEPT !.state = "ready", !.caller = c, !.prf = prf]]
  BY <1>1, <1>2, <1>4, <1>5, FilledPool
<1>7. /\ slot' \in [Slots -> SlotType]
      /\ slot'[e].state = "ready" /\ slot'[e].prf = prf
      /\ slot'[e].outstanding = slot[e].outstanding /\ slot'[e].completedEvent = slot[e].completedEvent
      /\ \A x \in Slots : x # e => slot'[x] = slot[x]
  BY <1>1, <1>6, DerivationPut
<1>8. /\ caller' \in [Callers -> CallerType] /\ caller'[c].pc = "idle" /\ caller'[c].prf = "none"
      /\ caller'[c].count = caller[c].count /\ \A x \in Callers : x # c => caller'[x] = caller[x]
  BY ZenonT(60), <1>1, Types DEF CallerType
<1>9. report' \in ReportType /\ report'.outstanding = report.outstanding
  BY <1>1, Types DEF ReportType
<1>10. TypeOK'
  BY <1>1, <1>6, <1>7, <1>8, <1>9, Types, TypesNext
<1>11. /\ ThreadInv'
       /\ \A s \in Slots : s # e => (Live(s)' <=> Live(s)) /\ (Live(s) => After(pool'.enqueue, s, slot[s].first))
       /\ \A x \in Callers : \A s \in Slots : s # e => (Awaited(x, s)' <=> Awaited(x, s)) /\ (Undone(x, s)' <=> Undone(x, s))
       /\ \A s \in Slots : slot'[s].outstanding = slot[s].outstanding /\ slot'[s].completedEvent = slot[s].completedEvent
       /\ \A t \in Threads : thread[t].pc \in Active => thread[t].slot # e
       /\ \A t \in Threads : thread'[t].pc = "signal" =>
             slot'[slot'[thread'[t].slot].first].outstanding = 0 /\ ~slot'[slot'[thread'[t].slot].first].completedEvent
       /\ \A t, t2 \in Threads : thread'[t].pc = "signal" /\ thread'[t2].pc = "signal" /\ t # t2 =>
             slot'[thread'[t].slot].first # slot'[thread'[t2].slot].first
  BY <1>1, <1>2, <1>3, <1>6, <1>7, <1>10, RingFilled
<1>12. ~Live(e) /\ ~slot[e].completedEvent
       /\ (\A x \in Callers : ~Awaited(x, e) /\ ~Undone(x, e))
       /\ (\A x \in Callers : Calling(x) /\ caller[x].start > 0 => caller[x].first # e)
  BY <1>2, <1>3, EnqueueSlotIdle
<1>13. prf # "none"
  BY PoolAssumption
<1>14. ~Live(e)' /\ \A x \in Callers : ~Awaited(x, e)' /\ ~Undone(x, e)'
  BY <1>1, <1>7, <1>11, <1>13 DEF Live, Awaited, Undone, Active
<1>15. ~Calling(c) /\ ~Calling(c)' /\ \A x \in Callers : x # c => (Calling(x)' <=> Calling(x))
  BY <1>4, <1>8, <1>13 DEF Calling
<1>16. MutexInv'
  <2>1. pool.running /\ ~pool.stopPending
    BY <1>1, InUse
  <2>2. "none" \notin Callers
    BY PoolAssumption
  <2>. QED  BY <2>1, <2>2, <1>1, <1>5, <1>6, <1>8 DEF IInv, MutexInv, Holding
<1>17. CallInv'
  <2>1. \A x \in Callers : /\ caller'[x].pc \in {"idle", "first", "firstWait", "await", "return"} => caller'[x].prf = "none"
                           /\ caller'[x].pc # "clear"
    BY <1>5, <1>8 DEF IInv, CallInv, Holding
  <2>2. \A x \in Callers : x # c /\ Calling(x) =>
              /\ Share(caller'[x])
              /\ caller'[x].pc \in {"acquire", "first", "firstWait"} => caller'[x].start = 0
              /\ caller'[x].pc \in {"await", "return"} <=> caller'[x].left = 0
              /\ caller'[x].pc \in {"await", "return"} => caller'[x].start > 0
              /\ caller'[x].pc \notin {"first", "firstWait", "put", "putWait"}
    BY <1>5, <1>8 DEF IInv, CallInv, Holding
  <2>3. \A x \in Callers : x # c /\ Calling(x) /\ caller'[x].start > 0 =>
           LET f == slot'[caller'[x].first] IN f.state # "free" /\ f.prf = "none" /\ f.caller = x /\ f.first = caller'[x].first
    <3>1. \A x \in Callers : caller[x].first \in Slots
      BY <1>1, Fields
    <3>2. \A x \in Callers : x # c /\ Calling(x) /\ caller'[x].start > 0 => slot'[caller[x].first] = slot[caller[x].first]
      BY <3>1, <1>7, <1>8, <1>12
    <3>. QED  BY <3>2, <1>8 DEF IInv, CallInv
  <2>. QED  BY <2>1, <2>2, <2>3, <1>15 DEF CallInv
<1>18. FragmentInv'
  <2>. SUFFICES ASSUME NEW s \in Slots, Live(s)'
                PROVE  \E d \in Callers :
                       /\ d = slot'[s].caller /\ caller'[d].prf = "none" /\ caller'[d].pc \in {"put", "putWait", "await"}
                       /\ caller'[d].start > 0 /\ slot'[s].first = caller'[d].first
                       /\ After(pool'.enqueue, s, slot'[s].first)
    BY DEF FragmentInv, Calling
  <2>1. s # e /\ Live(s) /\ slot'[s] = slot[s] /\ After(pool'.enqueue, s, slot[s].first)
    BY <1>7, <1>11, <1>14
  <2>2. PICK d \in Callers : /\ d = slot[s].caller /\ Calling(d) /\ caller[d].pc \in {"put", "putWait", "await"} /\ caller[d].start > 0
                             /\ slot[s].first = caller[d].first
    BY <2>1 DEF IInv, FragmentInv
  <2>3. d # c
    BY <2>2, <1>15
  <2>. QED  BY <2>1, <2>2, <2>3, <1>8, <1>15 DEF Calling
<1>19. \A x \in Callers : \A s \in Slots : (Awaited(x, s)' <=> Awaited(x, s)) /\ (Undone(x, s)' <=> Undone(x, s))
  BY <1>11, <1>12, <1>14
<1>20. \A x \in Callers : Uncounted(x)' = Uncounted(x)
  BY <1>19 DEF Uncounted
<1>21. CountInv'
  <2>1. \A x \in Callers : caller[x].first \in Slots
    BY <1>1, Fields
  <2>. QED  BY <2>1, <1>8, <1>11, <1>15, <1>20 DEF IInv, CountInv
<1>22. EventInv'
  <2>1. \A x \in Slots : slot'[x].completedEvent =>
             /\ \E d \in Callers : Calling(d)' /\ caller'[d].pc = "await" /\ caller'[d].first = x
             /\ slot'[x].outstanding = 0
    <3>. SUFFICES ASSUME NEW x \in Slots, slot'[x].completedEvent
                  PROVE  /\ \E d \in Callers : Calling(d)' /\ caller'[d].pc = "await" /\ caller'[d].first = x
                         /\ slot'[x].outstanding = 0
      OBVIOUS
    <3>1. slot[x].completedEvent
      BY <1>11
    <3>2. PICK d \in Callers : Calling(d) /\ caller[d].pc = "await" /\ caller[d].first = x
      BY <3>1 DEF IInv, EventInv
    <3>3. slot[x].outstanding = 0
      BY <3>1 DEF IInv, EventInv
    <3>. QED  BY <3>2, <3>3, <1>8, <1>11, <1>15
  <2>. QED  BY <2>1, <1>11 DEF EventInv, SlotOf
<1>23. KeyInv'
  <2>1. \A x \in Callers : caller'[x].pc # "clear"
    BY <1>5, <1>8 DEF Holding
  <2>2. Key(e)' /\ Key(e)
    BY <1>1, <1>2, <1>7, <1>13 DEF Key
  <2>3. \A s \in Slots : s # e => (Key(s)' <=> Key(s))
    BY <2>1, <1>1, <1>2, <1>7 DEF Key
  <2>4. Keys' = Keys
    BY <2>2, <2>3 DEF Keys
  <2>. QED  BY <2>4, <1>9 DEF IInv, KeyInv
<1>24. DataInv'
  <2>1. \A x \in Callers : x # c => caller'[x].count = caller[x].count /\ caller'[x].start = caller[x].start
    BY <1>8
  <2>2. \A s \in Slots : s # e => slot'[s].start = slot[s].start /\ slot'[s].count = slot[s].count
    BY <1>7
  <2>. SUFFICES ASSUME NEW x \in Callers
                PROVE  /\ ~Calling(x)' => \A u \in Units : data[x][u] = (IF u < caller'[x].count THEN 1 ELSE 0)
                       /\ Calling(x)' =>
                            /\ \A u \in Units : data[x][u] =
                                  (IF u < caller'[x].start /\ ~\E s \in Slots : Undone(x, s)' /\ Covers(s, u)' THEN 1 ELSE 0)
                            /\ \A s \in Slots : Undone(x, s)' => slot'[s].start + slot'[s].count <= caller'[x].start
                            /\ \A s, s2 \in Slots : Undone(x, s)' /\ Undone(x, s2)' /\ s # s2 =>
                                  slot'[s].start + slot'[s].count <= slot'[s2].start \/ slot'[s2].start + slot'[s2].count <= slot'[s].start
    BY <1>1 DEF DataInv
  <2>3. ~Calling(x)' => \A u \in Units : data[x][u] = (IF u < caller'[x].count THEN 1 ELSE 0)
    BY <2>1, <1>8, <1>15 DEF IInv, DataInv
  <2>4. ASSUME Calling(x)'
        PROVE  /\ \A u \in Units : data[x][u] =
                     (IF u < caller'[x].start /\ ~\E s \in Slots : Undone(x, s)' /\ Covers(s, u)' THEN 1 ELSE 0)
               /\ \A s \in Slots : Undone(x, s)' => slot'[s].start + slot'[s].count <= caller'[x].start
               /\ \A s, s2 \in Slots : Undone(x, s)' /\ Undone(x, s2)' /\ s # s2 =>
                     slot'[s].start + slot'[s].count <= slot'[s2].start \/ slot'[s2].start + slot'[s2].count <= slot'[s].start
    <3>1. x # c /\ Calling(x)
      BY <2>4, <1>15
    <3>2. \A s \in Slots : Undone(x, s)' <=> Undone(x, s) /\ s # e
      BY <1>12, <1>19
    <3>3. \A u \in Units : (\E s \in Slots : Undone(x, s)' /\ Covers(s, u)') <=> \E s \in Slots : Undone(x, s) /\ Covers(s, u)
      BY <2>2, <3>2, <1>12 DEF Covers
    <3>. QED  BY <2>1, <2>2, <3>1, <3>2, <3>3 DEF IInv, DataInv
  <2>. QED  BY <2>3, <2>4
<1>. QED  BY <1>10, <1>11, <1>16, <1>17, <1>18, <1>21, <1>22, <1>23, <1>24 DEF IInv

LEMMA DoWorkPutStep ==
    ASSUME IInv, NEW c \in Callers, DoWorkPut(c)
    PROVE  IInv'
<1>1. PICK x : x = caller[c]
  OBVIOUS
<1>2. TypeOK /\ caller[c].pc = "put" /\ caller[c].prf = "none" /\ UNCHANGED <<thread, data, report>>
  BY DEF IInv, DoWorkPut, In
<1>3. PICK e \in Slots : e = pool.enqueue /\ slot[e].state = "free"
  BY <1>2, Fields DEF DoWorkPut
<1>4. Calling(c) /\ Share(x) /\ x.left # 0 /\ (x.start = 0 => x.first = e)
  BY <1>1, <1>2, <1>3 DEF IInv, CallInv, Calling
<1>5. /\ x.left \in Nat \ {0} /\ x.per \in Nat /\ x.remainder \in Nat /\ x.start \in Nat /\ x.count \in Nat /\ x.first \in Slots
      /\ x \in CallerType
  BY <1>1, <1>2, <1>4, Fields, Types
<1>6. PICK left, start, remainder, per, pc :
         /\ left = x.left - 1 /\ start = x.start + x.per
         /\ remainder = (IF x.remainder > 0 THEN x.remainder - 1 ELSE 0)
         /\ per = (IF x.remainder > 0 /\ remainder = 0 THEN x.per - 1 ELSE x.per)
         /\ pc = (IF x.left = 1 THEN "await" ELSE "put")
  OBVIOUS
<1>7. /\ caller' = [caller EXCEPT ![c].left = left, ![c].start = start, ![c].remainder = remainder, ![c].per = per, ![c].pc = pc]
      /\ MakeReady(c, [slot[e] EXCEPT !.state = "ready", !.caller = c, !.prf = "none",
                                      !.start = x.start, !.count = x.per, !.first = x.first], x.left = 1)
  BY <1>1, <1>3, <1>6 DEF DoWorkPut
<1>8. PICK y : y = [x EXCEPT !.left = left, !.start = start, !.remainder = remainder, !.per = per, !.pc = pc]
  OBVIOUS
<1>9. left \in Nat /\ start \in Nat \ {0} /\ per \in Nat /\ remainder \in Nat
      /\ \A z : z.count = x.count /\ z.start = start /\ z.left = left /\ z.remainder = remainder /\ z.per = per => Share(z)
  <2>1. PICK z : z = [count |-> x.count, start |-> start, left |-> left, remainder |-> remainder, per |-> per]
    OBVIOUS
  <2>2. z.count = x.count /\ z.start = start /\ z.left = left /\ z.remainder = remainder /\ z.per = per
    BY <2>1
  <2>3. left \in Nat /\ start \in Nat \ {0} /\ per \in Nat /\ remainder \in Nat
    BY <2>2, <1>4, <1>5, <1>6, ShareOfRest
  <2>4. \A r : r.count = x.count /\ r.start = start /\ r.left = left /\ r.remainder = remainder /\ r.per = per => Share(r)
    BY <1>4, <1>5, <1>6, ShareOfRest
  <2>. QED  BY <2>3, <2>4
<1>10. /\ y \in CallerType /\ y.left = left /\ y.start = start /\ y.remainder = remainder /\ y.per = per /\ y.pc = pc
      /\ y.prf = x.prf /\ y.count = x.count /\ y.first = x.first
  <2>1. pc \in {"put", "await"}
    BY <1>6
  <2>. QED  BY <2>1, <1>5, <1>8, <1>9 DEF CallerType
<1>11. caller' \in [Callers -> CallerType] /\ caller'[c] = y /\ \A d \in Callers : d # c => caller'[d] = caller[d]
  <2>1. caller' = [caller EXCEPT ![c] = y]
    BY <1>1, <1>2, <1>7, <1>8, Types
  <2>. QED  BY <1>2, <1>10, <2>1, CallerAssigned
<1>12. pool.enqueueMutex = c /\ \A d \in Callers : d # c => caller[d].pc \notin Holding
  BY <1>2, MutexOfCaller DEF IInv, MutexInv, Holding
<1>13. /\ pool' \in PoolType /\ pool'.enqueue = Following(e)
       /\ pool'.enqueueMutex \in {c, "none"} /\ (pool'.enqueueMutex = "none" <=> x.left = 1)
       /\ pool'.running = pool.running /\ pool'.stopPending = pool.stopPending
       /\ slot' = [slot EXCEPT ![e] = [slot[e] EXCEPT !.state = "ready", !.caller = c, !.prf = "none",
                                                      !.start = x.start, !.count = x.per, !.first = x.first]]
  BY <1>2, <1>3, <1>7, <1>12, FilledPool
<1>14. /\ slot' \in [Slots -> SlotType]
       /\ slot'[e].state = "ready" /\ slot'[e].caller = c /\ slot'[e].prf = "none" /\ slot'[e].start = x.start
       /\ slot'[e].count = x.per /\ slot'[e].first = x.first
       /\ slot'[e].outstanding = slot[e].outstanding /\ slot'[e].completedEvent = slot[e].completedEvent
       /\ \A s \in Slots : s # e => slot'[s] = slot[s]
  BY <1>2, <1>5, <1>13, FragmentPut
<1>15. TypeOK'
  BY <1>2, <1>11, <1>13, <1>14, Types, TypesNext
<1>16. /\ ThreadInv'
       /\ \A s \in Slots : s # e => (Live(s)' <=> Live(s)) /\ (Live(s) => After(pool'.enqueue, s, slot[s].first))
       /\ \A d \in Callers : \A s \in Slots : s # e => (Awaited(d, s)' <=> Awaited(d, s)) /\ (Undone(d, s)' <=> Undone(d, s))
       /\ \A s \in Slots : slot'[s].outstanding = slot[s].outstanding /\ slot'[s].completedEvent = slot[s].completedEvent
       /\ \A t \in Threads : thread[t].pc \in Active => thread[t].slot # e
       /\ \A t \in Threads : thread'[t].pc = "signal" =>
             slot'[slot'[thread'[t].slot].first].outstanding = 0 /\ ~slot'[slot'[thread'[t].slot].first].completedEvent
       /\ \A t, t2 \in Threads : thread'[t].pc = "signal" /\ thread'[t2].pc = "signal" /\ t # t2 =>
             slot'[thread'[t].slot].first # slot'[thread'[t2].slot].first
  BY <1>2, <1>3, <1>13, <1>14, <1>15, RingFilled
<1>17. ~Live(e) /\ ~slot[e].completedEvent
       /\ (\A d \in Callers : ~Awaited(d, e) /\ ~Undone(d, e))
       /\ (\A d \in Callers : Calling(d) /\ caller[d].start > 0 => caller[d].first # e)
  BY <1>3, EnqueueSlotIdle
<1>18. \A d \in Callers : d # c => ~Awaited(d, e)' /\ ~Undone(d, e)'
  BY <1>14 DEF Awaited, Undone
<1>19. Awaited(c, e)' /\ Undone(c, e)'
  BY <1>14 DEF Awaited, Undone
<1>20. (pc = "await" /\ left = 0) \/ (pc = "put" /\ left # 0)
  <2>1. CASE x.left = 1
    <3>1. left = 0
      BY <2>1, <1>5, <1>6
    <3>2. pc = "await"
      BY <2>1, <1>6, Zenon
    <3>. QED  BY <3>1, <3>2
  <2>2. CASE x.left # 1
    BY <2>2, <1>5, <1>6
  <2>. QED  BY <2>1, <2>2
<1>21. \A d \in Callers : Calling(d)' <=> Calling(d)
  BY <1>2, <1>4, <1>10, <1>11, <1>1, <1>20 DEF Calling
<1>22. MutexInv'
  <2>1. pool.running /\ ~pool.stopPending
    BY <1>2, InUse
  <2>2. "none" \notin Callers
    BY PoolAssumption
  <2>3. x.left = 1 <=> pc = "await"
    BY <1>6
  <2>. QED  BY <2>1, <2>2, <2>3, <1>2, <1>10, <1>11, <1>12, <1>13, <1>20 DEF IInv, MutexInv, Holding
<1>23. CallInv'
  <2>1. \A d \in Callers : /\ caller'[d].pc \in {"idle", "first", "firstWait", "await", "return"} => caller'[d].prf = "none"
                           /\ caller'[d].pc # "clear"
    BY <1>2, <1>10, <1>11, <1>12, <1>1, <1>20 DEF IInv, CallInv, Holding
  <2>2. \A d \in Callers : d # c /\ Calling(d) =>
              /\ Share(caller'[d])
              /\ caller'[d].pc \in {"acquire", "first", "firstWait"} => caller'[d].start = 0
              /\ caller'[d].pc \in {"await", "return"} <=> caller'[d].left = 0
              /\ caller'[d].pc \in {"await", "return"} => caller'[d].start > 0
              /\ caller'[d].pc \notin {"first", "firstWait", "put", "putWait"}
    BY <1>11, <1>12 DEF IInv, CallInv, Holding
  <2>3. \A d \in Callers : d # c /\ Calling(d) /\ caller'[d].start > 0 =>
           LET f == slot'[caller'[d].first] IN f.state # "free" /\ f.prf = "none" /\ f.caller = d /\ f.first = caller'[d].first
    <3>1. \A d \in Callers : caller[d].first \in Slots
      BY <1>2, Fields
    <3>2. \A d \in Callers : d # c /\ Calling(d) /\ caller'[d].start > 0 => slot'[caller[d].first] = slot[caller[d].first]
      BY <3>1, <1>11, <1>14, <1>17
    <3>. QED  BY <3>2, <1>11 DEF IInv, CallInv
  <2>4. /\ Share(caller'[c]) /\ caller'[c].start > 0 /\ caller'[c].pc \in {"put", "await"}
        /\ caller'[c].pc = "await" <=> caller'[c].left = 0
    BY <1>9, <1>10, <1>11, <1>20
  <2>5. LET f == slot'[caller'[c].first] IN f.state # "free" /\ f.prf = "none" /\ f.caller = c /\ f.first = caller'[c].first
    <3>1. CASE x.start = 0
      BY <3>1, <1>4, <1>10, <1>11, <1>14
    <3>2. CASE x.start # 0
      <4>1. x.start > 0
        BY <3>2, <1>5
      <4>2. x.first # e
        BY <4>1, <1>4, <1>17, <1>1
      <4>3. LET f == slot[x.first] IN f.state # "free" /\ f.prf = "none" /\ f.caller = c /\ f.first = x.first
        BY <4>1, <1>4, <1>1 DEF IInv, CallInv
      <4>. QED  BY <4>2, <4>3, <1>5, <1>10, <1>11, <1>14
    <3>. QED  BY <3>1, <3>2
  <2>. QED  BY <2>1, <2>2, <2>3, <2>4, <2>5, <1>21 DEF CallInv
<1>24. FragmentInv'
  <2>. SUFFICES ASSUME NEW s \in Slots, Live(s)'
                PROVE  \E d \in Callers :
                       /\ d = slot'[s].caller /\ caller'[d].prf = "none" /\ caller'[d].pc \in {"put", "putWait", "await"}
                       /\ caller'[d].start > 0 /\ slot'[s].first = caller'[d].first
                       /\ After(pool'.enqueue, s, slot'[s].first)
    BY DEF FragmentInv, Calling
  <2>1. CASE s = e
    <3>1. After(pool'.enqueue, e, x.first)
      BY <1>5, <1>13, AfterFollowing
    <3>. QED  BY <2>1, <3>1, <1>2, <1>9, <1>10, <1>11, <1>14, <1>1, <1>20
  <2>2. CASE s # e
    <3>1. Live(s) /\ slot'[s] = slot[s] /\ After(pool'.enqueue, s, slot[s].first)
      BY <2>2, <1>14, <1>16
    <3>2. PICK d \in Callers : /\ d = slot[s].caller /\ Calling(d) /\ caller[d].pc \in {"put", "putWait", "await"}
                               /\ caller[d].start > 0 /\ slot[s].first = caller[d].first
      BY <3>1 DEF IInv, FragmentInv
    <3>. QED  BY <3>1, <3>2, <1>9, <1>10, <1>11, <1>1, <1>20 DEF Calling
  <2>. QED  BY <2>1, <2>2
<1>25. \A d \in Callers : d # c => Uncounted(d)' = Uncounted(d)
  BY <1>16, <1>17, <1>18 DEF Uncounted
<1>26. Cardinality(Uncounted(c)') = Cardinality(Uncounted(c)) + 1
  <2>1. Uncounted(c)' = Uncounted(c) \cup {e}
    BY <1>16, <1>19 DEF Uncounted
  <2>2. e \notin Uncounted(c) /\ IsFiniteSet(Uncounted(c))
    BY <1>17, UncountedSize DEF Uncounted
  <2>. QED  BY <2>1, <2>2, FS_AddElement
<1>27. CountInv'
  <2>1. slot[x.first].outstanding = x.left + Cardinality(Uncounted(c))
    BY <1>2, <1>4, <1>1 DEF IInv, CountInv
  <2>2. slot'[caller'[c].first].outstanding = caller'[c].left + Cardinality(Uncounted(c)')
    <3>1. slot'[caller'[c].first].outstanding = slot[x.first].outstanding /\ caller'[c].left = x.left - 1
      BY <1>5, <1>6, <1>10, <1>11, <1>16
    <3>2. Cardinality(Uncounted(c)) \in Nat
      BY UncountedSize
    <3>. QED  BY <2>1, <3>1, <3>2, <1>5, <1>26
  <2>3. \A d \in Callers : caller[d].first \in Slots
    BY <1>2, Fields
  <2>4. \A d \in Callers : d # c /\ Calling(d) /\ caller[d].pc \in {"put", "putWait", "await", "return"} =>
           slot'[caller[d].first].outstanding = caller[d].left + Cardinality(Uncounted(d)')
    BY <2>3, <1>16, <1>25 DEF IInv, CountInv
  <2>. QED  BY <2>2, <2>4, <1>11, <1>21 DEF CountInv
<1>28. EventInv'
  <2>1. \A s \in Slots : slot'[s].completedEvent =>
             /\ \E d \in Callers : Calling(d)' /\ caller'[d].pc = "await" /\ caller'[d].first = s
             /\ slot'[s].outstanding = 0
    <3>. SUFFICES ASSUME NEW s \in Slots, slot'[s].completedEvent
                  PROVE  /\ \E d \in Callers : Calling(d)' /\ caller'[d].pc = "await" /\ caller'[d].first = s
                         /\ slot'[s].outstanding = 0
      OBVIOUS
    <3>1. slot[s].completedEvent
      BY <1>16
    <3>2. PICK d \in Callers : Calling(d) /\ caller[d].pc = "await" /\ caller[d].first = s
      BY <3>1 DEF IInv, EventInv
    <3>3. slot[s].outstanding = 0
      BY <3>1 DEF IInv, EventInv
    <3>. QED  BY <3>2, <3>3, <1>2, <1>11, <1>16, <1>21
  <2>. QED  BY <2>1, <1>16 DEF EventInv, SlotOf
<1>29. KeyInv'
  <2>1. (\A d \in Callers : caller'[d].pc # "clear") /\ (\A d \in Callers : caller[d].pc # "clear")
    BY <1>2, <1>10, <1>11, <1>12, <1>20 DEF Holding
  <2>2. ~Key(e)' /\ ~Key(e)
    BY <2>1, <1>2, <1>3, <1>14, <1>16 DEF Key, Active, Deriving
  <2>3. \A s \in Slots : s # e => (Key(s)' <=> Key(s))
    BY <2>1, <1>2, <1>14 DEF Key
  <2>4. Keys' = Keys
    BY <2>2, <2>3 DEF Keys
  <2>. QED  BY <2>4, <1>2 DEF IInv, KeyInv
<1>30. \A s \in Slots : s # e => slot'[s].start = slot[s].start /\ slot'[s].count = slot[s].count
  BY <1>14
<1>31. \A d \in Callers : d # c =>
          /\ ~Calling(d) => \A u \in Units : data[d][u] = (IF u < caller'[d].count THEN 1 ELSE 0)
          /\ Calling(d) =>
               /\ \A u \in Units : data[d][u] =
                     (IF u < caller'[d].start /\ ~\E s \in Slots : Undone(d, s)' /\ Covers(s, u)' THEN 1 ELSE 0)
               /\ \A s \in Slots : Undone(d, s)' => slot'[s].start + slot'[s].count <= caller'[d].start
               /\ \A s, s2 \in Slots : Undone(d, s)' /\ Undone(d, s2)' /\ s # s2 =>
                     slot'[s].start + slot'[s].count <= slot'[s2].start \/ slot'[s2].start + slot'[s2].count <= slot'[s].start
  <2>. SUFFICES ASSUME NEW d \in Callers, d # c
                PROVE  /\ ~Calling(d) => \A u \in Units : data[d][u] = (IF u < caller'[d].count THEN 1 ELSE 0)
                       /\ Calling(d) =>
                            /\ \A u \in Units : data[d][u] =
                                  (IF u < caller'[d].start /\ ~\E s \in Slots : Undone(d, s)' /\ Covers(s, u)' THEN 1 ELSE 0)
                            /\ \A s \in Slots : Undone(d, s)' => slot'[s].start + slot'[s].count <= caller'[d].start
                            /\ \A s, s2 \in Slots : Undone(d, s)' /\ Undone(d, s2)' /\ s # s2 =>
                                  slot'[s].start + slot'[s].count <= slot'[s2].start \/ slot'[s2].start + slot'[s2].count <= slot'[s].start
    OBVIOUS
  <2>1. caller'[d] = caller[d]
    BY <1>11
  <2>2. \A s \in Slots : Undone(d, s)' <=> Undone(d, s) /\ s # e
    BY <1>16, <1>17, <1>18
  <2>3. \A u \in Units : (\E s \in Slots : Undone(d, s)' /\ Covers(s, u)') <=> \E s \in Slots : Undone(d, s) /\ Covers(s, u)
    BY <2>2, <1>17, <1>30 DEF Covers
  <2>4. ~Calling(d) => \A u \in Units : data[d][u] = (IF u < caller'[d].count THEN 1 ELSE 0)
    BY <2>1 DEF IInv, DataInv
  <2>5. Calling(d) => \A u \in Units : data[d][u] =
            (IF u < caller'[d].start /\ ~\E s \in Slots : Undone(d, s)' /\ Covers(s, u)' THEN 1 ELSE 0)
    BY <2>1, <2>3 DEF IInv, DataInv
  <2>6. Calling(d) => \A s \in Slots : Undone(d, s)' => slot'[s].start + slot'[s].count <= caller'[d].start
    BY <2>1, <2>2, <1>30 DEF IInv, DataInv
  <2>7. Calling(d) => \A s, s2 \in Slots : Undone(d, s)' /\ Undone(d, s2)' /\ s # s2 =>
            slot'[s].start + slot'[s].count <= slot'[s2].start \/ slot'[s2].start + slot'[s2].count <= slot'[s].start
    BY <2>2, <1>30 DEF IInv, DataInv
  <2>. QED  BY <2>4, <2>5, <2>6, <2>7
<1>32. \A u \in Units : data[c][u] = (IF u < start /\ ~\E s \in Slots : Undone(c, s)' /\ Covers(s, u)' THEN 1 ELSE 0)
  <2>. SUFFICES ASSUME NEW u \in Units
                PROVE  data[c][u] = (IF u < start /\ ~\E s \in Slots : Undone(c, s)' /\ Covers(s, u)' THEN 1 ELSE 0)
    OBVIOUS
  <2>1. data[c][u] = (IF u < x.start /\ ~\E s \in Slots : Undone(c, s) /\ Covers(s, u) THEN 1 ELSE 0)
    BY <1>4, <1>1 DEF IInv, DataInv
  <2>2. u \in Nat
    BY SlotsAndUnits
  <2>3. Covers(e, u)' <=> x.start <= u /\ u < start
    BY <1>6, <1>14 DEF Covers
  <2>4. \A s \in Slots : s # e => (Covers(s, u)' <=> Covers(s, u))
    BY <1>30 DEF Covers
  <2>5. (\E s \in Slots : Undone(c, s)' /\ Covers(s, u)') <=> (x.start <= u /\ u < start) \/ \E s \in Slots : Undone(c, s) /\ Covers(s, u)
    BY <2>3, <2>4, <1>16, <1>17, <1>19
  <2>6. x.start <= start
    BY <1>5, <1>6
  <2>7. u < start /\ ~(x.start <= u /\ u < start) <=> u < x.start
    BY <2>2, <2>6, <1>5, <1>9
  <2>. QED  BY <2>1, <2>5, <2>7
<1>33. \A s \in Slots : Undone(c, s) => slot[s].start + slot[s].count <= x.start
  BY <1>4, <1>1 DEF IInv, DataInv
<1>34. \A s \in Slots : slot[s].start \in Nat /\ slot[s].count \in Nat
  BY <1>2, Fields
<1>35. \A s \in Slots : Undone(c, s)' => slot'[s].start + slot'[s].count <= start
  <2>1. slot'[e].start + slot'[e].count <= start
    BY <1>5, <1>6, <1>14
  <2>2. \A s \in Slots : s # e /\ Undone(c, s)' => slot'[s].start + slot'[s].count <= start
    BY <1>5, <1>6, <1>16, <1>30, <1>33, <1>34
  <2>. QED  BY <2>1, <2>2
<1>36. \A s, s2 \in Slots : Undone(c, s)' /\ Undone(c, s2)' /\ s # s2 =>
          slot'[s].start + slot'[s].count <= slot'[s2].start \/ slot'[s2].start + slot'[s2].count <= slot'[s].start
  <2>1. \A s \in Slots : s # e /\ Undone(c, s)' => slot'[s].start + slot'[s].count <= slot'[e].start
    BY <1>14, <1>16, <1>30, <1>33
  <2>2. \A s, s2 \in Slots : s # e /\ s2 # e /\ Undone(c, s) /\ Undone(c, s2) /\ s # s2 =>
          slot[s].start + slot[s].count <= slot[s2].start \/ slot[s2].start + slot[s2].count <= slot[s].start
    BY <1>4 DEF IInv, DataInv
  <2>. QED  BY <2>1, <2>2, <1>16, <1>30
<1>37. DataInv'
  BY <1>2, <1>4, <1>10, <1>11, <1>21, <1>31, <1>32, <1>35, <1>36 DEF DataInv
<1>. QED  BY <1>15, <1>16, <1>22, <1>23, <1>24, <1>27, <1>28, <1>29, <1>37 DEF IInv

----------------------------------------------------------------------------
(* The pool being started, and the theorems *)

(* Nothing is in the ring when the pool starts *)
LEMMA EmptyRing ==
    ASSUME TypeOK', NEW n \in Nat, n = 0, report'.outstanding = n,
           \A s \in Slots : slot'[s] = FreeSlot,
           \A t \in Threads : thread'[t].pc \in {"loop", "exited"},
           \A c \in Callers : caller'[c].pc = "idle" /\ caller'[c].prf = "none",
           \A c \in Callers : \A u \in Units : data'[c][u] = (IF u < caller'[c].count THEN 1 ELSE 0),
           pool'.enqueueMutex = "none",
           pool'.running \/ \A t \in Threads : thread'[t].pc = "exited"
    PROVE  IInv'
<1>1. \A s \in Slots : slot'[s].state = "free" /\ slot'[s].completedEvent = FALSE
  BY DEF FreeSlot
<1>2. ThreadInv'
  BY DEF ThreadInv, Active, Fragmenting, Deriving
<1>3. MutexInv'
  <2>1. "none" \notin Callers
    BY PoolAssumption
  <2>. QED  BY <2>1 DEF MutexInv, Holding
<1>4. \A c \in Callers : ~Calling(c)'
  BY DEF Calling
<1>5. CallInv'
  BY <1>4 DEF CallInv
<1>6. \A s \in Slots : ~Live(s)' /\ ~Key(s)'
  BY <1>1 DEF Live, Key, Fragmenting
<1>7. FragmentInv'
  BY <1>6 DEF FragmentInv
<1>8. CountInv'
  BY <1>4 DEF CountInv
<1>9. EventInv'
  BY <1>1 DEF EventInv
<1>10. KeyInv'
  <2>1. Keys' = {}
    BY <1>6 DEF Keys
  <2>2. Cardinality(Keys') = 0
    BY <2>1, FS_EmptySet
  <2>. QED  BY <2>2 DEF KeyInv
<1>11. DataInv'
  BY <1>4 DEF DataInv
<1>. QED  BY <1>2, <1>3, <1>5, <1>7, <1>8, <1>9, <1>10, <1>11 DEF IInv

LEMMA FreeSlotType == FreeSlot \in SlotType
<1>1. 0 \in Slots
  BY SlotsAndUnits
<1>. QED  BY <1>1 DEF FreeSlot, SlotType

LEMMA StartStep ==
    ASSUME IInv, Start
    PROVE  IInv'
<1>1. /\ TypeOK /\ ~pool.running /\ pool.starts > 0 /\ UNCHANGED <<caller, data, report>>
      /\ slot' = [s \in Slots |-> FreeSlot] /\ thread' = [t \in Threads |-> [pc |-> "loop", slot |-> 0]]
  BY DEF IInv, Start
<1>2. report.outstanding = 0 /\ \A c \in Callers : caller[c].pc = "idle"
  BY <1>1 DEF IInv, MutexInv
<1>3. PICK n \in Nat : n = pool.starts - 1
  BY <1>1, Fields
<1>4. 0 \in Slots
  BY SlotsAndUnits
<1>5. pool' = [pool EXCEPT !.enqueue = 0, !.dequeue = 0, !.readyEvent = FALSE, !.completedEvent = FALSE,
                           !.running = TRUE, !.stopPending = FALSE, !.starts = n]
  BY <1>3 DEF Start
<1>6. pool' \in PoolType /\ pool'.enqueueMutex = pool.enqueueMutex /\ pool'.running
  BY <1>1, <1>4, <1>5, Types DEF PoolType
<1>7. slot' \in [Slots -> SlotType] /\ \A s \in Slots : slot'[s] = FreeSlot
  BY <1>1, FreeSlotType
<1>8. thread' \in [Threads -> [pc : ThreadPcs, slot : Slots]] /\ \A t \in Threads : thread'[t].pc = "loop"
  BY <1>1, <1>4 DEF ThreadPcs
<1>9. TypeOK'
  BY <1>1, <1>6, <1>7, <1>8, Types, TypesNext
<1>10. pool.enqueueMutex = "none"
  <2>1. pool.enqueueMutex \in Callers \cup {"none"}
    BY <1>1, Types DEF PoolType
  <2>. QED  BY <2>1, <1>2 DEF IInv, MutexInv, Holding
<1>11. \A c \in Callers : ~Calling(c) /\ caller[c].prf = "none"
  BY <1>2 DEF Calling, IInv, CallInv
<1>12. \A c \in Callers : \A u \in Units : data[c][u] = (IF u < caller[c].count THEN 1 ELSE 0)
  BY <1>11 DEF IInv, DataInv
<1>. QED  BY <1>1, <1>2, <1>6, <1>7, <1>8, <1>9, <1>10, <1>11, <1>12, EmptyRing

LEMMA InitialInvariant == Init => IInv
<1>. SUFFICES ASSUME Init
              PROVE  IInv
  OBVIOUS
<1>1. 0 \in Slots /\ "none" \notin Callers /\ \A u \in Units : ~(u < 0)
  BY SlotsAndUnits, PoolAssumption
<1>2. pool \in PoolType /\ pool.enqueueMutex = "none" /\ ~pool.running
  BY <1>1, PoolAssumption DEF Init, PoolType
<1>3. slot \in [Slots -> SlotType] /\ \A s \in Slots : slot[s].state = "free" /\ slot[s].completedEvent = FALSE
  <2>1. FreeSlot.state = "free" /\ FreeSlot.completedEvent = FALSE
    BY DEF FreeSlot
  <2>. QED  BY <2>1, FreeSlotType DEF Init
<1>4. thread \in [Threads -> [pc : ThreadPcs, slot : Slots]] /\ \A t \in Threads : thread[t].pc = "exited"
  BY <1>1 DEF Init, ThreadPcs
<1>5. caller \in [Callers -> CallerType] /\ \A c \in Callers : caller[c].pc = "idle" /\ caller[c].prf = "none" /\ caller[c].count = 0
  <2>1. \A c \in Callers : MaxCalls[c] \in Nat
    BY PoolAssumption
  <2>2. \A c \in Callers : caller[c] = [pc |-> "idle", calls |-> MaxCalls[c], prf |-> "none", count |-> 0, left |-> 0,
                                        start |-> 0, per |-> 0, remainder |-> 0, first |-> 0]
    BY DEF Init, Outside
  <2>3. \A c \in Callers : caller[c] \in CallerType /\ caller[c].pc = "idle" /\ caller[c].prf = "none" /\ caller[c].count = 0
    <3>. SUFFICES ASSUME NEW c \in Callers
                  PROVE  caller[c] \in CallerType /\ caller[c].pc = "idle" /\ caller[c].prf = "none" /\ caller[c].count = 0
      OBVIOUS
    <3>1. PICK n \in Nat : n = MaxCalls[c]
      BY <2>1
    <3>2. caller[c] = [pc |-> "idle", calls |-> n, prf |-> "none", count |-> 0, left |-> 0,
                       start |-> 0, per |-> 0, remainder |-> 0, first |-> 0]
      BY <2>2, <3>1
    <3>. QED  BY <3>2, <1>1 DEF CallerType
  <2>4. caller = [c \in Callers |-> caller[c]]
    BY DEF Init
  <2>. QED  BY <2>3, <2>4
<1>6. data \in [Callers -> [Units -> Nat]] /\ \A c \in Callers : \A u \in Units : data[c][u] = 0
  BY DEF Init
<1>7. report \in ReportType /\ report.outstanding = 0
  BY DEF Init, ReportType
<1>8. TypeOK
  BY <1>2, <1>3, <1>4, <1>5, <1>6, <1>7, Types
<1>9. ThreadInv
  BY <1>4 DEF ThreadInv, Active, Fragmenting, Deriving
<1>10. MutexInv
  BY <1>1, <1>2, <1>4, <1>5, <1>7 DEF MutexInv, Holding
<1>11. \A c \in Callers : ~Calling(c)
  BY <1>5 DEF Calling
<1>12. CallInv
  BY <1>5, <1>11 DEF CallInv
<1>13. \A s \in Slots : ~Live(s) /\ ~Key(s)
  BY <1>3, <1>4, <1>5 DEF Live, Key, Fragmenting
<1>14. FragmentInv /\ CountInv
  BY <1>11, <1>13 DEF FragmentInv, CountInv
<1>15. EventInv
  BY <1>3, <1>4 DEF EventInv
<1>16. KeyInv
  <2>1. Keys = {}
    BY <1>13 DEF Keys
  <2>. QED  BY <2>1, <1>7, FS_EmptySet DEF KeyInv
<1>17. DataInv
  BY <1>1, <1>5, <1>6, <1>11 DEF DataInv
<1>. QED  BY <1>8, <1>9, <1>10, <1>12, <1>14, <1>15, <1>16, <1>17 DEF IInv

LEMMA StutterStep ==
    ASSUME IInv, UNCHANGED vars
    PROVE  IInv'
<1>1. UNCHANGED <<pool, slot, thread, caller, data, report>>
  BY DEF vars
<1>2. TypeOK' /\ ActiveKept
  BY <1>1, Types, TypesNext DEF IInv, ActiveKept
<1>. QED  BY <1>1, <1>2, QuietStep DEF IInv, MutexInv

LEMMA NextStep ==
    ASSUME IInv, [Next]_vars
    PROVE  IInv'
<1>1. CASE Lifecycle
  BY <1>1, StartStep, StopBeginStep, StopEndStep DEF Lifecycle
<1>2. CASE \E t \in Threads : EncryptionThreadProc(t)
  <2>1. PICK t \in Threads : EncryptionThreadProc(t)
    BY <1>2
  <2>2. CASE Derivation(t)
    BY <2>2, ThreadDeriveStep, ThreadReportStep, ThreadReleaseStep DEF Derivation
  <2>3. CASE ~Derivation(t)
    BY <2>1, <2>3, ThreadLoopStep, ThreadAcquireStep, ThreadWaitStep, ThreadTakeStep, ThreadWorkStep, ThreadFreeStep,
       ThreadCountDownStep, ThreadSignalStep DEF EncryptionThreadProc
  <2>. QED  BY <2>2, <2>3
<1>3. CASE \E c \in Callers : \/ Acquire(c) \/ AwaitSlot(c) \/ EncryptionThreadPoolDoWork(c)
                              \/ BeginCall(c) \/ EncryptionThreadPoolBeginKeyDerivation(c)
  <2>1. PICK c \in Callers : \/ Acquire(c) \/ AwaitSlot(c) \/ EncryptionThreadPoolDoWork(c)
                             \/ BeginCall(c) \/ EncryptionThreadPoolBeginKeyDerivation(c)
    BY <1>3
  <2>2. CASE Acquire(c) \/ AwaitSlot(c)
    BY <2>2, AcquireStep, AwaitSlotStep
  <2>3. CASE EncryptionThreadPoolDoWork(c)
    BY <2>3, DoWorkDirectStep, DoWorkBeginStep, DoWorkFirstStep, DoWorkPutStep, DoWorkAwaitStep, DoWorkReturnStep
       DEF EncryptionThreadPoolDoWork
  <2>4. CASE BeginCall(c) \/ EncryptionThreadPoolBeginKeyDerivation(c)
    BY <2>4, BeginCallStep, BeginCountStep, BeginReadyStep DEF EncryptionThreadPoolBeginKeyDerivation
  <2>. QED  BY <2>1, <2>2, <2>3, <2>4
<1>4. CASE UNCHANGED vars
  BY <1>4, StutterStep
<1>. QED  BY <1>1, <1>2, <1>3, <1>4 DEF Next

(* The invariant holds in every reachable state of the pool *)
THEOREM InductiveInvariant == Spec => []IInv
<1>1. Init => IInv
  BY InitialInvariant
<1>2. IInv /\ [Next]_vars => IInv'
  BY NextStep
<1>. QED  BY <1>1, <1>2, PTL DEF Spec

(* The pool's state has its type: no position leaves the ring, no counter    *)
(* of fragments or of derivations goes below zero                            *)
THEOREM TypeCorrect == Spec => []TypeOK
<1>1. IInv => TypeOK
  BY DEF IInv
<1>. QED  BY <1>1, InductiveInvariant, PTL

(* EncryptionThreadPoolDoWork returns only after every unit it was given has *)
(* been transformed, each exactly once, and touches nothing beyond them      *)
THEOREM UnitsOnce == Spec => []WorkDone
<1>1. IInv => WorkDone
  BY DEF IInv, DataInv, WorkDone, Calling, In
<1>. QED  BY <1>1, InductiveInvariant, PTL

(* A thread that reads FirstFragment from the slot it has given up reads the *)
(* fragment of the call it works for, which is still waiting                 *)
THEOREM FragmentIsLive == Spec => []FragmentOfLiveCall
<1>1. ASSUME IInv
      PROVE  FragmentOfLiveCall
  <2>. SUFFICES ASSUME NEW t \in Threads, thread[t].pc \in {"work", "free", "count", "signal"}
                PROVE  /\ SlotOf(t).prf = "none" /\ SlotOf(t).caller # "none"
                       /\ caller[SlotOf(t).caller].pc \in {"put", "putWait", "await"}
                       /\ caller[SlotOf(t).caller].first = SlotOf(t).first
                       /\ slot[SlotOf(t).first].state # "free"
    BY DEF FragmentOfLiveCall
  <2>1. thread[t].pc \in Fragmenting
    BY DEF Fragmenting
  <2>2. SlotOf(t).prf = "none"
    BY <1>1, <2>1 DEF IInv, ThreadInv
  <2>3. "none" \notin Callers
    BY PoolAssumption
  <2>. QED  BY <1>1, <2>1, <2>2, <2>3, CountedCall DEF SlotOf
<1>. QED  BY <1>1, InductiveInvariant, PTL
=============================================================================
