-------------------------- MODULE ReadVolumeHeader --------------------------
(***************************************************************************)
(* Reading a volume header (Common/Volumes.c) on top of the thread pool.   *)
(* The header names neither its key derivation function nor the version of *)
(* the hardware factor mix, so every function is tried: up to one          *)
(* derivation per pool thread runs at a time, the reader tests the keys as *)
(* they arrive, tells the others to stop once it knows the answer, and     *)
(* waits for them before it frees what they write to.  A second thread may *)
(* abort the mount (AbortPendingMount).                                    *)
(*                                                                         *)
(* A reader that returns while a derivation still runs frees the memory    *)
(* the derivation writes to.  What follows is undefined, and the model     *)
(* does not follow it into another attempt.                                *)
(***************************************************************************)
EXTENDS EncryptionThreadPool, Sequences

CONSTANTS
    Reader,       \* the caller of the pool that reads the header
    PrfOrder,     \* the functions from FIRST_PRF_ID to LAST_PRF_ID
    Selections,   \* what selected_pkcs5_prf may be, "none" to try them all
    Argon2,       \* the function whose failure is remembered
    RightPrfs,    \* the functions that may open the header, "none" if the password is wrong,
    RightAttempt, \* and the attempt that mixes the hardware factor as it was enrolled
    MaxAttempts,  \* 2 with a hardware factor (v2 mix, then v1), otherwise 1
    CanAbort      \* whether the user may abort the mount

LastPrf == Len(PrfOrder)

ASSUME HeaderAssumption ==
    /\ Reader \in Callers /\ PrfOrder \in Seq(Prfs) /\ Prfs = {PrfOrder[k] : k \in 1 .. LastPrf} /\ LastPrf = Cardinality(Prfs)
    /\ Selections \cup RightPrfs \subseteq Prfs \cup {"none"} /\ Argon2 \in MemoryHard \cup {"none"}
    /\ MaxAttempts \in 1 .. 2 /\ RightAttempt \in 1 .. 2 /\ CanAbort \in BOOLEAN

VARIABLES
    reader,    \* the thread in ReadVolumeHeaderWithAbort, its items and result
    mount      \* ActiveMountCancelContext.UserAbortRequested and the thread that sets it

readerVars == <<reader, mount>>
allVars == <<vars, readerVars>>

(* items are the work items not Free; tested and skipped tell what became of each function *)
HeaderInit ==
    /\ Init
    /\ \E prf \in Selections, right \in RightPrfs :
       reader = [pc |-> "call", selected |-> prf, right |-> right, attempt |-> 1, pooled |-> FALSE, enq |-> 1,
                 items |-> {}, current |-> "none", key |-> "none", argon2 |-> "none", status |-> "none", tested |-> {}, skipped |-> {}]
    /\ mount = [userAbort |-> FALSE, aborting |-> FALSE]

Goto(from, to) == reader.pc = from /\ reader' = [reader EXCEPT !.pc = to]
Stopped(status) == reader' = [reader EXCEPT !.pc = "err", !.status = status]

----------------------------------------------------------------------------
(* AbortPendingMount: two writes, in this order *)

AbortPendingMount_KeyFirst ==
    /\ CanAbort
    /\ \/ /\ ~mount.aborting /\ ~mount.userAbort /\ report' = [report EXCEPT !.abort = TRUE]
          /\ mount' = [mount EXCEPT !.aborting = TRUE]
       \/ /\ mount.aborting /\ mount' = [aborting |-> FALSE, userAbort |-> TRUE] /\ UNCHANGED report
    /\ UNCHANGED <<pool, slot, thread, caller, data, reader>>

AbortPendingMount ==
    /\ CanAbort
    /\ \/ /\ ~mount.aborting /\ ~mount.userAbort /\ mount' = [aborting |-> TRUE, userAbort |-> TRUE]
          /\ UNCHANGED report
       \/ /\ mount.aborting /\ mount' = [mount EXCEPT !.aborting = FALSE]
          /\ report' = [report EXCEPT !.abort = TRUE]
    /\ UNCHANGED <<pool, slot, thread, caller, data, reader>>

----------------------------------------------------------------------------
(* ReadVolumeHeaderWCacheWithAbort and ReadVolumeHeaderWithAbort: the abort *)
(* flag is cleared, then an attempt begins                                 *)

Lingering ==
    \/ \E t \in Threads : thread[t].pc \in {"derive", "keyEvent", "countKey", "noOutstanding"}
    \/ \E s \in Slots : slot[s].state = "ready" /\ slot[s].prf # "none"

ResetAbortKeyDerivation ==
    /\ reader.pc = "call"
    /\ IF mount.userAbort THEN Goto("call", "returned") ELSE Goto("call", "reset")
    /\ UNCHANGED <<vars, mount>>

ReadBegin ==
    /\ reader.pc = "reset"
    /\ report' = [keyReady |-> [p \in Prfs |-> FALSE], result |-> [p \in Prfs |-> "none"], keyEvent |-> FALSE,
                  outstanding |-> 0, noOutstandingEvent |-> TRUE, abort |-> FALSE]
    /\ reader' = [reader EXCEPT !.pc = "loop", !.pooled = pool.running /\ reader.selected = "none", !.enq = 1, !.items = {},
                                !.argon2 = "none", !.status = "none", !.tested = {}, !.skipped = {}]
    /\ UNCHANGED <<pool, slot, thread, caller, data, mount>>

(* A wrong password under the v2 mix of a hardware factor: try the v1 mix *)
RetryV1 ==
    /\ reader.pc = "returned" /\ reader.status = "wrong" /\ reader.attempt < MaxAttempts
    /\ ~Lingering
    /\ reader' = [reader EXCEPT !.pc = "reset", !.attempt = @ + 1]
    /\ UNCHANGED <<vars, mount>>

----------------------------------------------------------------------------
(* The loop over the functions *)

ReadAbort ==
    /\ reader.pc \in {"loop", "test"} /\ mount.userAbort
    /\ reader.pc = "loop" => reader.enq <= LastPrf \/ reader.items # {}
    /\ Stopped("aborted")
    /\ UNCHANGED <<vars, mount>>

ReadNext ==
    /\ reader.pc = "loop" /\ ~mount.userAbort
    /\ reader.enq <= LastPrf \/ reader.items # {}

ReadQueue ==
    /\ ReadNext /\ reader.pooled /\ Cardinality(reader.items) < ThreadCount /\ reader.enq <= LastPrf
    /\ LET p == PrfOrder[reader.enq] IN
       /\ report' = [report EXCEPT !.keyReady[p] = FALSE, !.result[p] = "none"]
       /\ reader' = [reader EXCEPT !.pc = "begin", !.items = @ \cup {p}]
       /\ caller' = [caller EXCEPT ![Reader].pc = "acquire", ![Reader].prf = p]
    /\ UNCHANGED <<pool, slot, thread, data, mount>>

ReadQueued ==
    /\ reader.pc = "begin" /\ caller[Reader].pc = "idle"
    /\ reader' = IF reader.enq < LastPrf THEN [reader EXCEPT !.pc = "loop", !.enq = @ + 1]
                                         ELSE [reader EXCEPT !.pc = "scan"]
    /\ UNCHANGED <<vars, mount>>

ReadFull_NoRetreat ==
    /\ ReadNext /\ reader.pooled /\ (Cardinality(reader.items) >= ThreadCount \/ reader.enq > LastPrf)
    /\ reader' = [reader EXCEPT !.pc = "scan"]
    /\ UNCHANGED <<vars, mount>>

(* Every thread has a derivation, or all functions are queued: --enqPkcs5Prf *)
ReadFull ==
    /\ ReadNext /\ reader.pooled /\ (Cardinality(reader.items) >= ThreadCount \/ reader.enq > LastPrf)
    /\ reader' = [reader EXCEPT !.pc = "scan", !.enq = @ - 1]
    /\ UNCHANGED <<vars, mount>>

Ready == {p \in reader.items : report.keyReady[p]}

ReadWait ==
    /\ \/ reader.items # {} /\ Ready = {} /\ Goto("scan", "wait") /\ UNCHANGED report
       \/ report.keyEvent /\ Goto("wait", "scan") /\ report' = [report EXCEPT !.keyEvent = FALSE]
    /\ UNCHANGED <<pool, slot, thread, caller, data, mount>>

Failed(p, outcome) ==
    [reader EXCEPT !.items = @ \ {p}, !.skipped = @ \cup {p}, !.argon2 = IF p = Argon2 THEN outcome ELSE @]

(* A ready item: its key is tested next, or the failure of its function noted *)
ReadTake ==
    /\ reader.pc = "scan"
    /\ \E p \in Ready :
          IF mount.userAbort THEN Stopped("aborted")
          ELSE IF report.result[p] \in {"failed", "cancelled"} THEN reader' = Failed(p, report.result[p])
          ELSE reader' = [reader EXCEPT !.pc = "test", !.items = @ \ {p}, !.current = p, !.key = report.result[p]]
    /\ UNCHANGED <<vars, mount>>

ReadNoneLeft ==
    /\ reader.pc = "scan" /\ reader.items = {}
    /\ reader' = [reader EXCEPT !.pc = "loop", !.enq = @ + 1]
    /\ UNCHANGED <<vars, mount>>

(* Without the pool, or with a function selected, the reader derives the keys itself *)
ErrorOf(outcome) == IF outcome = "cancelled" THEN "aborted" ELSE "nomem"

ReadDirect ==
    /\ ReadNext /\ ~reader.pooled
    /\ LET p == PrfOrder[reader.enq] IN
       IF reader.selected \notin {"none", p} THEN reader' = [reader EXCEPT !.enq = @ + 1]
       ELSE \E outcome \in Outcomes(p) :
               IF outcome \in {"key", "cut"}
               THEN reader' = [reader EXCEPT !.pc = "test", !.current = p, !.key = outcome]
               ELSE IF reader.selected = "none" THEN reader' = [Failed(p, outcome) EXCEPT !.enq = @ + 1]
               ELSE Stopped(ErrorOf(outcome))
    /\ UNCHANGED <<vars, mount>>

(* userAbort is tested first, see ReadAbort.  The header decrypts: tell the other derivations to stop *)
Opens == reader.current = reader.right /\ reader.key = "key" /\ reader.attempt = RightAttempt

ReadTest ==
    /\ reader.pc = "test" /\ ~mount.userAbort
    /\ IF Opens
       THEN /\ reader' = [reader EXCEPT !.pc = "ret", !.status = "success", !.current = "none"]
            /\ report' = IF reader.pooled THEN [report EXCEPT !.abort = TRUE] ELSE report
       ELSE /\ reader' = [reader EXCEPT !.pc = "loop", !.enq = @ + 1, !.current = "none",
                             !.tested = IF reader.key = "key" THEN @ \cup {reader.current} ELSE @]
            /\ UNCHANGED report
    /\ UNCHANGED <<pool, slot, thread, caller, data, mount>>

ReadOver ==
    /\ reader.pc = "loop" /\ reader.enq > LastPrf /\ reader.items = {}
    /\ Stopped(IF reader.argon2 # "none" THEN ErrorOf(reader.argon2)
               ELSE IF mount.userAbort THEN "aborted" ELSE "wrong")
    /\ UNCHANGED <<vars, mount>>

(* err: tell the derivations to stop *)
ReadErr ==
    /\ Goto("err", "ret")
    /\ report' = [report EXCEPT !.abort = TRUE]
    /\ UNCHANGED <<pool, slot, thread, caller, data, mount>>

(* ret: wait for them, then free items, events, counter and keyInfo *)
ReadReturn ==
    /\ Goto("ret", "returned")
    /\ IF reader.pooled
       THEN report.noOutstandingEvent /\ report' = [report EXCEPT !.noOutstandingEvent = FALSE]
       ELSE UNCHANGED report
    /\ UNCHANGED <<pool, slot, thread, caller, data, mount>>

ReadVolumeHeaderWithAbort ==
    \/ ResetAbortKeyDerivation \/ ReadBegin \/ RetryV1 \/ ReadAbort \/ ReadQueue \/ ReadQueued \/ ReadFull
    \/ ReadWait \/ ReadTake \/ ReadNoneLeft \/ ReadDirect \/ ReadTest \/ ReadOver \/ ReadErr \/ ReadReturn

PoolStep ==
    \/ Start
    \/ \E t \in Threads : EncryptionThreadProc(t)
    \/ \E c \in Callers : Acquire(c) \/ AwaitSlot(c) \/ EncryptionThreadPoolBeginKeyDerivation(c)
    \/ \E c \in Callers \ {Reader} : EncryptionThreadPoolDoWork(c)

HeaderNext == (PoolStep /\ UNCHANGED readerVars) \/ ReadVolumeHeaderWithAbort \/ AbortPendingMount

HeaderSpec == HeaderInit /\ [][HeaderNext]_allVars

(* The pool's threads, the reader and callers inside the pool keep running *)
HeaderFairSpec ==
    /\ HeaderSpec
    /\ \A t \in Threads : WF_allVars(EncryptionThreadProc(t) /\ UNCHANGED readerVars)
    /\ \A c \in Callers : WF_allVars(Inside(c) /\ UNCHANGED readerVars)
    /\ WF_allVars(ReadVolumeHeaderWithAbort)
----------------------------------------------------------------------------
(* Properties *)

(* The type invariant of the reader *)
HeaderTypeOK ==
    /\ TypeOK
    /\ reader \in [pc : {"call", "reset", "loop", "begin", "scan", "wait", "test", "err", "ret", "returned"},
                   selected : Selections, right : RightPrfs, attempt : 1 .. MaxAttempts, pooled : BOOLEAN, enq : 0 .. (LastPrf + 1), items : SUBSET Prfs,
                   current : Prfs \cup {"none"}, key : {"none", "key", "cut"}, argon2 : {"none", "failed", "cancelled"},
                   status : {"none", "success", "wrong", "aborted", "nomem"}, tested : SUBSET Prfs, skipped : SUBSET Prfs]
    /\ mount \in [userAbort : BOOLEAN, aborting : BOOLEAN]

(* The password is reported wrong only if every function was tried with its *)
(* complete key: none is forgotten when the pool is full, and no key that   *)
(* an abort or a failed Argon2 cut short is taken for a mismatch.  Only a   *)
(* failed Balloon derivation is skipped silently.                           *)
WrongMeansAllTried ==
    reader.pc = "returned" /\ reader.status = "wrong" =>
        LET wanted == IF reader.selected = "none" THEN Prfs ELSE {reader.selected} IN
        /\ wanted \subseteq reader.tested \cup reader.skipped
        /\ Argon2 \notin reader.skipped
        /\ reader.attempt = RightAttempt /\ reader.right \in wanted => reader.right \in reader.skipped

(* The mount is answered, whatever else uses the pool *)
HeaderIsRead == reader.pc = "loop" ~> reader.pc = "returned"

(* When the reader frees what derivations write to, none is running: "Wait  *)
(* for all outstanding threads to finish or cancel"                         *)
NoDerivationLingers == reader.pc = "returned" => ~Lingering
=============================================================================
