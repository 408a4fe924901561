--------------------------- MODULE VolumeIo_proof ---------------------------
(* What a mounted volume keeps under concurrent requests: acknowledged       *)
(* sectors stay readable, a protected hidden volume is not written to, and a  *)
(* bad tag refuses a read, for every number of threads, every layout and      *)
(* every set of requests                                                      *)
EXTENDS VolumeIo, FiniteSetTheorems, TLAPS

WritePcs == {"WriteAt", "WriteTags"}
CountPcs == {"CountTest", "CountFirst", "CountLoad", "CountStore"}

Fields ==
    /\ volume \in Volumes
    /\ pc \in [Threads -> Pcs]
    /\ req = [t \in Threads |-> req[t]]
    /\ buf = [t \in Threads |-> buf[t]]
    /\ reply = [t \in Threads |-> reply[t]]
    /\ alone = [t \in Threads |-> alone[t]]
    /\ bad = [t \in Threads |-> bad[t]]
    /\ \A t \in Threads : pc[t] # "idle" => mounted
    /\ \A t \in Threads : pc[t] \in {"TestTrigger", "CheckRange"} \cup WritePcs =>
        req[t].first \in Int /\ req[t].sectors \in Int /\ req[t].v \in Values

(* While a sector is being written it is not settled; what a writer has for   *)
(* itself no other touches, and between its two steps it is on the host.      *)
Writers ==
    \A t \in Threads :
        /\ pc[t] \notin WritePcs => alone[t] = {}
        /\ alone[t] \subseteq SpanOf(req[t])
        /\ pc[t] \in WritePcs => \A s \in Sectors : s \in SpanOf(req[t]) => expected[s] = Unsettled
        /\ \A u \in Threads : u # t /\ pc[u] \in WritePcs => alone[t] \cap SpanOf(req[u]) = {}
        /\ pc[t] = "WriteTags" =>
            \A s \in Sectors : s \in alone[t] => data[s] = EncryptUnit(req[t].v, Unit(s))

(* A writer that passed the checks of a protected mount is outside it.        *)
Guarded ==
    \A t \in Threads :
        pc[t] \in WritePcs /\ protection = "hidden" => SpanOf(req[t]) \cap HiddenSectors = {}

(* A bad tag stays bad as long as no write has started on its sector, and the *)
(* buffer of a read holds the data it is bad for.                             *)
Readers ==
    \A t \in Threads :
        /\ \A s \in bad[t] : s \in Sectors /\ ~Authentic(s)
        /\ \A u \in Threads : pc[u] \in WritePcs => bad[t] \cap SpanOf(req[u]) = {}
        /\ pc[t] \in {"ReadAt", "ReadTags"} => bad[t] \subseteq SpanOf(req[t])
        /\ pc[t] = "ReadTags" => \A s \in bad[t] : buf[t][s] = data[s]
        /\ pc[t] \in CountPcs => ignoreTags
        /\ pc[t] = "done" /\ v2Active /\ ~ignoreTags /\ reply[t].status = "ok" => bad[t] = {}

Inv == Fields /\ Writers /\ SettledIntact /\ Guarded /\ Readers

----------------------------------------------------------------------------
(* Parts of the invariant that a step leaves alone                            *)

LEMMA WritersFrame ==
    ASSUME Fields, Writers, SettledIntact, pc' \in [Threads -> Pcs],
           UNCHANGED <<volume, data, tags, expected, alone>>,
           \A t \in Threads : pc[t] \in WritePcs \/ pc'[t] \in WritePcs =>
                pc'[t] = pc[t] /\ req'[t] = req[t]
    PROVE  Writers' /\ SettledIntact'
<1>1. Writers'
  BY DEF Writers, Sectors, WritePcs, SpanOf, Unit, EncryptUnit
<1>2. SettledIntact'
  BY DEF SettledIntact, Settled, Sectors, Unit, Authentic, Mac, EncryptUnit
<1>. QED  BY <1>1, <1>2

LEMMA GuardedFrame ==
    ASSUME Guarded, UNCHANGED <<volume, protection>>,
           \A t \in Threads : pc'[t] \in WritePcs => pc[t] \in WritePcs /\ req'[t] = req[t]
    PROVE  Guarded'
BY DEF Guarded, SpanOf, HiddenSectors

LEMMA ReadersFrame ==
    ASSUME Readers, UNCHANGED <<volume, data, tags, bad, buf, reply, v2Active, ignoreTags>>,
           \A t \in Threads : pc'[t] \in WritePcs => pc[t] \in WritePcs /\ req'[t] = req[t],
           \A t \in Threads : pc'[t] \in {"ReadAt", "ReadTags", "done"} \cup CountPcs =>
                pc'[t] = pc[t] /\ req'[t] = req[t]
    PROVE  Readers'
BY DEF Readers, Sectors, SpanOf, Authentic, Mac, CountPcs

(* A volume that was created and is not mounted satisfies the invariant.      *)
LEMMA InitInv == Init => Inv
<1>. SUFFICES ASSUME Init PROVE Inv
  OBVIOUS
<1>1. Fields
  BY DEF Init, Fields, Pcs, WritePcs
<1>2. Writers
  BY DEF Init, Writers, WritePcs
<1>3. Guarded /\ Readers
  BY DEF Init, Guarded, Readers, WritePcs, CountPcs
<1>4. SettledIntact
  <2>1. PICK content \in [Sectors -> Values], repaired \in BOOLEAN :
        /\ data = [s \in Sectors |-> EncryptUnit(content[s], InitialUnit(s, repaired))]
        /\ expected = [s \in Sectors |-> IF s \in HiddenSectors THEN Unsettled ELSE content[s]]
    BY DEF Init
  <2>2. ASSUME NEW s \in Settled
        PROVE  /\ data[s] = EncryptUnit(expected[s], Unit(s))
                  \/ (volume.system /\ data[s] = EncryptUnit(expected[s], Clear))
               /\ volume.v2 => Authentic(s)
    <3>1. s \in Sectors /\ s \notin HiddenSectors
      BY <2>1, <2>2 DEF Settled
    <3>2. data[s] = EncryptUnit(expected[s], InitialUnit(s, repaired))
      BY <2>1, <3>1
    <3>3. InitialUnit(s, repaired) = Unit(s) \/ (volume.system /\ InitialUnit(s, repaired) = Clear)
      BY <3>1 DEF InitialUnit, EncryptedBefore
    <3>4. volume.v2 => Authentic(s)
      BY <3>1 DEF Init, Authentic
    <3>. QED  BY <3>2, <3>3, <3>4
  <2>. QED  BY <2>2 DEF SettledIntact
<1>. QED  BY <1>1, <1>2, <1>3, <1>4 DEF Inv

----------------------------------------------------------------------------
(* Mounting *)

LEMMA OpenInv ==
    ASSUME Inv, NEW prot \in Protections, NEW ignore \in BOOLEAN, NEW require \in BOOLEAN,
           NEW error \in BOOLEAN, Open(prot, ignore, require, error)
    PROVE  Inv'
<1>1. \A t \in Threads : pc[t] = "idle"
  BY DEF Inv, Fields, Open
<1>2. Fields'
  BY <1>1 DEF Inv, Fields, Open, WritePcs
<1>3. Writers' /\ SettledIntact'
  BY <1>2, WritersFrame DEF Inv, Fields, Open, diskVars
<1>4. Guarded'
  BY <1>1 DEF Guarded, Open, WritePcs
<1>5. Readers'
  BY <1>1 DEF Inv, Readers, Open, diskVars, Sectors, Authentic, WritePcs, CountPcs
<1>. QED  BY <1>2, <1>3, <1>4, <1>5 DEF Inv

LEMMA CloseInv == ASSUME Inv, CloseMountedVolume PROVE Inv'
<1>1. Fields'
  BY DEF Inv, Fields, CloseMountedVolume, Closed, WritePcs
<1>2. Writers' /\ SettledIntact'
  BY <1>1, WritersFrame DEF Inv, Fields, CloseMountedVolume, diskVars
<1>3. Guarded'
  BY DEF Guarded, CloseMountedVolume, WritePcs
<1>4. Readers'
  BY DEF Inv, Readers, CloseMountedVolume, diskVars, Sectors, Authentic, WritePcs, CountPcs
<1>. QED  BY <1>1, <1>2, <1>3, <1>4 DEF Inv

(* Whatever the threads held is gone.                                         *)
LEMMA ThreadsGoneInv ==
    ASSUME Inv, ThreadsGone, UNCHANGED volume
    PROVE  Fields' /\ Writers' /\ Guarded' /\ Readers'
<1>1. \A t \in Threads : pc'[t] = "idle" /\ alone'[t] = {} /\ bad'[t] = {}
  BY DEF ThreadsGone
<1>2. Fields'
  BY <1>1 DEF Inv, Fields, ThreadsGone, Pcs, WritePcs
<1>. QED  BY <1>1, <1>2 DEF Writers, Guarded, Readers, WritePcs, CountPcs

LEMMA ServiceDiesInv == ASSUME Inv, ServiceDies PROVE Inv'
<1>1. Fields' /\ Writers' /\ Guarded' /\ Readers'
  BY ThreadsGoneInv DEF ServiceDies
<1>2. SettledIntact'
  BY DEF Inv, ServiceDies, diskVars, SettledIntact, Settled, Sectors, Unit, Authentic
<1>. QED  BY <1>1, <1>2 DEF Inv

(* What the device and the operating system agree on survives.                *)
LEMMA PowerFailsInv == ASSUME Inv, PowerFails PROVE Inv'
<1>1. Fields' /\ Writers' /\ Guarded' /\ Readers'
  BY ThreadsGoneInv DEF PowerFails
<1>2. SettledIntact'
  BY DEF Inv, PowerFails, SettledIntact, Settled, Sectors, Unit, Authentic
<1>. QED  BY <1>1, <1>2 DEF Inv

LEMMA WriteBackInv == ASSUME Inv, NEW s \in Sectors, WriteBack(s) PROVE Inv'
<1>1. Fields'
  BY DEF Inv, Fields, WriteBack, mountVars
<1>2. Writers' /\ SettledIntact'
  BY <1>1, WritersFrame DEF Inv, Fields, WriteBack
<1>3. Guarded'
  BY GuardedFrame DEF Inv, WriteBack, mountVars
<1>4. Readers'
  BY ReadersFrame DEF Inv, WriteBack, mountVars
<1>. QED  BY <1>1, <1>2, <1>3, <1>4 DEF Inv

----------------------------------------------------------------------------
(* Reads *)

(* A step of a thread that reads: it changes nothing a writer relies on.      *)
LEMMA ReadStep ==
    ASSUME Inv, NEW t \in Threads, Fields',
           UNCHANGED <<volume, diskVars, mountVars, expected, alone>>,
           pc[t] \notin WritePcs, pc'[t] \notin WritePcs,
           \A u \in Threads \ {t} : pc'[u] = pc[u] /\ req'[u] = req[u]
    PROVE  Writers' /\ SettledIntact' /\ Guarded'
<1>1. pc' \in [Threads -> Pcs]
  BY DEF Fields
<1>2. Writers' /\ SettledIntact'
  BY <1>1, WritersFrame DEF Inv, diskVars
<1>3. Guarded'
  BY GuardedFrame DEF Inv, mountVars
<1>. QED  BY <1>2, <1>3

LEMMA FuseReadInv ==
    ASSUME Inv, NEW t \in Threads, NEW op \in Ops[volume], FuseRead(t, op)
    PROVE  Inv'
<1>1. Fields'
  BY DEF Inv, Fields, FuseRead, mountVars, Pcs, WritePcs
<1>2. pc[t] = "idle" /\ pc'[t] = "ReadAt" /\ \A u \in Threads \ {t} : pc'[u] = pc[u] /\ req'[u] = req[u]
  BY DEF Inv, Fields, FuseRead
<1>3. Writers' /\ SettledIntact' /\ Guarded'
  BY <1>1, <1>2, ReadStep DEF FuseRead, WritePcs
<1>4. Readers'
  <2>1. ASSUME NEW s \in bad'[t]
        PROVE  /\ s \in Sectors /\ s \in SpanOf(req'[t]) /\ ~Authentic(s)
               /\ \A u \in Threads : pc[u] \in WritePcs => s \notin SpanOf(req[u])
    BY <2>1 DEF Inv, Fields, FuseRead, Writing, WritePcs
  <2>2. bad' = [bad EXCEPT ![t] = bad'[t]] /\ \A u \in Threads \ {t} : bad'[u] = bad[u]
    BY DEF Inv, Fields, FuseRead
  <2>3. UNCHANGED <<volume, data, tags, buf, reply, v2Active, ignoreTags>>
    BY DEF FuseRead, diskVars, mountVars
  <2>. QED  BY <1>2, <2>1, <2>2, <2>3 DEF Inv, Readers, Sectors, SpanOf, Authentic, Mac, WritePcs, CountPcs
<1>. QED  BY <1>1, <1>3, <1>4 DEF Inv

(* A step of a read after its first: the request, and what is bad for it,     *)
(* stay.                                                                      *)
LEMMA ReadingStep ==
    ASSUME Inv, NEW t \in Threads,
           UNCHANGED <<volume, diskVars, mountVars, req, alone, bad, expected>>,
           pc[t] \notin WritePcs \cup {"idle"},
           NEW next \in Pcs, pc' = [pc EXCEPT ![t] = next],
           next \notin {"TestTrigger", "CheckRange"} \cup WritePcs,
           NEW b, buf' = [buf EXCEPT ![t] = b],
           reply' = [u \in Threads |-> reply'[u]]
    PROVE  /\ Fields' /\ Writers' /\ SettledIntact' /\ Guarded'
           /\ \A u \in Threads \ {t} : pc'[u] = pc[u] /\ buf'[u] = buf[u]
           /\ pc'[t] = next /\ buf'[t] = b
           /\ \A u \in Threads :
                /\ \A s \in bad'[u] : s \in Sectors' /\ ~Authentic(s)'
                /\ \A w \in Threads : pc'[w] \in WritePcs => bad'[u] \cap SpanOf(req'[w]) = {}
<1>1. /\ \A u \in Threads \ {t} : pc'[u] = pc[u] /\ buf'[u] = buf[u]
      /\ pc'[t] = next /\ buf'[t] = b
  BY DEF Inv, Fields
<1>2. Fields'
  BY <1>1 DEF Inv, Fields, mountVars
<1>3. Writers' /\ SettledIntact' /\ Guarded'
  BY <1>1, <1>2, ReadStep
<1>4. \A u \in Threads :
        /\ \A s \in bad'[u] : s \in Sectors' /\ ~Authentic(s)'
        /\ \A w \in Threads : pc'[w] \in WritePcs => bad'[u] \cap SpanOf(req'[w]) = {}
  BY <1>1 DEF Inv, Readers, diskVars, Sectors, Authentic, SpanOf, Mac
<1>. QED  BY <1>1, <1>2, <1>3, <1>4

LEMMA ReadAtInv == ASSUME Inv, NEW t \in Threads, ReadAt(t) PROVE Inv'
<1>. DEFINE b == [s \in SpanOf(req[t]) |-> data[s]]
<1>1. CASE v2Active
  <2>1. /\ pc[t] = "ReadAt" /\ pc' = [pc EXCEPT ![t] = "ReadTags"] /\ buf' = [buf EXCEPT ![t] = b]
        /\ UNCHANGED <<volume, diskVars, mountVars, req, reply, alone, bad, expected>>
        /\ reply' = [u \in Threads |-> reply'[u]]
    BY <1>1 DEF ReadAt, Inv, Fields
  <2>. HIDE DEF b
  <2>2. /\ Fields' /\ Writers' /\ SettledIntact' /\ Guarded'
        /\ \A u \in Threads \ {t} : pc'[u] = pc[u] /\ buf'[u] = buf[u]
        /\ pc'[t] = "ReadTags" /\ buf'[t] = b
        /\ \A u \in Threads :
             /\ \A s \in bad'[u] : s \in Sectors' /\ ~Authentic(s)'
             /\ \A w \in Threads : pc'[w] \in WritePcs => bad'[u] \cap SpanOf(req'[w]) = {}
    BY <2>1, ReadingStep DEF Pcs, WritePcs
  <2>3. bad[t] \subseteq SpanOf(req[t]) /\ \A s \in bad[t] : b[s] = data[s]
    BY <2>1 DEF Inv, Readers, b
  <2>4. Readers'
    BY <2>1, <2>2, <2>3 DEF Inv, Readers, diskVars, mountVars, CountPcs, SpanOf
  <2>. QED  BY <2>2, <2>4 DEF Inv
<1>2. CASE ~v2Active
  <2>1. /\ pc[t] = "ReadAt" /\ pc' = [pc EXCEPT ![t] = "done"] /\ buf' = [buf EXCEPT ![t] = buf[t]]
        /\ UNCHANGED <<volume, diskVars, mountVars, req, alone, bad, expected>>
        /\ reply' = [u \in Threads |-> reply'[u]]
    BY <1>2 DEF ReadAt, Answer, Inv, Fields
  <2>2. /\ Fields' /\ Writers' /\ SettledIntact' /\ Guarded'
        /\ \A u \in Threads \ {t} : pc'[u] = pc[u] /\ buf'[u] = buf[u]
        /\ pc'[t] = "done" /\ buf'[t] = buf[t]
        /\ \A u \in Threads :
             /\ \A s \in bad'[u] : s \in Sectors' /\ ~Authentic(s)'
             /\ \A w \in Threads : pc'[w] \in WritePcs => bad'[u] \cap SpanOf(req'[w]) = {}
    BY <2>1, ReadingStep DEF Pcs, WritePcs
  <2>3. Readers'
    BY <1>2, <2>1, <2>2 DEF Inv, Readers, diskVars, mountVars, CountPcs, SpanOf
  <2>. QED  BY <2>2, <2>3 DEF Inv
<1>. QED  BY <1>1, <1>2

(* An answer is no data, or there is nothing bad, or tags are ignored.        *)
LEMMA AnswerStep ==
    ASSUME Inv, NEW t \in Threads, NEW status, NEW out, Answer(t, status, out),
           UNCHANGED <<volume, diskVars, mountVars, req, alone, bad, expected>>,
           pc[t] \notin WritePcs \cup {"idle"},
           NEW b, buf' = [buf EXCEPT ![t] = b],
           v2Active /\ ~ignoreTags /\ status = "ok" => bad[t] = {}
    PROVE  Inv'
<1>0. reply' = [u \in Threads |-> reply'[u]]
  BY DEF Answer, Inv, Fields
<1>1. /\ Fields' /\ Writers' /\ SettledIntact' /\ Guarded'
      /\ \A u \in Threads \ {t} : pc'[u] = pc[u] /\ buf'[u] = buf[u]
      /\ pc'[t] = "done" /\ buf'[t] = b
      /\ \A u \in Threads :
           /\ \A s \in bad'[u] : s \in Sectors' /\ ~Authentic(s)'
           /\ \A w \in Threads : pc'[w] \in WritePcs => bad'[u] \cap SpanOf(req'[w]) = {}
  BY <1>0, ReadingStep DEF Answer, Pcs, WritePcs
<1>2. reply'[t].status = status /\ \A u \in Threads \ {t} : reply'[u] = reply[u]
  BY DEF Answer, Inv, Fields
<1>3. Readers'
  BY <1>1, <1>2 DEF Inv, Readers, diskVars, mountVars, CountPcs, SpanOf
<1>. QED  BY <1>1, <1>3 DEF Inv

LEMMA ReadFailsInv == ASSUME Inv, NEW t \in Threads, ReadFails(t) PROVE Inv'
<1>1. pc[t] \notin WritePcs \cup {"idle"} /\ "error" # "ok"
  BY DEF ReadFails, WritePcs
<1>2. /\ Answer(t, "error", <<>>) /\ buf' = [buf EXCEPT ![t] = <<>>]
      /\ UNCHANGED <<volume, diskVars, mountVars, req, alone, bad, expected>>
  BY DEF ReadFails
<1>. QED  BY <1>1, <1>2, AnswerStep

(* Every sector that was bad when the read began is found.                    *)
LEMMA ReadTagsInv == ASSUME Inv, NEW t \in Threads, ReadTags(t) PROVE Inv'
<1>1. pc[t] = "ReadTags" /\ pc[t] \notin WritePcs \cup {"idle"}
  BY DEF ReadTags, WritePcs
<1>2. bad[t] \subseteq Mismatched(t)
  BY <1>1 DEF Inv, Readers, Mismatched, Authentic
<1>3. CASE Mismatched(t) = {}
  <2>1. Answer(t, "ok", Copied(req[t], buf[t])) /\ buf' = [buf EXCEPT ![t] = <<>>]
    BY <1>3 DEF ReadTags
  <2>. QED  BY <1>1, <1>2, <1>3, <2>1, AnswerStep DEF ReadTags
<1>4. CASE Mismatched(t) # {} /\ ~ignoreTags
  <2>1. Answer(t, "mismatch", <<>>) /\ buf' = [buf EXCEPT ![t] = <<>>] /\ "mismatch" # "ok"
    BY <1>4 DEF ReadTags
  <2>2. UNCHANGED <<volume, diskVars, mountVars, req, alone, bad, expected>>
    BY DEF ReadTags
  <2>. QED  BY <1>1, <2>1, <2>2, AnswerStep
<1>5. CASE Mismatched(t) # {} /\ ignoreTags
  <2>1. /\ pc' = [pc EXCEPT ![t] = "CountTest"] /\ buf' = [buf EXCEPT ![t] = buf[t]]
        /\ UNCHANGED <<volume, diskVars, mountVars, req, reply, alone, bad, expected>>
        /\ reply' = [u \in Threads |-> reply'[u]]
    BY <1>5 DEF ReadTags, Inv, Fields
  <2>2. /\ Fields' /\ Writers' /\ SettledIntact' /\ Guarded'
        /\ \A u \in Threads \ {t} : pc'[u] = pc[u] /\ buf'[u] = buf[u]
        /\ pc'[t] = "CountTest" /\ buf'[t] = buf[t]
        /\ \A u \in Threads :
             /\ \A s \in bad'[u] : s \in Sectors' /\ ~Authentic(s)'
             /\ \A w \in Threads : pc'[w] \in WritePcs => bad'[u] \cap SpanOf(req'[w]) = {}
    BY <1>1, <2>1, ReadingStep DEF Pcs, WritePcs
  <2>3. Readers'
    BY <1>5, <2>1, <2>2 DEF Inv, Readers, diskVars, mountVars, CountPcs, SpanOf
  <2>. QED  BY <2>2, <2>3 DEF Inv
<1>. QED  BY <1>3, <1>4, <1>5

(* The steps of the counters are steps of a mount that ignores tags.          *)
LEMMA CountStep ==
    ASSUME Inv, NEW t \in Threads,
           UNCHANGED <<volume, diskVars, mountVars, req, buf, reply, alone, bad, expected>>,
           pc[t] \in CountPcs, NEW next \in CountPcs, pc' = [pc EXCEPT ![t] = next]
    PROVE  Inv'
<1>1. /\ next \in Pcs /\ next \notin {"TestTrigger", "CheckRange"} \cup WritePcs
      /\ pc[t] \notin WritePcs \cup {"idle"} /\ buf' = [buf EXCEPT ![t] = buf[t]]
      /\ reply' = [u \in Threads |-> reply'[u]]
  BY DEF Inv, Fields, Pcs, CountPcs, WritePcs
<1>2. /\ Fields' /\ Writers' /\ SettledIntact' /\ Guarded'
      /\ \A u \in Threads \ {t} : pc'[u] = pc[u] /\ buf'[u] = buf[u]
      /\ pc'[t] = next /\ buf'[t] = buf[t]
      /\ \A u \in Threads :
           /\ \A s \in bad'[u] : s \in Sectors' /\ ~Authentic(s)'
           /\ \A w \in Threads : pc'[w] \in WritePcs => bad'[u] \cap SpanOf(req'[w]) = {}
  BY <1>1, ReadingStep
<1>3. ignoreTags'
  BY DEF Inv, Readers, mountVars
<1>4. Readers'
  BY <1>2, <1>3 DEF Inv, Readers, diskVars, mountVars, CountPcs, SpanOf
<1>. QED  BY <1>2, <1>4 DEF Inv

LEMMA CountInv ==
    ASSUME Inv, NEW t \in Threads, CountTest(t) \/ CountFirst(t) \/ CountLoad(t)
    PROVE  Inv'
<1>1. pc[t] \in CountPcs
  BY DEF CountTest, CountFirst, CountLoad, CountPcs
<1>2. UNCHANGED <<volume, diskVars, mountVars, req, buf, reply, alone, bad, expected>>
  BY DEF CountTest, CountFirst, CountLoad
<1>3. PICK next \in CountPcs : pc' = [pc EXCEPT ![t] = next]
  BY DEF CountTest, CountFirst, CountLoad, CountPcs
<1>. QED  BY <1>1, <1>2, <1>3, CountStep

LEMMA CountStoreInv == ASSUME Inv, NEW t \in Threads, CountStore(t) PROVE Inv'
<1>1. pc[t] = "CountStore" /\ pc[t] \in CountPcs /\ pc[t] \notin WritePcs \cup {"idle"}
  BY DEF CountStore, CountPcs, WritePcs
<1>2. ignoreTags
  BY <1>1 DEF Inv, Readers
<1>3. UNCHANGED <<volume, diskVars, mountVars, req, alone, bad, expected>>
  BY DEF CountStore
<1>4. CASE todo'[t] = {}
  <2>1. Answer(t, "ok", Copied(req[t], buf[t])) /\ buf' = [buf EXCEPT ![t] = <<>>]
    BY <1>4 DEF CountStore
  <2>. QED  BY <1>1, <1>2, <1>3, <2>1, AnswerStep
<1>5. CASE todo'[t] # {}
  <2>1. pc' = [pc EXCEPT ![t] = "CountTest"] /\ UNCHANGED <<reply, buf>>
    BY <1>5 DEF CountStore
  <2>2. "CountTest" \in CountPcs
    BY DEF CountPcs
  <2>. QED  BY <1>1, <1>3, <2>1, <2>2, CountStep
<1>. QED  BY <1>4, <1>5

LEMMA ReturnReadInv == ASSUME Inv, NEW t \in Threads, ReturnRead(t) PROVE Inv'
<1>1. /\ pc[t] = "done" /\ pc'[t] = "idle" /\ bad'[t] = {}
      /\ \A u \in Threads \ {t} : /\ pc'[u] = pc[u] /\ req'[u] = req[u] /\ bad'[u] = bad[u]
                                  /\ reply'[u] = reply[u]
  BY DEF ReturnRead, Returned, Inv, Fields
<1>2. Fields'
  BY DEF ReturnRead, Returned, Inv, Fields, mountVars, Pcs, WritePcs
<1>3. Writers' /\ SettledIntact' /\ Guarded'
  BY <1>1, <1>2, ReadStep DEF ReturnRead, WritePcs
<1>4. Readers'
  BY <1>1 DEF ReturnRead, Inv, Readers, diskVars, mountVars, Sectors, Authentic, SpanOf, Mac, WritePcs, CountPcs
<1>. QED  BY <1>2, <1>3, <1>4 DEF Inv

----------------------------------------------------------------------------
(* Writes *)

(* A write that is refused, or is on its way through the tests.               *)
LEMMA TestStep ==
    ASSUME Inv, NEW t \in Threads, Fields',
           UNCHANGED <<volume, diskVars, mountVars, buf, reply, expected, alone, bad>>,
           pc[t] \notin WritePcs,
           pc'[t] \in {"idle", "TestTrigger", "CheckRange"},
           \A u \in Threads \ {t} : pc'[u] = pc[u] /\ req'[u] = req[u]
    PROVE  Inv'
<1>1. pc'[t] \notin WritePcs
  BY DEF WritePcs
<1>2. Writers' /\ SettledIntact' /\ Guarded'
  BY <1>1, ReadStep
<1>3. Readers'
  BY ReadersFrame DEF Inv, diskVars, mountVars, WritePcs, CountPcs
<1>. QED  BY <1>2, <1>3 DEF Inv

LEMMA FuseWriteInv ==
    ASSUME Inv, NEW t \in Threads, NEW op \in Ops[volume], NEW v \in Values, FuseWrite(t, op, v)
    PROVE  Inv'
<1>1. op.off \div Units \in Int /\ op.len \div Units \in Int
  BY OpsAssumption, UnitsAssumption DEF Inv, Fields
<1>2. /\ pc[t] = "idle" /\ pc'[t] \in {"idle", "TestTrigger"}
      /\ \A u \in Threads \ {t} : pc'[u] = pc[u] /\ req'[u] = req[u]
  BY DEF FuseWrite, Returned, Inv, Fields
<1>3. UNCHANGED <<volume, diskVars, mountVars, buf, reply, expected, alone, bad>> /\ mounted
  BY DEF FuseWrite
<1>4. pc' \in [Threads -> Pcs] /\ req' = [u \in Threads |-> req'[u]]
  BY DEF FuseWrite, Returned, Inv, Fields, Pcs
<1>5. pc'[t] = "TestTrigger" => req'[t].first \in Int /\ req'[t].sectors \in Int /\ req'[t].v \in Values
  BY <1>1 DEF FuseWrite, Returned, Inv, Fields
<1>6. Fields'
  BY <1>2, <1>3, <1>4, <1>5 DEF Inv, Fields, mountVars, WritePcs
<1>. QED  BY <1>2, <1>3, <1>6, TestStep DEF WritePcs

(* A write that starts takes its sectors from all that was known of them.     *)
LEMMA BeginWriteInv ==
    ASSUME Inv, NEW t \in Threads, BeginWrite(t),
           UNCHANGED <<volume, diskVars, mountVars, buf, reply, req>>,
           pc[t] \in {"TestTrigger", "CheckRange"},
           protection = "hidden" => SpanOf(req[t]) \cap HiddenSectors = {}
    PROVE  Inv'
<1>1. /\ pc'[t] = "WriteAt" /\ \A u \in Threads \ {t} : pc'[u] = pc[u]
      /\ alone'[t] \subseteq SpanOf(req[t])
      /\ \A u \in Threads \ {t} : pc[u] \in WritePcs => alone'[t] \cap SpanOf(req[u]) = {}
      /\ \A u \in Threads \ {t} : alone'[u] = alone[u] \ SpanOf(req[t])
      /\ \A u \in Threads : bad'[u] = bad[u] \ SpanOf(req[t])
      /\ \A s \in Sectors : expected'[s] = IF s \in SpanOf(req[t]) THEN Unsettled ELSE expected[s]
  BY DEF BeginWrite, Inv, Fields, Writing, WritePcs
<1>2. /\ UNCHANGED <<volume, data, tags, mounted, protection, v2Active, ignoreTags>>
      /\ pc[t] \notin WritePcs
  BY DEF diskVars, mountVars, WritePcs
<1>3. Fields'
  <2>1. pc' \in [Threads -> Pcs] /\ mounted'
    BY DEF BeginWrite, Inv, Fields, Pcs, mountVars
  <2>2. alone' = [u \in Threads |-> alone'[u]] /\ bad' = [u \in Threads |-> bad'[u]]
    BY DEF BeginWrite
  <2>. QED  BY <1>1, <2>1, <2>2 DEF Inv, Fields, WritePcs
<1>4. Writers'
  BY <1>1, <1>2 DEF Inv, Writers, Sectors, SpanOf, WritePcs, Unit, EncryptUnit
<1>5. SettledIntact'
  BY <1>1, <1>2 DEF Inv, SettledIntact, Settled, Sectors, Unit, Authentic, Mac, EncryptUnit
<1>6. Guarded'
  BY <1>1, <1>2 DEF Inv, Guarded, SpanOf, HiddenSectors, WritePcs
<1>7. Readers'
  BY <1>1, <1>2 DEF Inv, Readers, Sectors, Authentic, SpanOf, Mac, WritePcs, CountPcs
<1>. QED  BY <1>3, <1>4, <1>5, <1>6, <1>7 DEF Inv

LEMMA TestTriggerInv == ASSUME Inv, NEW t \in Threads, TestTrigger(t) PROVE Inv'
<1>1. pc[t] = "TestTrigger" /\ UNCHANGED <<volume, diskVars, mountVars, buf, reply>>
  BY DEF TestTrigger
<1>2. CASE /\ ~triggered /\ protection # "hidden" /\ BeginWrite(t) /\ UNCHANGED req
  BY <1>1, <1>2, BeginWriteInv
<1>3. CASE /\ UNCHANGED <<expected, alone, bad>>
           /\ \/ Returned(t)
              \/ pc' = [pc EXCEPT ![t] = "CheckRange"] /\ UNCHANGED req
  <2>1. /\ pc'[t] \in {"idle", "CheckRange"} /\ (pc'[t] = "CheckRange" => req'[t] = req[t])
        /\ \A u \in Threads \ {t} : pc'[u] = pc[u] /\ req'[u] = req[u]
        /\ pc' \in [Threads -> Pcs] /\ req' = [u \in Threads |-> req'[u]]
    BY <1>3 DEF Returned, Inv, Fields, Pcs
  <2>2. Fields'
    BY <1>1, <1>3, <2>1 DEF Inv, Fields, mountVars, WritePcs
  <2>. QED  BY <1>1, <1>3, <2>1, <2>2, TestStep DEF WritePcs
<1>. QED  BY <1>2, <1>3 DEF TestTrigger

(* The two comparisons of CheckProtectedRange find every overlap.             *)
LEMMA RangeCheck ==
    ASSUME NEW r, r.first \in Int, r.sectors \in Int, volume \in Volumes,
           ~InProtectedRange(volume.offset + r.first, volume.offset + r.first + r.sectors - 1)
    PROVE  SpanOf(r) \cap HiddenSectors = {}
<1>1. volume.offset \in Int /\ volume.hiddenStart \in Int /\ volume.hiddenEnd \in Int
  BY LayoutsAssumption DEF Layouts
<1>. QED  BY <1>1 DEF InProtectedRange, SpanOf, HiddenSectors

LEMMA CheckProtectedRangeInv == ASSUME Inv, NEW t \in Threads, CheckProtectedRange(t) PROVE Inv'
<1>1. pc[t] = "CheckRange" /\ UNCHANGED <<volume, diskVars, mountVars, buf, reply>>
  BY DEF CheckProtectedRange
<1>2. CASE InProtectedRange(volume.offset + req[t].first,
                            volume.offset + req[t].first + req[t].sectors - 1)
  <2>1. Returned(t) /\ UNCHANGED <<expected, alone, bad>>
    BY <1>2 DEF CheckProtectedRange
  <2>2. /\ pc'[t] = "idle" /\ \A u \in Threads \ {t} : pc'[u] = pc[u] /\ req'[u] = req[u]
        /\ pc' \in [Threads -> Pcs] /\ req' = [u \in Threads |-> req'[u]]
    BY <2>1 DEF Returned, Inv, Fields, Pcs
  <2>3. Fields'
    BY <1>1, <2>1, <2>2 DEF Inv, Fields, mountVars, WritePcs
  <2>. QED  BY <1>1, <2>1, <2>2, <2>3, TestStep DEF WritePcs
<1>3. CASE ~InProtectedRange(volume.offset + req[t].first,
                             volume.offset + req[t].first + req[t].sectors - 1)
  <2>1. BeginWrite(t) /\ UNCHANGED req
    BY <1>3 DEF CheckProtectedRange
  <2>2. req[t].first \in Int /\ req[t].sectors \in Int /\ volume \in Volumes
    BY <1>1 DEF Inv, Fields
  <2>3. SpanOf(req[t]) \cap HiddenSectors = {}
    BY <1>3, <2>2, RangeCheck
  <2>. QED  BY <1>1, <2>1, <2>3, BeginWriteInv
<1>. QED  BY <1>2, <1>3

(* A step that writes changes the host only where its request is, and         *)
(* settles at most what no other write overlaps.                              *)
LEMMA HostStep ==
    ASSUME Inv, NEW t \in Threads, pc[t] \in WritePcs,
           UNCHANGED <<volume, mountVars, buf, reply, bad>>,
           \A s \in Sectors : s \notin SpanOf(req[t]) => data'[s] = data[s] /\ tags'[s] = tags[s],
           \A u \in Threads \ {t} : pc'[u] = pc[u] /\ req'[u] = req[u] /\ alone'[u] = alone[u],
           pc'[t] \in {"WriteTags", "idle"},
           pc'[t] = "WriteTags" =>
                /\ req'[t] = req[t] /\ alone'[t] = alone[t] /\ UNCHANGED expected
                /\ \A s \in Sectors : s \in alone[t] => data'[s] = EncryptUnit(req[t].v, Unit(s)),
           pc'[t] = "idle" => alone'[t] = {},
           \A s \in Sectors : expected'[s] # expected[s] =>
                /\ s \in alone[t] /\ data'[s] = EncryptUnit(expected'[s], Unit(s))
                /\ volume.v2 => tags'[s] = Mac(s, data'[s]),
           pc' \in [Threads -> Pcs], req' = [u \in Threads |-> req'[u]],
           alone' = [u \in Threads |-> alone'[u]]
    PROVE  Inv'
<1>1. Fields'
  BY DEF Inv, Fields, mountVars, WritePcs
<1>2. Writers'
  <2>1. /\ pc'[t] \notin WritePcs => alone'[t] = {}
        /\ alone'[t] \subseteq SpanOf(req'[t])
        /\ pc'[t] \in WritePcs => \A s \in Sectors : s \in SpanOf(req'[t]) => expected'[s] = Unsettled
        /\ \A u \in Threads : u # t /\ pc'[u] \in WritePcs => alone'[t] \cap SpanOf(req'[u]) = {}
        /\ pc'[t] = "WriteTags" =>
            \A s \in Sectors : s \in alone'[t] => data'[s] = EncryptUnit(req'[t].v, Unit(s))
    BY DEF Inv, Writers, SpanOf, WritePcs
  <2>2. ASSUME NEW u \in Threads \ {t}
        PROVE  /\ pc'[u] \notin WritePcs => alone'[u] = {}
               /\ alone'[u] \subseteq SpanOf(req'[u])
               /\ pc'[u] \in WritePcs => \A s \in Sectors : s \in SpanOf(req'[u]) => expected'[s] = Unsettled
               /\ \A w \in Threads : w # u /\ pc'[w] \in WritePcs => alone'[u] \cap SpanOf(req'[w]) = {}
               /\ pc'[u] = "WriteTags" =>
                   \A s \in Sectors : s \in alone'[u] => data'[s] = EncryptUnit(req'[u].v, Unit(s))
    <3>1. /\ pc'[u] \notin WritePcs => alone'[u] = {}
          /\ alone'[u] \subseteq SpanOf(req'[u])
          /\ \A w \in Threads : w # u /\ pc'[w] \in WritePcs => alone'[u] \cap SpanOf(req'[w]) = {}
      BY DEF Inv, Writers, SpanOf, WritePcs
    <3>2. ASSUME pc[u] \in WritePcs, NEW s \in Sectors, s \in SpanOf(req[u])
          PROVE  expected'[s] = Unsettled
      <4>1. expected[s] = Unsettled /\ s \notin alone[t]
        BY <3>2 DEF Inv, Writers
      <4>. QED  BY <4>1
    <3>3. ASSUME pc[u] = "WriteTags", NEW s \in Sectors, s \in alone[u]
          PROVE  data'[s] = EncryptUnit(req[u].v, Unit(s))
      <4>1. data[s] = EncryptUnit(req[u].v, Unit(s)) /\ s \notin SpanOf(req[t])
        BY <3>3 DEF Inv, Writers
      <4>. QED  BY <4>1
    <3>. QED  BY <3>1, <3>2, <3>3
  <2>3. Sectors' = Sectors /\ \A s : Unit(s)' = Unit(s)
    BY DEF Sectors, Unit
  <2>. QED  BY <2>1, <2>2, <2>3 DEF Writers, SpanOf, EncryptUnit
<1>3. SettledIntact'
  <2>1. ASSUME NEW s \in Sectors, expected'[s] # Unsettled
        PROVE  /\ data'[s] = EncryptUnit(expected'[s], Unit(s))
                  \/ (volume.system /\ data'[s] = EncryptUnit(expected'[s], Clear))
               /\ volume.v2 => tags'[s] = Mac(s, data'[s])
    <3>1. CASE expected'[s] # expected[s]
      BY <3>1
    <3>2. CASE expected'[s] = expected[s]
      <4>1. s \notin SpanOf(req[t])
        BY <2>1, <3>2 DEF Inv, Writers
      <4>2. data'[s] = data[s] /\ tags'[s] = tags[s]
        BY <4>1
      <4>. QED  BY <2>1, <3>2, <4>2 DEF Inv, SettledIntact, Settled, Authentic
    <3>. QED  BY <3>1, <3>2
  <2>. QED  BY <2>1 DEF SettledIntact, Settled, Sectors, Unit, Authentic, EncryptUnit, Mac
<1>4. Guarded'
  BY GuardedFrame DEF Inv, mountVars, WritePcs
<1>5. Readers'
  BY DEF Inv, Readers, mountVars, Sectors, Authentic, SpanOf, Mac, WritePcs, CountPcs
<1>. QED  BY <1>1, <1>2, <1>3, <1>4, <1>5 DEF Inv

LEMMA PrefixInside ==
    ASSUME NEW r, r.first \in Int, r.sectors \in Int, NEW n \in 0 .. r.sectors
    PROVE  Prefix(r, n) \subseteq SpanOf(r)
BY DEF Prefix, SpanOf

(* The write has reached the host, and is answered with success.              *)
LEMMA SucceedFacts ==
    ASSUME Inv, NEW t \in Threads, pc[t] \in WritePcs, Succeed(t)
    PROVE  /\ \A u \in Threads \ {t} : pc'[u] = pc[u] /\ req'[u] = req[u] /\ alone'[u] = alone[u]
           /\ pc'[t] = "idle" /\ alone'[t] = {}
           /\ pc' \in [Threads -> Pcs] /\ req' = [u \in Threads |-> req'[u]]
           /\ alone' = [u \in Threads |-> alone'[u]]
           /\ \A s \in Sectors : expected'[s] # expected[s] =>
                s \in alone[t] /\ expected'[s] = req[t].v /\ (volume.v2 => v2Active)
BY DEF Succeed, Returned, Inv, Fields, Pcs

LEMMA WriteAtInv == ASSUME Inv, NEW t \in Threads, WriteAt(t) PROVE Inv'
<1>1. /\ pc[t] = "WriteAt" /\ pc[t] \in WritePcs
      /\ UNCHANGED <<volume, mountVars, buf, reply, bad, tags>>
  BY DEF WriteAt, WritePcs
<1>2. \A s \in Sectors : data'[s] = IF s \in SpanOf(req[t]) THEN EncryptUnit(req[t].v, Unit(s)) ELSE data[s]
  BY DEF WriteAt, WrittenData, Prefix, SpanOf
<1>3. alone[t] \subseteq SpanOf(req[t])
  BY DEF Inv, Writers
<1>4. CASE v2Active
  <2>1. pc' = [pc EXCEPT ![t] = "WriteTags"] /\ UNCHANGED <<req, expected, alone>>
    BY <1>4 DEF WriteAt
  <2>2. /\ \A u \in Threads \ {t} : pc'[u] = pc[u] /\ req'[u] = req[u] /\ alone'[u] = alone[u]
        /\ pc'[t] = "WriteTags" /\ pc' \in [Threads -> Pcs] /\ req' = [u \in Threads |-> req'[u]]
        /\ alone' = [u \in Threads |-> alone'[u]]
    BY <2>1 DEF Inv, Fields, Pcs
  <2>. QED  BY <1>1, <1>2, <1>3, <2>1, <2>2, HostStep
<1>5. CASE ~v2Active
  <2>1. Succeed(t)
    BY <1>5 DEF WriteAt
  <2>. QED  BY <1>1, <1>2, <1>3, <1>5, <2>1, SucceedFacts, HostStep
<1>. QED  BY <1>4, <1>5

LEMMA WriteTagsInv == ASSUME Inv, NEW t \in Threads, WriteTags(t) PROVE Inv'
<1>1. /\ pc[t] = "WriteTags" /\ pc[t] \in WritePcs /\ Succeed(t)
      /\ UNCHANGED <<volume, mountVars, buf, reply, bad, data>>
  BY DEF WriteTags, WritePcs
<1>2. \A s \in Sectors :
        tags'[s] = IF s \in SpanOf(req[t]) THEN Mac(s, EncryptUnit(req[t].v, Unit(s))) ELSE tags[s]
  BY DEF WriteTags, WrittenTags, Prefix, SpanOf
<1>3. /\ alone[t] \subseteq SpanOf(req[t])
      /\ \A s \in Sectors : s \in alone[t] => data[s] = EncryptUnit(req[t].v, Unit(s))
  BY <1>1 DEF Inv, Writers
<1>. QED  BY <1>1, <1>2, <1>3, SucceedFacts, HostStep

LEMMA WriteFailsInv == ASSUME Inv, NEW t \in Threads, WriteFails(t) PROVE Inv'
<1>1. /\ pc[t] \in WritePcs /\ UNCHANGED <<volume, mountVars, buf, reply, bad, expected>>
  BY DEF WriteFails, WritePcs
<1>2. PICK n \in 0 .. req[t].sectors - 1 :
        \/ pc[t] = "WriteAt"   /\ data' = WrittenData(t, n) /\ UNCHANGED tags
        \/ pc[t] = "WriteTags" /\ tags' = WrittenTags(t, n) /\ UNCHANGED data
  BY DEF WriteFails
<1>3. Prefix(req[t], n) \subseteq SpanOf(req[t])
  <2>1. req[t].first \in Int /\ req[t].sectors \in Int
    BY <1>1 DEF Inv, Fields
  <2>2. n \in 0 .. req[t].sectors
    BY <2>1
  <2>. QED  BY <2>1, <2>2, PrefixInside
<1>4. \A s \in Sectors : s \notin SpanOf(req[t]) => data'[s] = data[s] /\ tags'[s] = tags[s]
  BY <1>2, <1>3 DEF WrittenData, WrittenTags
<1>5. /\ \A u \in Threads \ {t} : pc'[u] = pc[u] /\ req'[u] = req[u] /\ alone'[u] = alone[u]
      /\ pc'[t] = "idle" /\ alone'[t] = {}
      /\ pc' \in [Threads -> Pcs] /\ req' = [u \in Threads |-> req'[u]]
      /\ alone' = [u \in Threads |-> alone'[u]]
  BY DEF WriteFails, Returned, Inv, Fields, Pcs
<1>. QED  BY <1>1, <1>4, <1>5, HostStep

----------------------------------------------------------------------------
(* Every step *)

LEMMA CallInv == ASSUME Inv, NEW t \in Threads, Call(t) PROVE Inv'
BY FuseReadInv, FuseWriteInv, ReadAtInv, ReadTagsInv, ReadFailsInv, CountInv, CountStoreInv,
   TestTriggerInv, CheckProtectedRangeInv, WriteAtInv, WriteTagsInv, WriteFailsInv, ReturnReadInv
   DEF Call

LEMMA StutterInv == ASSUME Inv, UNCHANGED vars PROVE Inv'
<1>1. UNCHANGED <<volume, data, tags, mounted, protection, v2Active, ignoreTags,
                  pc, req, buf, reply, expected, alone, bad>>
  BY DEF vars, diskVars, mountVars
<1>2. Fields'
  BY <1>1 DEF Inv, Fields
<1>3. Writers' /\ SettledIntact'
  BY <1>1, <1>2, WritersFrame DEF Inv, Fields
<1>4. Guarded' /\ Readers'
  BY <1>1, GuardedFrame, ReadersFrame DEF Inv
<1>. QED  BY <1>2, <1>3, <1>4 DEF Inv

(* Every step of every request, mount and failure preserves it.               *)
LEMMA StepInv == Inv /\ [Next]_vars => Inv'
<1>. SUFFICES ASSUME Inv, [Next]_vars PROVE Inv'
  OBVIOUS
<1>1. ASSUME NEW t \in Threads, Call(t) PROVE Inv'
  BY <1>1, CallInv
<1>2. ASSUME NEW prot \in Protections, NEW ignore \in BOOLEAN, NEW require \in BOOLEAN,
             NEW error \in BOOLEAN, Open(prot, ignore, require, error)
      PROVE  Inv'
  BY <1>2, OpenInv
<1>3. CASE CloseMountedVolume
  BY <1>3, CloseInv
<1>4. CASE ServiceDies \/ PowerFails
  BY <1>4, ServiceDiesInv, PowerFailsInv
<1>5. ASSUME NEW s \in Sectors, WriteBack(s) PROVE Inv'
  BY <1>5, WriteBackInv
<1>6. CASE UNCHANGED vars
  BY <1>6, StutterInv
<1>. QED  BY <1>1, <1>2, <1>3, <1>4, <1>5, <1>6 DEF Next

LEMMA Invariance == Spec => []Inv
BY InitInv, StepInv, PTL DEF Spec

----------------------------------------------------------------------------
(* What a write left when it was answered with success can be read back and   *)
(* authenticates (Volume::WriteSectors): a sector being written is not        *)
(* settled, and it is settled again only by a writer that had it for itself   *)
(* and wrote its data and its tag.                                            *)
THEOREM AcknowledgedIsIntact == Spec => []SettledIntact
<1>1. Inv => SettledIntact
  BY DEF Inv
<1>. QED  BY <1>1, Invariance, PTL

(* While tags are verified, what did not authenticate is not returned         *)
(* (V2SectorMacIo::VerifyRange).                                              *)
THEOREM BadTagRefuses == Spec => []FailsClosed
<1>1. Inv => FailsClosed
  BY DEF Inv, Readers, FailsClosed
<1>. QED  BY <1>1, Invariance, PTL

(* No request writes to a hidden volume that is protected                     *)
(* (Volume::CheckProtectedRange): the range was compared before the write     *)
(* began, and neither the range nor the request changes until it ends.        *)
THEOREM HiddenIsProtected == Spec => ProtectedIntact
<1>1. Inv /\ [Next]_vars =>
        [mounted /\ mounted' /\ protection = "hidden" => \A s \in HiddenSectors : data'[s] = data[s]]_vars
  <2>. SUFFICES ASSUME Inv, Next, mounted, mounted', protection = "hidden", NEW s \in HiddenSectors
                PROVE  data'[s] = data[s]
    BY DEF vars
  <2>1. s \in Sectors
    BY LayoutsAssumption DEF Inv, Fields, HiddenSectors, Sectors, Layouts
  <2>2. ASSUME NEW t \in Threads, pc[t] \in WritePcs PROVE s \notin SpanOf(req[t])
    BY <2>2 DEF Inv, Guarded
  <2>3. ASSUME NEW t \in Threads, WriteAt(t) PROVE data'[s] = data[s]
    BY <2>1, <2>2, <2>3 DEF WriteAt, WrittenData, Prefix, SpanOf, WritePcs
  <2>4. ASSUME NEW t \in Threads, WriteFails(t) PROVE data'[s] = data[s]
    <3>1. PICK n \in 0 .. req[t].sectors - 1 : data' = data \/ data' = WrittenData(t, n)
      BY <2>4 DEF WriteFails
    <3>2. req[t].first \in Int /\ req[t].sectors \in Int /\ pc[t] \in WritePcs
      BY <2>4 DEF WriteFails, Inv, Fields, WritePcs
    <3>3. n \in 0 .. req[t].sectors
      BY <3>2
    <3>4. s \notin Prefix(req[t], n)
      BY <2>2, <3>2, <3>3, PrefixInside
    <3>. QED  BY <2>1, <3>1, <3>4 DEF WrittenData
  <2>5. ASSUME NEW t \in Threads, Call(t) PROVE data'[s] = data[s]
    <3>1. WriteAt(t) \/ WriteFails(t) \/ UNCHANGED data
      BY <2>5 DEF Call, FuseRead, FuseWrite, ReadAt, ReadTags, ReadFails, CountTest, CountFirst,
                  CountLoad, CountStore, TestTrigger, CheckProtectedRange, WriteTags, ReturnRead, diskVars
    <3>. QED  BY <2>3, <2>4, <3>1
  <2>6. CASE ServiceDies \/ PowerFails
    BY <2>6 DEF ServiceDies, PowerFails, Closed
  <2>7. CASE \/ \E prot \in Protections, ignore, require, error \in BOOLEAN :
                    Open(prot, ignore, require, error)
             \/ CloseMountedVolume
             \/ \E sector \in Sectors : WriteBack(sector)
    BY <2>7 DEF Open, CloseMountedVolume, WriteBack, diskVars
  <2>. QED  BY <2>5, <2>6, <2>7 DEF Next
<1>. QED  BY <1>1, Invariance, PTL DEF Spec, ProtectedIntact

(* A mount finds the tags of a V2 volume whose first sector is settled        *)
(* (V2FormatDiscoverMode).                                                    *)
THEOREM MountFindsTags == Spec => OpensAuthenticated
<1>1. Inv => [\A prot \in Protections, ignore, require \in BOOLEAN :
                Open(prot, ignore, require, FALSE) /\ volume.v2 /\ 0 \in Settled => v2Active']_vars
  BY DEF Inv, SettledIntact, Open, DiscoverMode
<1>. QED  BY <1>1, Invariance, PTL DEF OpensAuthenticated

----------------------------------------------------------------------------
(* What is returned, and what is left of the tags that were ignored           *)

ReadPcs == {"ReadAt", "ReadTags", "done"} \cup CountPcs
TestPcs == {"TestTrigger", "CheckRange"}

(* A read covers, from the sector of its first unit, the sectors of its units *)
ReadRequest(r) ==
    /\ r.off \in Nat /\ r.len \in Nat \ {0} /\ r.first = r.off \div Units
    /\ r.sectors = AlignedSectors(r.off, r.len)

Shape ==
    /\ count \in [Threads -> 0 .. MaxIgnored]
    /\ calm = [t \in Threads |-> calm[t]]
    /\ \A t \in Threads : pc[t] \in ReadPcs => ReadRequest(req[t])

(* What a mount has tested, and what a volume without tags never has.         *)
Mount ==
    /\ mounted /\ volume.system =>
        volume.start \in volume.areaStart .. volume.areaStart + volume.areaLength - 1
    /\ mounted /\ EncryptionNotCompleted => protection = "readonly"
    /\ \A t \in Threads : pc[t] \in TestPcs \cup WritePcs => protection # "readonly"
    /\ ~volume.v2 => ~v2Active /\ \A s \in Sectors : tags[s] = NoTag /\ mediaTags[s] = NoTag
    /\ \A t \in Threads : pc[t] \in {"ReadTags", "WriteTags"} => v2Active

(* A settled sector is encrypted if it lies in the encrypted area, except for *)
(* a repaired first one.                                                      *)
Placed ==
    \A s \in Settled :
        \/ data[s] = EncryptUnit(expected[s], Unit(s)) /\ EncryptedBefore(s)
        \/ /\ volume.system /\ data[s] = EncryptUnit(expected[s], Clear)
           /\ EncryptedBefore(s) => s = 0

AnswersAsked(t) ==
    /\ reply[t].status = "ok"
    /\ reply[t].out = [j \in 0 .. req[t].len - 1 |->
            <<expected[(req[t].off + j) \div Units], (req[t].off + j) % Units>>]

(* Calm sectors stay settled; a read that finds all of its sectors calm finds *)
(* all tags fitting.                                                          *)
CalmOf(t) ==
    /\ calm[t] \subseteq Settled
    /\ pc[t] = "ReadTags" => \A s \in calm[t] : s \in SpanOf(req[t]) => buf[t][s] = data[s]
    /\ pc[t] \in CountPcs => ~(SpanOf(req[t]) \subseteq calm[t])
    /\ pc[t] = "done" /\ reply[t].status \in {"ok", "mismatch"} /\ SpanOf(req[t]) \subseteq calm[t]
            => AnswersAsked(t)
Calm == \A t \in Threads : CalmOf(t)

(* Before a sector is counted it is known to be ignored, and one is recorded  *)
(* as the first.                                                              *)
CountingOf(t) ==
    /\ pc[t] \in CountPcs => todo[t] # {} /\ todo[t] \subseteq ignored
    /\ pc[t] \in {"CountLoad", "CountStore"} => firstIgnored \in ignored
    /\ pc[t] = "done" /\ reply[t].status = "ok" /\ v2Active /\ bad[t] # {} => ignoredCount > 0
Counting ==
    /\ \A t \in Threads : CountingOf(t)
    /\ ignoredCount > 0 => firstIgnored \in ignored

Returns == TypeOK /\ Shape /\ Mount /\ Placed /\ Calm /\ Counting

----------------------------------------------------------------------------
(* Arithmetic of units and sectors *)

LEMMA LeastIn == ASSUME NEW S, S \subseteq Nat, S # {} PROVE Least(S) \in S /\ \A y \in S : Least(S) <= y
<1>. DEFINE below(x) == 0 .. x
            T == {below(x) : x \in S}
            R == StrictSubsetOrdering(Nat)
<1>1. T \subseteq FiniteSubsetsOf(Nat)
  <2>1. \A x \in S : below(x) \in SUBSET Nat
    OBVIOUS
  <2>2. \A x \in S : IsFiniteSet(below(x))
    BY FS_Interval
  <2>. QED  BY <2>1, <2>2 DEF FiniteSubsetsOf
<1>2. IsWellFoundedOn(R, FiniteSubsetsOf(Nat)) /\ T # {}
  BY FS_StrictSubsetOrderingWellFounded
<1>3. PICK b \in T : \A c \in T : ~ (<<c, b>> \in R)
  <2>. HIDE DEF T, R
  <2>. QED  BY <1>1, <1>2, WFMin
<1>4. PICK x \in S : b = below(x)
  OBVIOUS
<1>5. ASSUME NEW y \in S PROVE x <= y
  <2>1. SUFFICES ASSUME y < x PROVE FALSE
    OBVIOUS
  <2>2. below(y) \subseteq below(x) /\ below(y) # below(x)
    <3>1. x \in below(x) /\ x \notin below(y)
      BY <2>1
    <3>. QED  BY <3>1, <2>1
  <2>3. <<below(y), below(x)>> \in R
    BY <2>2 DEF StrictSubsetOrdering
  <2>. QED  BY <1>3, <1>4, <2>3
<1>. QED  BY <1>5 DEF Least

LEMMA DivFacts ==
    ASSUME NEW n \in Nat
    PROVE  n \div Units \in Nat /\ n % Units \in 0 .. Units - 1 /\ n = Units * (n \div Units) + (n % Units)
BY UnitsAssumption

LEMMA DivUnique ==
    ASSUME NEW q \in Nat, NEW r \in 0 .. Units - 1, NEW n \in Nat, n = Units * q + r
    PROVE  n \div Units = q /\ n % Units = r
BY UnitsAssumption

LEMMA DivShift ==
    ASSUME NEW n \in Nat, NEW q \in Nat
    PROVE  (Units * q + n) \div Units = q + (n \div Units) /\ (Units * q + n) % Units = n % Units
<1>1. n \div Units \in Nat /\ n % Units \in 0 .. Units - 1 /\ n = Units * (n \div Units) + (n % Units)
  BY DivFacts
<1>2. Units * q + n = Units * (q + (n \div Units)) + (n % Units)
  BY <1>1, UnitsAssumption
<1>3. Units * q + n \in Nat /\ q + (n \div Units) \in Nat
  BY <1>1, UnitsAssumption
<1>. QED  BY <1>1, <1>2, <1>3, DivUnique

(* n units reach into fewer than q sectors.                                   *)
LEMMA DivLess == ASSUME NEW n \in Nat, NEW q \in Nat, n < q * Units PROVE n \div Units < q
BY UnitsAssumption

LEMMA DivAtMost ==
    ASSUME NEW n \in Nat, NEW q \in Nat, n <= q * Units PROVE (n + Units - 1) \div Units <= q
BY UnitsAssumption

LEMMA DivAtLeast ==
    ASSUME NEW n \in Nat, NEW k \in Nat, k < n PROVE k \div Units < (n + Units - 1) \div Units
BY UnitsAssumption

(* Unit j of a request is unit k of what its sectors hold, and in one of them *)
LEMMA UnitOf ==
    ASSUME NEW r, ReadRequest(r), NEW j \in 0 .. r.len - 1
    PROVE  LET k == (r.off % Units) + j IN
           /\ r.first + (k \div Units) = (r.off + j) \div Units /\ k % Units = (r.off + j) % Units
           /\ r.first + (k \div Units) \in SpanOf(r)
<1>. DEFINE k == (r.off % Units) + j
<1>1. /\ r.off \in Nat /\ r.first \in Nat /\ r.off % Units \in Nat /\ r.len \in Nat
      /\ r.off = Units * r.first + (r.off % Units)
  BY DivFacts DEF ReadRequest
<1>2. k \in Nat /\ r.off + j = Units * r.first + k /\ k < r.len + (r.off % Units)
  <2>1. j \in Nat /\ j < r.len
    BY <1>1
  <2>. QED  BY <1>1, <2>1, UnitsAssumption
<1>3. (r.off + j) \div Units = r.first + (k \div Units) /\ (r.off + j) % Units = k % Units
  <2>. HIDE DEF k
  <2>. QED  BY <1>1, <1>2, DivShift
<1>4. k \div Units < r.sectors /\ k \div Units \in Nat
  <2>1. r.sectors = ((r.len + (r.off % Units)) + Units - 1) \div Units
    BY DEF ReadRequest, AlignedSectors
  <2>. HIDE DEF k
  <2>2. k \div Units < ((r.len + (r.off % Units)) + Units - 1) \div Units
    BY <1>1, <1>2, DivAtLeast
  <2>. QED  BY <1>2, <2>1, <2>2, DivFacts
<1>5. r.sectors \in Int
  BY <1>1, UnitsAssumption DEF ReadRequest, AlignedSectors
<1>. QED  BY <1>1, <1>3, <1>4, <1>5 DEF SpanOf

(* A read that is clamped stays within the volume.                            *)
LEMMA ReadFits ==
    ASSUME NEW r, ReadRequest(r), NEW n \in Nat, r.off + r.len <= n * Units
    PROVE  SpanOf(r) \subseteq 0 .. n - 1
<1>1. /\ r.off \in Nat /\ r.first \in Nat /\ r.off % Units \in Nat /\ r.len \in Nat
      /\ r.off = Units * r.first + (r.off % Units)
  BY DivFacts DEF ReadRequest
<1>2. r.off < n * Units
  <2>1. n * Units \in Nat /\ r.len > 0
    BY UnitsAssumption DEF ReadRequest
  <2>. QED  BY <1>1, <2>1
<1>3. r.first < n
  BY <1>1, <1>2, DivLess DEF ReadRequest
<1>. DEFINE m == r.len + (r.off % Units)
<1>4. m \in Nat /\ m <= (n - r.first) * Units
  <2>1. (n - r.first) * Units = n * Units - Units * r.first
    BY <1>1, UnitsAssumption
  <2>2. n * Units \in Nat /\ Units * r.first \in Nat
    BY <1>1, UnitsAssumption
  <2>. QED  BY <1>1, <2>1, <2>2
<1>5. r.sectors <= n - r.first
  <2>1. r.sectors = (m + Units - 1) \div Units
    BY DEF ReadRequest, AlignedSectors
  <2>2. n - r.first \in Nat
    BY <1>1, <1>3
  <2>. HIDE DEF m
  <2>. QED  BY <1>4, <2>1, <2>2, DivAtMost
<1>6. r.sectors \in Int
  BY <1>1, UnitsAssumption DEF ReadRequest, AlignedSectors
<1>. QED  BY <1>1, <1>5, <1>6 DEF SpanOf

(* The buffer of a read whose sectors are settled decrypts to what they are   *)
(* expected to hold.                                                          *)
LEMMA Decrypts ==
    ASSUME Inv, TypeOK, Mount, Placed, NEW r, ReadRequest(r), NEW b,
           mounted, SpanOf(r) \subseteq Settled, \A s \in SpanOf(r) : b[s] = data[s]
    PROVE  \A s \in SpanOf(r) : Decrypted(r, b)[s] = expected[s]
<1>. TAKE s \in SpanOf(r)
<1>. DEFINE plainFirst == volume.system /\ volume.offset + r.first = 0 /\ b[r.first].at = Clear
            decrypts == /\ ~(plainFirst /\ s = r.first)
                        /\ EncryptionNotCompleted => volume.offset + s < EncryptedDataSize
<1>1. Decrypted(r, b)[s] = DecryptUnit(b[s], IF decrypts THEN Unit(s) ELSE Clear)
  BY DEF Decrypted
<1>2. s \in Settled /\ s \in Sectors /\ b[s] = data[s]
  BY DEF Settled
<1>3. /\ volume.offset \in Nat /\ volume.size \in Nat /\ volume.start \in Nat /\ volume.areaStart \in Nat
      /\ volume.areaLength \in Nat /\ volume.driveSize \in Nat /\ volume.system \in BOOLEAN
      /\ volume.system => volume.offset = 0 /\ volume.start + volume.size <= volume.driveSize
  BY LayoutsAssumption DEF TypeOK, Layouts
<1>4. s \in Nat /\ s < volume.size /\ r.first \in Nat /\ r.first <= s
  <2>1. r.first \in Nat
    BY DivFacts DEF ReadRequest
  <2>. QED  BY <1>2, <1>3, <2>1 DEF Sectors, SpanOf
<1>5. Unit(s) \in Nat /\ Unit(s) # Clear
  BY <1>3, <1>4 DEF Unit, Clear
<1>6. volume.system => volume.start >= volume.areaStart
  BY <1>3 DEF Mount
<1>7. CASE data[s] = EncryptUnit(expected[s], Unit(s)) /\ EncryptedBefore(s)
  <2>1. decrypts
    <3>1. ~(plainFirst /\ s = r.first)
      BY <1>2, <1>5, <1>7 DEF EncryptUnit
    <3>2. EncryptionNotCompleted => volume.offset + s < EncryptedDataSize
      BY <1>3, <1>4, <1>6, <1>7 DEF EncryptionNotCompleted, EncryptedDataSize, EncryptedBefore
    <3>. QED  BY <3>1, <3>2
  <2>. QED  BY <1>1, <1>2, <1>7, <2>1 DEF DecryptUnit, EncryptUnit
<1>8. CASE /\ volume.system /\ data[s] = EncryptUnit(expected[s], Clear)
           /\ EncryptedBefore(s) => s = 0
  <2>1. ~decrypts
    <3>1. CASE s = 0
      <4>1. r.first = s /\ volume.offset + r.first = 0
        BY <1>3, <1>4, <1>8, <3>1
      <4>. QED  BY <1>2, <1>8, <4>1 DEF EncryptUnit
    <3>2. CASE ~EncryptedBefore(s)
      <4>1. EncryptionNotCompleted
        BY <1>3, <1>4, <1>6, <1>8, <3>2 DEF EncryptionNotCompleted, EncryptedBefore
      <4>2. ~(volume.offset + s < EncryptedDataSize)
        BY <1>3, <1>4, <1>6, <1>8, <3>2 DEF EncryptedDataSize, EncryptedBefore
      <4>. QED  BY <4>1, <4>2
    <3>. QED  BY <1>8, <3>1, <3>2
  <2>. QED  BY <1>1, <1>2, <1>8, <2>1 DEF DecryptUnit, EncryptUnit
<1>. QED  BY <1>2, <1>7, <1>8 DEF Placed

LEMMA CopiedIsAsked ==
    ASSUME Inv, TypeOK, Mount, Placed, NEW r, ReadRequest(r), NEW b,
           mounted, SpanOf(r) \subseteq Settled, \A s \in SpanOf(r) : b[s] = data[s]
    PROVE  Copied(r, b) = [j \in 0 .. r.len - 1 |->
                <<expected[(r.off + j) \div Units], (r.off + j) % Units>>]
<1>1. ASSUME NEW j \in 0 .. r.len - 1
      PROVE  <<Decrypted(r, b)[r.first + ((r.off % Units) + j) \div Units], ((r.off % Units) + j) % Units>>
              = <<expected[(r.off + j) \div Units], (r.off + j) % Units>>
  <2>1. /\ r.first + (((r.off % Units) + j) \div Units) = (r.off + j) \div Units
        /\ ((r.off % Units) + j) % Units = (r.off + j) % Units
        /\ r.first + (((r.off % Units) + j) \div Units) \in SpanOf(r)
    BY <1>1, UnitOf
  <2>2. Decrypted(r, b)[r.first + (((r.off % Units) + j) \div Units)]
         = expected[r.first + (((r.off % Units) + j) \div Units)]
    BY <2>1, Decrypts
  <2>. QED  BY <2>1, <2>2
<1>. QED  BY <1>1 DEF Copied

----------------------------------------------------------------------------
(* What a step of one thread leaves to the others                             *)

CalmKept(u) ==
    /\ calm'[u] \subseteq calm[u]
    /\ \A s \in calm'[u] : expected'[s] = expected[s] /\ data'[s] = data[s]

LEMMA OthersCalm ==
    ASSUME Shape, Calm, NEW u \in Threads, UNCHANGED volume,
           pc'[u] = pc[u], req'[u] = req[u], buf'[u] = buf[u], reply'[u] = reply[u], CalmKept(u)
    PROVE  CalmOf(u)'
<1>1. calm'[u] \subseteq Settled'
  BY DEF Calm, CalmOf, CalmKept, Settled, Sectors
<1>2. pc'[u] = "ReadTags" => \A s \in calm'[u] : s \in SpanOf(req'[u]) => buf'[u][s] = data'[s]
  BY DEF Calm, CalmOf, CalmKept
<1>3. pc'[u] \in CountPcs => ~(SpanOf(req'[u]) \subseteq calm'[u])
  BY DEF Calm, CalmOf, CalmKept
<1>4. ASSUME pc[u] = "done", reply[u].status \in {"ok", "mismatch"}, SpanOf(req[u]) \subseteq calm'[u]
      PROVE  AnswersAsked(u)'
  <2>1. AnswersAsked(u) /\ ReadRequest(req[u])
    BY <1>4 DEF Calm, CalmOf, CalmKept, Shape, ReadPcs
  <2>2. \A j \in 0 .. req[u].len - 1 :
            expected'[(req[u].off + j) \div Units] = expected[(req[u].off + j) \div Units]
    BY <1>4, <2>1, UnitOf DEF CalmKept
  <2>. QED  BY <2>1, <2>2 DEF AnswersAsked
<1>. QED  BY <1>1, <1>2, <1>3, <1>4 DEF CalmOf, SpanOf

LEMMA MountFrame ==
    ASSUME Mount, UNCHANGED <<volume, mounted, protection, v2Active>>,
           \A s \in Sectors : ~volume.v2 => tags'[s] = NoTag /\ mediaTags'[s] = NoTag,
           \A t \in Threads : pc'[t] \in TestPcs \cup WritePcs => protection # "readonly",
           \A t \in Threads : pc'[t] \in {"ReadTags", "WriteTags"} => v2Active
    PROVE  Mount'
BY DEF Mount, Sectors, EncryptionNotCompleted

(* Sectors may become unsettled.                                              *)
LEMMA PlacedFrame ==
    ASSUME Placed, UNCHANGED <<volume, data>>,
           \A s \in Sectors : expected'[s] # Unsettled => expected'[s] = expected[s]
    PROVE  Placed'
<1>. SUFFICES ASSUME NEW s \in Sectors, expected'[s] # Unsettled
              PROVE  \/ data'[s] = EncryptUnit(expected'[s], Unit(s)) /\ EncryptedBefore(s)
                     \/ /\ volume.system /\ data'[s] = EncryptUnit(expected'[s], Clear)
                        /\ EncryptedBefore(s) => s = 0
  BY DEF Placed, Settled, Sectors, Unit, EncryptedBefore, EncryptUnit
<1>1. s \in Settled /\ expected'[s] = expected[s]
  BY DEF Settled
<1>. QED  BY <1>1 DEF Placed

Others(t) ==
    \A u \in Threads \ {t} :
        /\ pc'[u] = pc[u] /\ req'[u] = req[u] /\ buf'[u] = buf[u] /\ reply'[u] = reply[u]
        /\ calm'[u] = calm[u] /\ bad'[u] = bad[u] /\ todo'[u] = todo[u]

(* A step of a thread that reads changes no sector and no mount.              *)
LEMMA ReaderReturns ==
    ASSUME Inv, Returns, Inv', NEW t \in Threads, Others(t),
           UNCHANGED <<volume, diskVars, mountVars, triggered, expected>>,
           pc'[t] \notin TestPcs \cup WritePcs, pc'[t] = "ReadTags" => v2Active,
           pc'[t] \in ReadPcs => ReadRequest(req'[t]), SpanOf(req'[t]) \subseteq Sectors,
           CalmOf(t)', CountingOf(t)',
           ignoredCount' \in 0 .. MaxIgnored, firstIgnored' \in Sectors, ignored' \subseteq Sectors,
           ignored \subseteq ignored', firstIgnored' = firstIgnored \/ firstIgnored' \in ignored',
           ignoredCount > 0 => ignoredCount' > 0, ignoredCount' > 0 => firstIgnored' \in ignored',
           count' \in [Threads -> 0 .. MaxIgnored], calm' = [u \in Threads |-> calm'[u]],
           todo' \in [Threads -> SUBSET Sectors]
    PROVE  Returns'
<1>. USE DEF Returns
<1>1. Sectors' = Sectors
  BY DEF Sectors
<1>2. TypeOK'
  <2>1. pc' \in [Threads -> Pcs]
    BY DEF Inv, Fields
  <2>2. \A u \in Threads : SpanOf(req'[u]) \subseteq Sectors
    BY DEF TypeOK, Others, SpanOf
  <2>. QED  BY <1>1, <2>1, <2>2 DEF TypeOK, diskVars, mountVars, SpanOf
<1>3. Shape'
  BY DEF Shape, Others, ReadRequest
<1>4. Mount'
  <2>1. \A s \in Sectors : ~volume.v2 => tags'[s] = NoTag /\ mediaTags'[s] = NoTag
    BY DEF Mount, diskVars
  <2>2. \A u \in Threads : pc'[u] \in TestPcs \cup WritePcs => protection # "readonly"
    BY DEF Mount, Others
  <2>3. \A u \in Threads : pc'[u] \in {"ReadTags", "WriteTags"} => v2Active
    BY DEF Mount, Others, WritePcs
  <2>. QED  BY <2>1, <2>2, <2>3, MountFrame DEF mountVars
<1>5. Placed'
  BY PlacedFrame DEF diskVars
<1>6. Calm'
  <2>1. ASSUME NEW u \in Threads \ {t} PROVE CalmOf(u)'
    BY OthersCalm DEF Others, CalmKept, diskVars
  <2>. QED  BY <2>1 DEF Calm
<1>7. Counting'
  BY DEF Counting, CountingOf, Others, mountVars
<1>. QED  BY <1>2, <1>3, <1>4, <1>5, <1>6, <1>7

(* A step of a thread that writes keeps the calm sectors of the others.       *)
LEMMA WriterReturns ==
    ASSUME Inv, Returns, Inv', NEW t \in Threads,
           \A u \in Threads \ {t} : pc'[u] = pc[u] /\ req'[u] = req[u],
           UNCHANGED <<volume, mediaData, mediaTags, mountVars, overrideVars, buf, todo, count, reply>>,
           \A u \in Threads : CalmKept(u), \A u \in Threads : bad'[u] \subseteq bad[u],
           calm' = [u \in Threads |-> calm'[u]],
           pc'[t] \notin ReadPcs, pc'[t] \in TestPcs \cup WritePcs => protection # "readonly",
           pc'[t] = "WriteTags" => v2Active, SpanOf(req'[t]) \subseteq Sectors,
           data' \in [Sectors -> Cells], DOMAIN tags' = Sectors, triggered' \in BOOLEAN,
           expected' \in [Sectors -> Values \cup {Unsettled}],
           volume.v2 \/ UNCHANGED tags, Placed'
    PROVE  Returns'
<1>. USE DEF Returns
<1>1. Sectors' = Sectors
  BY DEF Sectors
<1>2. TypeOK'
  <2>1. pc' \in [Threads -> Pcs]
    BY DEF Inv, Fields
  <2>2. \A u \in Threads : SpanOf(req'[u]) \subseteq Sectors
    BY DEF TypeOK, SpanOf
  <2>. QED  BY <1>1, <2>1, <2>2 DEF TypeOK, mountVars, overrideVars, SpanOf
<1>3. Shape'
  BY DEF Shape, ReadRequest
<1>4. Mount'
  <2>1. \A s \in Sectors : ~volume.v2 => tags'[s] = NoTag /\ mediaTags'[s] = NoTag
    BY DEF Mount
  <2>2. \A u \in Threads : pc'[u] \in TestPcs \cup WritePcs => protection # "readonly"
    BY DEF Mount
  <2>3. \A u \in Threads : pc'[u] \in {"ReadTags", "WriteTags"} => v2Active
    BY DEF Mount, ReadPcs
  <2>. QED  BY <2>1, <2>2, <2>3, MountFrame DEF mountVars
<1>6. Calm'
  <2>1. ASSUME NEW u \in Threads \ {t} PROVE CalmOf(u)'
    BY OthersCalm
  <2>2. CalmOf(t)'
    BY DEF Calm, CalmOf, CalmKept, Settled, Sectors, ReadPcs
  <2>. QED  BY <2>1, <2>2 DEF Calm
<1>7. Counting'
  <2>1. pc'[t] \notin CountPcs \cup {"CountLoad", "CountStore", "done"}
    BY DEF ReadPcs, CountPcs
  <2>. QED  BY <2>1 DEF Counting, CountingOf, overrideVars, mountVars
<1>. QED  BY <1>2, <1>3, <1>4, <1>6, <1>7

----------------------------------------------------------------------------
(* Initially, and the steps of the mount                                      *)

LEMMA InitReturns == Init => Returns
<1>. SUFFICES ASSUME Init PROVE Returns
  OBVIOUS
<1>1. /\ volume \in Volumes /\ volume \in Layouts
      /\ volume.system \in BOOLEAN /\ volume.offset \in Nat /\ volume.start \in Nat /\ volume.size \in Nat \ {0}
  BY LayoutsAssumption DEF Init, Layouts
<1>2. PICK content \in [Sectors -> Values], repaired \in BOOLEAN :
        /\ data = [s \in Sectors |-> EncryptUnit(content[s], InitialUnit(s, repaired))]
        /\ expected = [s \in Sectors |-> IF s \in HiddenSectors THEN Unsettled ELSE content[s]]
  BY DEF Init
<1>3. \A s \in Sectors : InitialUnit(s, repaired) \in Int
  BY <1>1 DEF InitialUnit, Sectors, Unit, Foreign, Clear
<1>4. data \in [Sectors -> Cells] /\ expected \in [Sectors -> Values \cup {Unsettled}]
  BY <1>2, <1>3 DEF Cells, EncryptUnit
<1>5. \A t \in Threads : SpanOf(req[t]) \subseteq Sectors
  BY <1>1 DEF Init, SpanOf, NoRequest, Sectors
<1>6. 0 \in Sectors
  BY <1>1 DEF Sectors
<1>7. TypeOK
  <2>1. mediaData \in [Sectors -> Cells] /\ DOMAIN tags = Sectors /\ DOMAIN mediaTags = Sectors
    BY <1>4 DEF Init
  <2>2. protection \in Protections /\ pc \in [Threads -> Pcs] /\ todo \in [Threads -> SUBSET Sectors]
    BY DEF Init, Protections, Pcs
  <2>3. /\ mounted \in BOOLEAN /\ v2Active \in BOOLEAN /\ ignoreTags \in BOOLEAN /\ triggered \in BOOLEAN
        /\ ignored \subseteq Sectors /\ firstIgnored \in Sectors
    BY <1>6 DEF Init
  <2>4. ignoredCount \in 0 .. MaxIgnored
    BY BoundsAssumption DEF Init
  <2>. QED  BY <1>1, <1>4, <1>5, <2>1, <2>2, <2>3, <2>4 DEF TypeOK
<1>8. Shape
  BY BoundsAssumption DEF Init, Shape, ReadPcs, CountPcs
<1>9. Mount
  BY DEF Init, Mount, TestPcs, WritePcs
<1>10. Placed
  <2>. SUFFICES ASSUME NEW s \in Settled
                PROVE  \/ data[s] = EncryptUnit(expected[s], Unit(s)) /\ EncryptedBefore(s)
                       \/ /\ volume.system /\ data[s] = EncryptUnit(expected[s], Clear)
                          /\ EncryptedBefore(s) => s = 0
    BY DEF Placed
  <2>1. s \in Sectors /\ s \notin HiddenSectors
    BY <1>2 DEF Settled
  <2>2. data[s] = EncryptUnit(expected[s], InitialUnit(s, repaired))
    BY <1>2, <2>1
  <2>. QED  BY <2>1, <2>2 DEF InitialUnit, EncryptedBefore
<1>11. Calm
  BY DEF Init, Calm, CalmOf, CountPcs
<1>12. Counting
  BY DEF Init, Counting, CountingOf, CountPcs
<1>. QED  BY <1>7, <1>8, <1>9, <1>10, <1>11, <1>12 DEF Returns

LEMMA StutterReturns == ASSUME Returns, UNCHANGED vars PROVE Returns'
<1>. USE DEF vars, diskVars, mountVars, overrideVars, Returns
<1>1. TypeOK'
  BY DEF TypeOK, Sectors, SpanOf
<1>2. Shape' /\ Counting'
  BY DEF Shape, ReadRequest, Counting, CountingOf
<1>3. Mount' /\ Placed'
  BY MountFrame, PlacedFrame DEF Mount
<1>4. Calm'
  BY OthersCalm DEF Calm, CalmKept
<1>. QED  BY <1>1, <1>2, <1>3, <1>4

(* No request is in progress when a volume is mounted.                        *)
LEMMA OpenReturns ==
    ASSUME Inv, Returns, NEW prot \in Protections, NEW ignore \in BOOLEAN, NEW require \in BOOLEAN,
           NEW error \in BOOLEAN, Open(prot, ignore, require, error)
    PROVE  Returns'
<1>. USE DEF Returns
<1>1. \A t \in Threads : pc[t] = "idle"
  BY DEF Inv, Fields, Open
<1>2. UNCHANGED <<volume, data, tags, mediaData, mediaTags, triggered, ignoredCount, firstIgnored, ignored, pc, req,
                  buf, todo, count, reply, expected, alone, calm, bad>>
  BY DEF Open, diskVars, overrideVars
<1>3. Sectors' = Sectors
  BY <1>2 DEF Sectors
<1>4. TypeOK'
  BY <1>2, <1>3 DEF TypeOK, Open, Protections, SpanOf, DiscoverMode
<1>5. Shape'
  BY <1>2 DEF Shape, ReadRequest
<1>6. Mount'
  <2>1. ~volume.v2 => ~v2Active'
    <3>1. 0 \in Sectors
      BY LayoutsAssumption DEF TypeOK, Layouts, Sectors
    <3>2. ~volume.v2 => tags[0] = NoTag
      BY <3>1 DEF Mount
    <3>3. \A x, y : <<x, y>> # NoTag
      BY DEF NoTag
    <3>. QED  BY <3>2, <3>3 DEF Open, DiscoverMode, Authentic, Mac
  <2>2. mounted' /\ volume.system' => volume'.start \in volume'.areaStart .. volume'.areaStart + volume'.areaLength - 1
    BY <1>2 DEF Open
  <2>3. EncryptionNotCompleted' => protection' = "readonly"
    BY <1>2 DEF Open, EncryptionNotCompleted
  <2>. QED  BY <1>1, <1>2, <1>3, <2>1, <2>2, <2>3 DEF Mount, TestPcs, WritePcs
<1>7. Placed'
  BY <1>2, PlacedFrame
<1>8. Calm'
  BY <1>2, OthersCalm DEF Calm, CalmKept
<1>9. Counting'
  BY <1>1, <1>2 DEF Counting, CountingOf, CountPcs
<1>. QED  BY <1>4, <1>5, <1>6, <1>7, <1>8, <1>9

LEMMA NoneMounted ==
    ASSUME Returns, Closed, UNCHANGED volume, \A t \in Threads : pc'[t] = "idle",
           \A t \in Threads : calm'[t] \subseteq Settled', count' \in [Threads -> 0 .. MaxIgnored],
           calm' = [t \in Threads |-> calm'[t]],
           \A s \in Sectors : ~volume.v2 => tags'[s] = NoTag /\ mediaTags'[s] = NoTag
    PROVE  Shape' /\ Mount' /\ Calm' /\ Counting'
<1>1. Sectors' = Sectors
  BY DEF Sectors
<1>2. Shape'
  BY DEF Shape, ReadPcs, CountPcs
<1>3. Mount'
  BY <1>1 DEF Closed, Mount, TestPcs, WritePcs
<1>4. Calm'
  BY DEF Calm, CalmOf, CountPcs
<1>5. Counting'
  BY DEF Closed, Counting, CountingOf, CountPcs
<1>. QED  BY <1>2, <1>3, <1>4, <1>5

LEMMA ClosedTypes ==
    ASSUME Returns, Closed, UNCHANGED <<volume, mediaData, mediaTags>>,
           data' \in [Sectors -> Cells], DOMAIN tags' = Sectors,
           expected' \in [Sectors -> Values \cup {Unsettled}],
           pc' \in [Threads -> Pcs], \A t \in Threads : SpanOf(req'[t]) \subseteq Sectors,
           todo' \in [Threads -> SUBSET Sectors]
    PROVE  TypeOK'
<1>1. Sectors' = Sectors /\ 0 \in Sectors
  BY LayoutsAssumption DEF Returns, TypeOK, Layouts, Sectors
<1>2. /\ mounted' \in BOOLEAN /\ v2Active' \in BOOLEAN /\ ignoreTags' \in BOOLEAN /\ triggered' \in BOOLEAN
      /\ protection' \in Protections /\ ignored' \subseteq Sectors /\ firstIgnored' \in Sectors
  BY <1>1 DEF Closed, Protections
<1>3. ignoredCount' \in 0 .. MaxIgnored
  BY BoundsAssumption DEF Closed
<1>. QED  BY <1>1, <1>2, <1>3 DEF Returns, TypeOK, SpanOf

LEMMA CloseReturns == ASSUME Inv, Returns, CloseMountedVolume PROVE Returns'
<1>. USE DEF Returns
<1>1. UNCHANGED <<volume, data, tags, mediaData, mediaTags, pc, req, buf, todo, count, reply, expected, alone, calm, bad>>
      /\ Closed /\ \A t \in Threads : pc[t] = "idle"
  BY DEF CloseMountedVolume, diskVars
<1>2. TypeOK'
  BY <1>1, ClosedTypes DEF TypeOK, SpanOf
<1>3. \A t \in Threads : calm'[t] \subseteq Settled'
  BY <1>1 DEF Calm, CalmOf, Settled, Sectors
<1>4. Shape' /\ Mount' /\ Calm' /\ Counting'
  BY <1>1, <1>3, NoneMounted DEF Shape, Mount
<1>5. Placed'
  BY <1>1, PlacedFrame
<1>. QED  BY <1>2, <1>4, <1>5

LEMMA GoneReturns ==
    ASSUME Returns, Closed, ThreadsGone, UNCHANGED <<volume, mediaData, mediaTags>>,
           data' \in [Sectors -> Cells], DOMAIN tags' = Sectors,
           expected' \in [Sectors -> Values \cup {Unsettled}],
           \A s \in Sectors : ~volume.v2 => tags'[s] = NoTag /\ mediaTags'[s] = NoTag
    PROVE  TypeOK' /\ Shape' /\ Mount' /\ Calm' /\ Counting'
<1>1. /\ \A t \in Threads : pc'[t] = "idle" /\ calm'[t] = {}
      /\ calm' = [t \in Threads |-> calm'[t]]
  BY DEF ThreadsGone
<1>2. count' \in [Threads -> 0 .. MaxIgnored]
  BY BoundsAssumption DEF ThreadsGone
<1>3. pc' \in [Threads -> Pcs] /\ todo' \in [Threads -> SUBSET Sectors]
  BY DEF ThreadsGone, Pcs
<1>4. \A t \in Threads : SpanOf(req'[t]) \subseteq Sectors
  BY DEF ThreadsGone, SpanOf, NoRequest
<1>. QED  BY <1>1, <1>2, <1>3, <1>4, NoneMounted, ClosedTypes

LEMMA ServiceDiesReturns == ASSUME Returns, ServiceDies PROVE Returns'
<1>. USE DEF Returns
<1>1. UNCHANGED <<volume, data, tags, mediaData, mediaTags, expected>> /\ Closed /\ ThreadsGone
  BY DEF ServiceDies, diskVars
<1>2. TypeOK' /\ Shape' /\ Mount' /\ Calm' /\ Counting'
  BY <1>1, GoneReturns DEF TypeOK, Mount
<1>3. Placed'
  BY <1>1, PlacedFrame
<1>. QED  BY <1>2, <1>3

(* What is settled after a power failure was on the device already.           *)
LEMMA PowerFailsReturns == ASSUME Returns, PowerFails PROVE Returns'
<1>. USE DEF Returns
<1>1. /\ UNCHANGED <<volume, mediaData, mediaTags>> /\ Closed /\ ThreadsGone
      /\ data' = mediaData /\ tags' = mediaTags
      /\ expected' = [s \in Sectors |->
            IF data[s] = mediaData[s] /\ tags[s] = mediaTags[s] THEN expected[s] ELSE Unsettled]
  BY DEF PowerFails
<1>2. expected' \in [Sectors -> Values \cup {Unsettled}]
  BY <1>1 DEF TypeOK
<1>3. TypeOK' /\ Shape' /\ Mount' /\ Calm' /\ Counting'
  BY <1>1, <1>2, GoneReturns DEF TypeOK, Mount
<1>4. Placed'
  <2>. SUFFICES ASSUME NEW s \in Sectors, expected'[s] # Unsettled
                PROVE  \/ data'[s] = EncryptUnit(expected'[s], Unit(s)) /\ EncryptedBefore(s)
                       \/ /\ volume.system /\ data'[s] = EncryptUnit(expected'[s], Clear)
                          /\ EncryptedBefore(s) => s = 0
    BY <1>1 DEF Placed, Settled, Sectors, Unit, EncryptedBefore, EncryptUnit
  <2>1. expected'[s] = expected[s] /\ data'[s] = data[s] /\ s \in Settled
    BY <1>1 DEF Settled
  <2>. QED  BY <2>1 DEF Placed
<1>. QED  BY <1>3, <1>4

LEMMA WriteBackReturns == ASSUME Inv, Returns, NEW s \in Sectors, WriteBack(s) PROVE Returns'
<1>. USE DEF Returns
<1>1. UNCHANGED <<volume, data, tags, mounted, protection, v2Active, ignoreTags, triggered, ignoredCount, firstIgnored,
                  ignored, pc, req, buf, todo, count, reply, expected, alone, calm, bad>>
  BY DEF WriteBack, mountVars, overrideVars
<1>2. Sectors' = Sectors
  BY <1>1 DEF Sectors
<1>3. mediaData' \in [Sectors -> Cells] /\ DOMAIN mediaTags' = Sectors
      /\ \A x \in Sectors : mediaTags'[x] = mediaTags[x] \/ mediaTags'[x] = tags[x]
  <2>1. CASE mediaData' = [mediaData EXCEPT ![s] = data[s]] /\ UNCHANGED mediaTags
    BY <2>1 DEF TypeOK
  <2>2. CASE mediaTags' = [mediaTags EXCEPT ![s] = tags[s]] /\ UNCHANGED mediaData
    BY <2>2 DEF TypeOK
  <2>. QED  BY <2>1, <2>2 DEF WriteBack
<1>4. TypeOK'
  BY <1>1, <1>2, <1>3 DEF TypeOK, SpanOf
<1>5. Shape' /\ Counting'
  BY <1>1 DEF Shape, ReadRequest, Counting, CountingOf
<1>6. Mount'
  BY <1>1, <1>3, MountFrame DEF Mount
<1>7. Placed'
  BY <1>1, PlacedFrame
<1>8. Calm'
  BY <1>1, OthersCalm DEF Calm, CalmKept
<1>. QED  BY <1>4, <1>5, <1>6, <1>7, <1>8

----------------------------------------------------------------------------
(* Reads *)

(* The steps of a reading thread after its first, as the invariant sees them. *)
LEMMA ReadingReturns ==
    ASSUME Inv, Returns, Inv', NEW t \in Threads,
           UNCHANGED <<volume, diskVars, mountVars, triggered, expected, req, calm, bad>>,
           pc[t] \in ReadPcs, NEW next \in ReadPcs, pc' = [pc EXCEPT ![t] = next],
           next = "ReadTags" => v2Active,
           \A u \in Threads \ {t} : buf'[u] = buf[u] /\ reply'[u] = reply[u] /\ todo'[u] = todo[u],
           CalmOf(t)', CountingOf(t)',
           ignoredCount' \in 0 .. MaxIgnored, firstIgnored' \in Sectors, ignored' \subseteq Sectors,
           ignored \subseteq ignored', firstIgnored' = firstIgnored \/ firstIgnored' \in ignored',
           ignoredCount > 0 => ignoredCount' > 0, ignoredCount' > 0 => firstIgnored' \in ignored',
           count' \in [Threads -> 0 .. MaxIgnored], todo' \in [Threads -> SUBSET Sectors]
    PROVE  Returns'
<1>1. Others(t) /\ pc'[t] = next
  BY DEF Others, Inv, Fields
<1>2. pc'[t] \notin TestPcs \cup WritePcs
  BY <1>1 DEF ReadPcs, CountPcs, TestPcs, WritePcs
<1>3. ReadRequest(req'[t]) /\ SpanOf(req'[t]) \subseteq Sectors
  <2>1. ReadRequest(req[t]) /\ SpanOf(req[t]) \subseteq Sectors
    BY DEF Returns, TypeOK, Shape
  <2>. QED  BY <2>1
<1>4. calm' = [u \in Threads |-> calm'[u]]
  BY DEF Returns, Shape
<1>. QED  BY <1>1, <1>2, <1>3, <1>4, ReaderReturns

(* Their steps that leave the counters and what is to be counted alone.       *)
LEMMA QuietReturns ==
    ASSUME Inv, Returns, Inv', NEW t \in Threads,
           UNCHANGED <<volume, diskVars, mountVars, triggered, expected, req, calm, bad, overrideVars, count, todo>>,
           pc[t] \in ReadPcs, NEW next \in ReadPcs, pc' = [pc EXCEPT ![t] = next],
           next = "ReadTags" => v2Active,
           \A u \in Threads \ {t} : buf'[u] = buf[u] /\ reply'[u] = reply[u],
           CalmOf(t)', CountingOf(t)'
    PROVE  Returns'
<1>1. UNCHANGED <<ignoredCount, firstIgnored, ignored>>
  BY DEF overrideVars
<1>2. /\ ignoredCount' \in 0 .. MaxIgnored /\ firstIgnored' \in Sectors /\ ignored' \subseteq Sectors
      /\ todo' \in [Threads -> SUBSET Sectors] /\ count' \in [Threads -> 0 .. MaxIgnored]
      /\ ignoredCount' > 0 => firstIgnored' \in ignored'
  BY <1>1 DEF Returns, TypeOK, Shape, Counting
<1>. QED  BY <1>1, <1>2, ReadingReturns

(* fuse_service_read clamps a request that reaches beyond the end.            *)
LEMMA ClampedFits ==
    ASSUME TypeOK, NEW op \in Ops[volume], op.off < volume.size * Units
    PROVE  /\ op.off \in Nat /\ Clamped(op) \in Nat \ {0}
           /\ op.off + Clamped(op) <= volume.size * Units
<1>1. op.off \in Nat /\ op.len \in Nat \ {0} /\ volume.size \in Nat
  BY OpsAssumption, LayoutsAssumption DEF TypeOK, Layouts
<1>. DEFINE room == volume.size * Units - op.off
<1>2. room \in Nat \ {0}
  <2>1. volume.size * Units \in Nat
    BY <1>1, UnitsAssumption
  <2>. QED  BY <1>1, <2>1
<1>3. Clamped(op) \in {op.len, room} /\ Clamped(op) <= room
  <2>1. {op.len, room} \subseteq Nat /\ {op.len, room} # {}
    BY <1>1, <1>2
  <2>2. Clamped(op) = Least({op.len, room})
    BY DEF Clamped
  <2>. HIDE DEF room
  <2>. QED  BY <2>1, <2>2, LeastIn
<1>4. volume.size * Units \in Nat
  BY <1>1, UnitsAssumption
<1>. QED  BY <1>1, <1>2, <1>3, <1>4

LEMMA FuseReadReturns ==
    ASSUME Inv, Returns, Inv', NEW t \in Threads, NEW op \in Ops[volume], FuseRead(t, op)
    PROVE  Returns'
<1>1. PICK r : r = [first |-> op.off \div Units, off |-> op.off, len |-> Clamped(op),
                    sectors |-> AlignedSectors(op.off, Clamped(op)), v |-> Garbage]
  OBVIOUS
<1>2. req' = [req EXCEPT ![t] = r]
  BY <1>1 DEF FuseRead
<1>3. req'[t] = r /\ \A u \in Threads \ {t} : req'[u] = req[u]
  BY <1>2 DEF Inv, Fields
<1>4. ReadRequest(r) /\ SpanOf(r) \subseteq Sectors
  <2>1. op.off \in Nat /\ Clamped(op) \in Nat \ {0} /\ op.off + Clamped(op) <= volume.size * Units
    BY ClampedFits DEF FuseRead, Returns
  <2>2. ReadRequest(r)
    BY <1>1, <2>1 DEF ReadRequest
  <2>3. volume.size \in Nat
    BY LayoutsAssumption DEF Returns, TypeOK, Layouts
  <2>4. r.off + r.len <= volume.size * Units
    BY <1>1, <2>1
  <2>. QED  BY <2>2, <2>3, <2>4, ReadFits DEF Sectors
<1>5. /\ pc'[t] = "ReadAt" /\ calm'[t] = SpanOf(r) \cap Settled
      /\ Others(t)
  BY <1>3 DEF FuseRead, Others, Inv, Fields, Returns, Shape
<1>6. UNCHANGED <<volume, diskVars, mountVars, triggered, expected, ignoredCount, firstIgnored, ignored, todo, count>>
  BY DEF FuseRead, overrideVars
<1>7. CalmOf(t)'
  <2>1. Settled' = Settled
    BY <1>6 DEF Settled, Sectors
  <2>. QED  BY <1>5, <2>1 DEF CalmOf, CountPcs
<1>8. CountingOf(t)'
  BY <1>5 DEF CountingOf, CountPcs
<1>9. calm' = [u \in Threads |-> calm'[u]]
  BY DEF FuseRead, Returns, Shape
<1>10. pc'[t] \notin TestPcs \cup WritePcs /\ pc'[t] # "ReadTags"
  BY <1>5 DEF TestPcs, WritePcs
<1>11. ReadRequest(req'[t]) /\ SpanOf(req'[t]) \subseteq Sectors
  BY <1>3, <1>4
<1>12. /\ ignoredCount' \in 0 .. MaxIgnored /\ firstIgnored' \in Sectors /\ ignored' \subseteq Sectors
       /\ todo' \in [Threads -> SUBSET Sectors] /\ count' \in [Threads -> 0 .. MaxIgnored]
       /\ ignoredCount' > 0 => firstIgnored' \in ignored'
  BY <1>6 DEF Returns, TypeOK, Shape, Counting
<1>. QED  BY <1>5, <1>6, <1>7, <1>8, <1>9, <1>10, <1>11, <1>12, ReaderReturns

(* An answer with data that the sectors of the read, if calm, decrypt to.     *)
LEMMA AnswerCalm ==
    ASSUME Inv, Returns, NEW t \in Threads, NEW status, NEW out, Answer(t, status, out),
           UNCHANGED <<volume, diskVars, mountVars, expected, req, calm>>,
           pc[t] \in ReadPcs,
           status \in {"ok", "mismatch"} /\ SpanOf(req[t]) \subseteq calm[t] =>
                /\ status = "ok"
                /\ out = [j \in 0 .. req[t].len - 1 |->
                        <<expected[(req[t].off + j) \div Units], (req[t].off + j) % Units>>]
    PROVE  CalmOf(t)'
<1>1. pc'[t] = "done" /\ reply'[t].status = status /\ reply'[t].out = out
  BY DEF Answer, Inv, Fields
<1>2. calm'[t] \subseteq Settled'
  BY DEF Returns, Calm, CalmOf, Settled, Sectors
<1>3. UNCHANGED <<req, expected, calm>>
  OBVIOUS
<1>4. status \in {"ok", "mismatch"} /\ SpanOf(req[t]) \subseteq calm[t] => AnswersAsked(t)'
  BY <1>1, <1>3 DEF AnswersAsked
<1>. QED  BY <1>1, <1>2, <1>3, <1>4 DEF CalmOf, CountPcs, SpanOf

LEMMA ReadAtReturns == ASSUME Inv, Returns, Inv', NEW t \in Threads, ReadAt(t) PROVE Returns'
<1>1. PICK b : b = [s \in SpanOf(req[t]) |-> data[s]]
  OBVIOUS
<1>2. /\ pc[t] = "ReadAt" /\ pc[t] \in ReadPcs /\ mounted
      /\ UNCHANGED <<volume, diskVars, mountVars, triggered, expected, req, calm, bad, overrideVars, count, todo>>
  BY DEF ReadAt, ReadPcs, Inv, Fields
<1>3. CASE v2Active
  <2>1. buf' = [buf EXCEPT ![t] = b] /\ pc' = [pc EXCEPT ![t] = "ReadTags"] /\ UNCHANGED reply
    BY <1>1, <1>3 DEF ReadAt
  <2>2. /\ pc'[t] = "ReadTags" /\ buf'[t] = b /\ \A u \in Threads \ {t} : buf'[u] = buf[u] /\ reply'[u] = reply[u]
    BY <2>1 DEF Inv, Fields
  <2>3. calm'[t] \subseteq Settled'
    BY <1>2 DEF Returns, Calm, CalmOf, Settled, Sectors
  <2>4. CalmOf(t)'
    BY <1>1, <1>2, <2>2, <2>3 DEF CalmOf, CountPcs, SpanOf, diskVars
  <2>5. CountingOf(t)' /\ "ReadTags" \in ReadPcs
    BY <2>2 DEF CountingOf, CountPcs, ReadPcs
  <2>. QED  BY <1>2, <1>3, <2>1, <2>2, <2>4, <2>5, QuietReturns
<1>4. CASE ~v2Active
  <2>1. Answer(t, "ok", Copied(req[t], b)) /\ UNCHANGED buf
    BY <1>1, <1>4 DEF ReadAt
  <2>2. /\ pc'[t] = "done" /\ pc' = [pc EXCEPT ![t] = "done"]
        /\ \A u \in Threads \ {t} : buf'[u] = buf[u] /\ reply'[u] = reply[u]
    BY <2>1 DEF Answer, Inv, Fields
  <2>3. CalmOf(t)'
    <3>1. ASSUME SpanOf(req[t]) \subseteq calm[t]
          PROVE  Copied(req[t], b) = [j \in 0 .. req[t].len - 1 |->
                    <<expected[(req[t].off + j) \div Units], (req[t].off + j) % Units>>]
      <4>1. SpanOf(req[t]) \subseteq Settled
        BY <3>1 DEF Returns, Calm, CalmOf
      <4>2. ReadRequest(req[t]) /\ \A s \in SpanOf(req[t]) : b[s] = data[s]
        BY <1>1, <1>2 DEF Returns, Shape
      <4>. QED  BY <1>2, <4>1, <4>2, CopiedIsAsked DEF Returns
    <3>. QED  BY <1>2, <2>1, <3>1, AnswerCalm
  <2>4. CountingOf(t)' /\ "done" \in ReadPcs
    BY <1>2, <1>4, <2>2 DEF CountingOf, CountPcs, ReadPcs, mountVars
  <2>. QED  BY <1>2, <2>2, <2>3, <2>4, QuietReturns
<1>. QED  BY <1>3, <1>4

(* An answer without data.                                                    *)
LEMMA RefusalReturns ==
    ASSUME Inv, Returns, Inv', NEW t \in Threads, NEW status, status # "ok", Answer(t, status, <<>>),
           UNCHANGED <<volume, diskVars, mountVars, triggered, expected, req, calm, bad, overrideVars, count, todo>>,
           pc[t] \in ReadPcs, buf' = [buf EXCEPT ![t] = <<>>],
           status = "mismatch" => ~(SpanOf(req[t]) \subseteq calm[t])
    PROVE  Returns'
<1>1. /\ pc'[t] = "done" /\ pc' = [pc EXCEPT ![t] = "done"] /\ reply'[t].status = status
      /\ \A u \in Threads \ {t} : buf'[u] = buf[u] /\ reply'[u] = reply[u]
  BY DEF Answer, Inv, Fields
<1>2. CalmOf(t)'
  BY AnswerCalm
<1>3. CountingOf(t)' /\ "done" \in ReadPcs
  BY <1>1 DEF CountingOf, CountPcs, ReadPcs
<1>. QED  BY <1>1, <1>2, <1>3, QuietReturns

LEMMA ReadFailsReturns == ASSUME Inv, Returns, Inv', NEW t \in Threads, ReadFails(t) PROVE Returns'
<1>1. pc[t] \in ReadPcs /\ "error" # "ok" /\ "error" # "mismatch"
  BY DEF ReadFails, ReadPcs
<1>2. /\ Answer(t, "error", <<>>) /\ buf' = [buf EXCEPT ![t] = <<>>]
      /\ UNCHANGED <<volume, diskVars, mountVars, triggered, expected, req, calm, bad, overrideVars, count, todo>>
  BY DEF ReadFails
<1>. QED  BY <1>1, <1>2, RefusalReturns

(* A settled sector authenticates, so a read of settled sectors is answered.  *)
LEMMA CalmMatches ==
    ASSUME Inv, Returns, NEW t \in Threads, pc[t] = "ReadTags", SpanOf(req[t]) \subseteq calm[t]
    PROVE  Mismatched(t) = {}
<1>. SUFFICES ASSUME NEW s \in SpanOf(req[t]) PROVE tags[s] = Mac(s, buf[t][s])
  BY DEF Mismatched
<1>1. s \in Settled /\ buf[t][s] = data[s]
  BY DEF Returns, Calm, CalmOf
<1>2. volume.v2
  BY LayoutsAssumption DEF Returns, TypeOK, Layouts, Mount
<1>. QED  BY <1>1, <1>2 DEF Inv, SettledIntact, Authentic

LEMMA ReadTagsReturns == ASSUME Inv, Returns, Inv', NEW t \in Threads, ReadTags(t) PROVE Returns'
<1>1. /\ pc[t] = "ReadTags" /\ pc[t] \in ReadPcs /\ mounted
      /\ UNCHANGED <<volume, diskVars, mountVars, triggered, expected, req, calm, bad, ignoredCount, firstIgnored, count>>
  BY DEF ReadTags, ReadPcs, Inv, Fields
<1>2. CASE Mismatched(t) = {}
  <2>1. /\ Answer(t, "ok", Copied(req[t], buf[t])) /\ buf' = [buf EXCEPT ![t] = <<>>]
        /\ UNCHANGED <<overrideVars, todo>>
    BY <1>1, <1>2 DEF ReadTags, overrideVars
  <2>2. /\ pc'[t] = "done" /\ pc' = [pc EXCEPT ![t] = "done"]
        /\ \A u \in Threads \ {t} : buf'[u] = buf[u] /\ reply'[u] = reply[u]
    BY <2>1 DEF Answer, Inv, Fields
  <2>3. CalmOf(t)'
    <3>1. ASSUME SpanOf(req[t]) \subseteq calm[t]
          PROVE  Copied(req[t], buf[t]) = [j \in 0 .. req[t].len - 1 |->
                    <<expected[(req[t].off + j) \div Units], (req[t].off + j) % Units>>]
      <4>1. SpanOf(req[t]) \subseteq Settled /\ \A s \in SpanOf(req[t]) : buf[t][s] = data[s]
        BY <1>1, <3>1 DEF Returns, Calm, CalmOf
      <4>2. ReadRequest(req[t])
        BY <1>1 DEF Returns, Shape
      <4>. QED  BY <1>1, <4>1, <4>2, CopiedIsAsked DEF Returns
    <3>. QED  BY <1>1, <2>1, <3>1, AnswerCalm
  <2>4. bad'[t] = {}
    BY <1>1, <1>2 DEF Inv, Readers, Mismatched, Authentic
  <2>5. CountingOf(t)' /\ "done" \in ReadPcs
    BY <2>2, <2>4 DEF CountingOf, CountPcs, ReadPcs
  <2>. QED  BY <1>1, <2>1, <2>2, <2>3, <2>5, QuietReturns
<1>3. CASE Mismatched(t) # {} /\ ~ignoreTags
  <2>1. /\ Answer(t, "mismatch", <<>>) /\ buf' = [buf EXCEPT ![t] = <<>>] /\ "mismatch" # "ok"
        /\ UNCHANGED <<overrideVars, todo>>
    BY <1>1, <1>3 DEF ReadTags, overrideVars
  <2>2. ~(SpanOf(req[t]) \subseteq calm[t])
    BY <1>1, <1>3, CalmMatches
  <2>. QED  BY <1>1, <2>1, <2>2, RefusalReturns
<1>4. CASE Mismatched(t) # {} /\ ignoreTags
  <2>1. /\ todo' = [todo EXCEPT ![t] = Mismatched(t)] /\ ignored' = ignored \cup Mismatched(t)
        /\ pc' = [pc EXCEPT ![t] = "CountTest"] /\ UNCHANGED <<reply, buf>>
    BY <1>4 DEF ReadTags
  <2>2. Mismatched(t) \subseteq Sectors
    BY DEF Mismatched, Returns, TypeOK
  <2>3. todo' \in [Threads -> SUBSET Sectors] /\ todo'[t] = Mismatched(t) /\ \A u \in Threads \ {t} : todo'[u] = todo[u]
    BY <2>1, <2>2 DEF Returns, TypeOK
  <2>4. pc'[t] = "CountTest" /\ "CountTest" \in ReadPcs /\ pc'[t] \in CountPcs
    BY <2>1 DEF Inv, Fields, ReadPcs, CountPcs
  <2>5. ~(SpanOf(req[t]) \subseteq calm[t])
    BY <1>1, <1>4, CalmMatches
  <2>6. CalmOf(t)'
    <3>1. calm'[t] \subseteq Settled'
      BY <1>1 DEF Returns, Calm, CalmOf, Settled, Sectors
    <3>. QED  BY <1>1, <2>4, <2>5, <3>1 DEF CalmOf, SpanOf
  <2>7. CountingOf(t)'
    BY <1>4, <2>1, <2>3, <2>4 DEF CountingOf
  <2>8. /\ ignoredCount' \in 0 .. MaxIgnored /\ firstIgnored' \in Sectors /\ ignored' \subseteq Sectors
        /\ count' \in [Threads -> 0 .. MaxIgnored] /\ ignored \subseteq ignored'
        /\ ignoredCount' > 0 => firstIgnored' \in ignored'
    BY <1>1, <2>1, <2>2 DEF Returns, TypeOK, Shape, Counting
  <2>. QED  BY <1>1, <2>1, <2>3, <2>4, <2>6, <2>7, <2>8, ReadingReturns
<1>. QED  BY <1>2, <1>3, <1>4

(* A step of the counters that answers nothing yet.                           *)
LEMMA CountingReturns ==
    ASSUME Inv, Returns, Inv', NEW t \in Threads,
           UNCHANGED <<volume, diskVars, mountVars, triggered, expected, req, buf, reply, calm, bad, ignored>>,
           pc[t] \in CountPcs, NEW next \in CountPcs, pc' = [pc EXCEPT ![t] = next],
           \A u \in Threads \ {t} : todo'[u] = todo[u], todo'[t] # {}, todo'[t] \subseteq todo[t],
           todo' \in [Threads -> SUBSET Sectors],
           ignoredCount' \in 0 .. MaxIgnored, firstIgnored' \in Sectors,
           firstIgnored' = firstIgnored \/ firstIgnored' \in ignored,
           next \in {"CountLoad", "CountStore"} => firstIgnored' \in ignored,
           ignoredCount > 0 => ignoredCount' > 0, ignoredCount' > 0 => firstIgnored' \in ignored,
           count' \in [Threads -> 0 .. MaxIgnored]
    PROVE  Returns'
<1>1. /\ pc'[t] = next /\ next \in ReadPcs /\ pc[t] \in ReadPcs /\ next # "ReadTags" /\ next # "done"
  BY DEF Inv, Fields, ReadPcs, CountPcs
<1>2. CalmOf(t)'
  <2>1. calm'[t] \subseteq Settled'
    BY DEF Returns, Calm, CalmOf, Settled, Sectors
  <2>2. ~(SpanOf(req[t]) \subseteq calm[t])
    BY DEF Returns, Calm, CalmOf
  <2>. QED  BY <1>1, <2>1, <2>2 DEF CalmOf, SpanOf
<1>3. CountingOf(t)'
  BY <1>1 DEF Returns, Counting, CountingOf
<1>4. ignored' \subseteq Sectors
  BY DEF Returns, TypeOK
<1>. QED  BY <1>1, <1>2, <1>3, <1>4, ReadingReturns

(* The first sector to be counted is one of them.                             *)
LEMMA LeastToCount ==
    ASSUME Returns, NEW t \in Threads, pc[t] \in CountPcs
    PROVE  Least(todo[t]) \in todo[t] /\ Least(todo[t]) \in ignored /\ Least(todo[t]) \in Sectors
<1>1. Sectors \subseteq Nat /\ todo[t] \subseteq Sectors
  BY LayoutsAssumption DEF Returns, TypeOK, Layouts, Sectors
<1>2. todo[t] # {} /\ todo[t] \subseteq ignored
  BY DEF Returns, Counting, CountingOf
<1>3. Least(todo[t]) \in todo[t]
  BY <1>1, <1>2, LeastIn
<1>. QED  BY <1>1, <1>2, <1>3

LEMMA CountTestReturns == ASSUME Inv, Returns, Inv', NEW t \in Threads, CountTest(t) PROVE Returns'
<1>1. /\ pc[t] \in CountPcs /\ pc[t] = "CountTest"
      /\ UNCHANGED <<volume, diskVars, mountVars, triggered, expected, req, buf, reply, calm, bad, todo, count>>
      /\ UNCHANGED <<ignored, ignoredCount, firstIgnored>>
  BY DEF CountTest, CountPcs, overrideVars
<1>2. PICK next : next = IF ignoredCount = 0 THEN "CountFirst" ELSE "CountLoad"
  OBVIOUS
<1>3. pc' = [pc EXCEPT ![t] = next] /\ next \in CountPcs
  BY <1>2 DEF CountTest, CountPcs
<1>4. /\ todo[t] # {} /\ todo \in [Threads -> SUBSET Sectors] /\ ignoredCount \in 0 .. MaxIgnored
      /\ firstIgnored \in Sectors /\ count \in [Threads -> 0 .. MaxIgnored]
      /\ ignoredCount > 0 => firstIgnored \in ignored
  BY <1>1 DEF Returns, TypeOK, Shape, Counting, CountingOf
<1>5. next \in {"CountLoad", "CountStore"} => firstIgnored \in ignored
  BY <1>2, <1>4
<1>. QED  BY <1>1, <1>3, <1>4, <1>5, CountingReturns

LEMMA CountFirstReturns == ASSUME Inv, Returns, Inv', NEW t \in Threads, CountFirst(t) PROVE Returns'
<1>1. /\ pc[t] \in CountPcs /\ firstIgnored' = Least(todo[t])
      /\ UNCHANGED <<volume, diskVars, mountVars, triggered, expected, req, buf, reply, calm, bad, todo, count>>
      /\ UNCHANGED <<ignored, ignoredCount>> /\ pc' = [pc EXCEPT ![t] = "CountLoad"] /\ "CountLoad" \in CountPcs
  BY DEF CountFirst, CountPcs
<1>2. firstIgnored' \in ignored /\ firstIgnored' \in Sectors
  BY <1>1, LeastToCount
<1>3. /\ todo[t] # {} /\ todo \in [Threads -> SUBSET Sectors] /\ ignoredCount \in 0 .. MaxIgnored
      /\ count \in [Threads -> 0 .. MaxIgnored]
  BY <1>1 DEF Returns, TypeOK, Shape, Counting, CountingOf
<1>. QED  BY <1>1, <1>2, <1>3, CountingReturns

LEMMA CountLoadReturns == ASSUME Inv, Returns, Inv', NEW t \in Threads, CountLoad(t) PROVE Returns'
<1>1. /\ pc[t] \in CountPcs /\ pc[t] = "CountLoad" /\ count' = [count EXCEPT ![t] = ignoredCount]
      /\ UNCHANGED <<volume, diskVars, mountVars, triggered, expected, req, buf, reply, calm, bad, todo>>
      /\ UNCHANGED <<ignored, ignoredCount, firstIgnored>>
      /\ pc' = [pc EXCEPT ![t] = "CountStore"] /\ "CountStore" \in CountPcs
  BY DEF CountLoad, CountPcs, overrideVars
<1>2. /\ todo[t] # {} /\ todo \in [Threads -> SUBSET Sectors] /\ ignoredCount \in 0 .. MaxIgnored
      /\ firstIgnored \in Sectors /\ firstIgnored \in ignored
  BY <1>1 DEF Returns, TypeOK, Counting, CountingOf
<1>3. count' \in [Threads -> 0 .. MaxIgnored]
  BY <1>1, <1>2 DEF Returns, Shape
<1>. QED  BY <1>1, <1>2, <1>3, CountingReturns

(* The count stored is never zero, whatever was loaded.                       *)
LEMMA CountStoreReturns == ASSUME Inv, Returns, Inv', NEW t \in Threads, CountStore(t) PROVE Returns'
<1>1. /\ pc[t] \in CountPcs /\ pc[t] \in ReadPcs /\ pc[t] = "CountStore"
      /\ UNCHANGED <<volume, diskVars, mountVars, triggered, expected, req, calm, bad>>
      /\ UNCHANGED <<ignored, firstIgnored>>
      /\ count' = [count EXCEPT ![t] = 0]
      /\ ignoredCount' = IF count[t] < MaxIgnored THEN count[t] + 1 ELSE MaxIgnored
  BY DEF CountStore, CountPcs, ReadPcs
<1>2. count[t] \in 0 .. MaxIgnored /\ count \in [Threads -> 0 .. MaxIgnored] /\ todo \in [Threads -> SUBSET Sectors]
  BY DEF Returns, Shape, TypeOK
<1>3. ignoredCount' \in 0 .. MaxIgnored /\ ignoredCount' > 0
  BY <1>1, <1>2, BoundsAssumption
<1>4. count' \in [Threads -> 0 .. MaxIgnored]
  BY <1>1, <1>2, BoundsAssumption
<1>5. firstIgnored \in Sectors /\ firstIgnored \in ignored /\ ignored \subseteq Sectors
  BY <1>1 DEF Returns, TypeOK, Counting, CountingOf
<1>6. /\ todo' \in [Threads -> SUBSET Sectors] /\ todo'[t] \subseteq todo[t]
      /\ \A u \in Threads \ {t} : todo'[u] = todo[u]
  <2>1. PICK rest : rest = todo[t] \ {Least(todo[t])}
    OBVIOUS
  <2>2. todo' = [todo EXCEPT ![t] = rest]
    BY <2>1 DEF CountStore
  <2>. QED  BY <1>2, <2>1, <2>2
<1>7. CASE todo'[t] = {}
  <2>1. Answer(t, "ok", Copied(req[t], buf[t])) /\ buf' = [buf EXCEPT ![t] = <<>>]
    BY <1>7 DEF CountStore
  <2>2. /\ pc'[t] = "done" /\ pc' = [pc EXCEPT ![t] = "done"]
        /\ \A u \in Threads \ {t} : buf'[u] = buf[u] /\ reply'[u] = reply[u]
    BY <2>1 DEF Answer, Inv, Fields
  <2>3. CalmOf(t)'
    <3>1. ~(SpanOf(req[t]) \subseteq calm[t])
      BY <1>1 DEF Returns, Calm, CalmOf
    <3>. QED  BY <1>1, <2>1, <3>1, AnswerCalm
  <2>4. CountingOf(t)' /\ "done" \in ReadPcs /\ "done" # "ReadTags"
    BY <1>3, <2>2 DEF CountingOf, CountPcs, ReadPcs
  <2>. QED  BY <1>1, <1>3, <1>4, <1>5, <1>6, <2>2, <2>3, <2>4, ReadingReturns
<1>8. CASE todo'[t] # {}
  <2>1. pc' = [pc EXCEPT ![t] = "CountTest"] /\ UNCHANGED <<reply, buf>> /\ "CountTest" \in CountPcs
    BY <1>8 DEF CountStore, CountPcs
  <2>. QED  BY <1>1, <1>3, <1>4, <1>5, <1>6, <1>8, <2>1, CountingReturns
<1>. QED  BY <1>7, <1>8

LEMMA ReturnReadReturns == ASSUME Inv, Returns, Inv', NEW t \in Threads, ReturnRead(t) PROVE Returns'
<1>1. /\ pc'[t] = "idle" /\ req'[t] = NoRequest /\ calm'[t] = {} /\ Others(t)
      /\ UNCHANGED <<volume, diskVars, mountVars, triggered, expected, ignoredCount, firstIgnored, ignored, todo, count>>
  BY DEF ReturnRead, Returned, Others, Inv, Fields, Returns, Shape, overrideVars
<1>2. CalmOf(t)' /\ CountingOf(t)'
  BY <1>1 DEF CalmOf, CountingOf, CountPcs
<1>3. SpanOf(req'[t]) \subseteq Sectors
  BY <1>1 DEF SpanOf, NoRequest
<1>4. calm' = [u \in Threads |-> calm'[u]]
  BY DEF ReturnRead, Returns, Shape
<1>5. pc'[t] \notin TestPcs \cup WritePcs /\ pc'[t] \notin ReadPcs /\ pc'[t] # "ReadTags"
  BY <1>1 DEF TestPcs, WritePcs, ReadPcs, CountPcs
<1>6. /\ ignoredCount' \in 0 .. MaxIgnored /\ firstIgnored' \in Sectors /\ ignored' \subseteq Sectors
      /\ todo' \in [Threads -> SUBSET Sectors] /\ count' \in [Threads -> 0 .. MaxIgnored]
      /\ ignoredCount' > 0 => firstIgnored' \in ignored'
  BY <1>1 DEF Returns, TypeOK, Shape, Counting
<1>. QED  BY <1>1, <1>2, <1>3, <1>4, <1>5, <1>6, ReaderReturns

----------------------------------------------------------------------------
(* Writes *)

(* A step of the tests of a write, or the refusal of one.                     *)
LEMMA TestReturns ==
    ASSUME Inv, Returns, Inv', NEW t \in Threads,
           UNCHANGED <<volume, diskVars, mountVars, overrideVars, buf, todo, count, reply, expected, calm, bad>>,
           triggered' \in BOOLEAN, pc'[t] \in {"idle"} \cup TestPcs,
           \A u \in Threads \ {t} : pc'[u] = pc[u] /\ req'[u] = req[u],
           pc'[t] \in TestPcs => protection # "readonly", SpanOf(req'[t]) \subseteq Sectors
    PROVE  Returns'
<1>1. /\ UNCHANGED <<data, tags, mediaData, mediaTags>>
      /\ data' \in [Sectors -> Cells] /\ DOMAIN tags' = Sectors /\ expected' \in [Sectors -> Values \cup {Unsettled}]
  BY DEF diskVars, Returns, TypeOK
<1>2. Placed'
  BY <1>1, PlacedFrame DEF Returns
<1>3. pc'[t] \notin ReadPcs /\ pc'[t] # "WriteTags" /\ pc'[t] \notin WritePcs
  BY DEF TestPcs, ReadPcs, CountPcs, WritePcs
<1>4. \A u \in Threads : CalmKept(u) /\ bad'[u] \subseteq bad[u]
  BY <1>1 DEF CalmKept
<1>5. calm' = [u \in Threads |-> calm'[u]]
  BY DEF Returns, Shape
<1>. QED  BY <1>1, <1>2, <1>3, <1>4, <1>5, WriterReturns

LEMMA WholeSectors ==
    ASSUME NEW off \in Nat, NEW len \in Nat, NEW n \in Nat, off % Units = 0, len % Units = 0,
           off + len <= n * Units
    PROVE  (off \div Units) + (len \div Units) <= n
<1>. DEFINE q == (off \div Units) + (len \div Units)
<1>1. /\ off \div Units \in Nat /\ off = Units * (off \div Units)
      /\ len \div Units \in Nat /\ len = Units * (len \div Units)
  <2>. SUFFICES ASSUME NEW m \in Nat, m % Units = 0
                PROVE  m \div Units \in Nat /\ m = Units * (m \div Units)
    OBVIOUS
  <2>1. m \div Units \in Nat /\ m = Units * (m \div Units) + (m % Units)
    BY DivFacts
  <2>. QED  BY <2>1, UnitsAssumption
<1>2. q \in Nat /\ off + len = Units * q
  BY <1>1, UnitsAssumption
<1>3. Units * q <= n * Units
  BY <1>2
<1>4. q <= n
  <2>. HIDE DEF q
  <2>. QED  BY <1>2, <1>3, UnitsAssumption
<1>. QED  BY <1>4

LEMMA ReturnedFacts ==
    ASSUME Inv, NEW t \in Threads, Returned(t)
    PROVE  /\ pc'[t] = "idle" /\ req'[t] = NoRequest /\ SpanOf(req'[t]) = {}
           /\ \A u \in Threads \ {t} : pc'[u] = pc[u] /\ req'[u] = req[u]
<1>1. pc'[t] = "idle" /\ req'[t] = NoRequest /\ \A u \in Threads \ {t} : pc'[u] = pc[u] /\ req'[u] = req[u]
  BY DEF Returned, Inv, Fields
<1>. QED  BY <1>1 DEF SpanOf, NoRequest

LEMMA FuseWriteReturns ==
    ASSUME Inv, Returns, Inv', NEW t \in Threads, NEW op \in Ops[volume], NEW v \in Values, FuseWrite(t, op, v)
    PROVE  Returns'
<1>1. /\ UNCHANGED <<volume, diskVars, mountVars, overrideVars, buf, todo, count, reply, expected, calm, bad>>
      /\ triggered' \in BOOLEAN
  BY DEF FuseWrite, Returns, TypeOK
<1>2. CASE WellFormed(op) /\ protection # "readonly"
  <2>1. PICK r : r = [first |-> op.off \div Units, sectors |-> op.len \div Units,
                      off |-> op.off, len |-> op.len, v |-> v]
    OBVIOUS
  <2>2. req' = [req EXCEPT ![t] = r] /\ pc' = [pc EXCEPT ![t] = "TestTrigger"]
    BY <1>2, <2>1 DEF FuseWrite
  <2>3. /\ req'[t] = r /\ pc'[t] = "TestTrigger" /\ pc'[t] \in TestPcs
        /\ \A u \in Threads \ {t} : pc'[u] = pc[u] /\ req'[u] = req[u]
    BY <2>2 DEF Inv, Fields, TestPcs
  <2>4. SpanOf(r) \subseteq Sectors
    <3>1. op.off \in Nat /\ op.len \in Nat /\ volume.size \in Nat
      BY OpsAssumption, LayoutsAssumption DEF Returns, TypeOK, Layouts
    <3>2. r.first + r.sectors <= volume.size
      BY <1>2, <2>1, <3>1, WholeSectors DEF WellFormed
    <3>3. r.first \in Nat /\ r.sectors \in Nat
      BY <2>1, <3>1, DivFacts
    <3>. QED  BY <3>1, <3>2, <3>3 DEF SpanOf, Sectors
  <2>. QED  BY <1>1, <1>2, <2>3, <2>4, TestReturns
<1>3. CASE ~(WellFormed(op) /\ protection # "readonly")
  <2>1. Returned(t)
    BY <1>3 DEF FuseWrite
  <2>2. "idle" \notin TestPcs
    BY DEF TestPcs
  <2>. QED  BY <1>1, <2>1, <2>2, ReturnedFacts, TestReturns
<1>. QED  BY <1>2, <1>3

(* A write takes its sectors from the calm ones.                              *)
LEMMA BeginWriteReturns ==
    ASSUME Inv, Returns, Inv', NEW t \in Threads, BeginWrite(t), pc[t] \in TestPcs,
           UNCHANGED <<volume, diskVars, mountVars, triggered, overrideVars, req, buf, todo, count, reply>>
    PROVE  Returns'
<1>1. /\ pc'[t] = "WriteAt" /\ \A u \in Threads \ {t} : pc'[u] = pc[u] /\ req'[u] = req[u]
      /\ \A u \in Threads : calm'[u] = calm[u] \ SpanOf(req[t]) /\ bad'[u] \subseteq bad[u]
      /\ \A s \in Sectors : expected'[s] = IF s \in SpanOf(req[t]) THEN Unsettled ELSE expected[s]
      /\ calm' = [u \in Threads |-> calm'[u]]
  BY DEF BeginWrite, Inv, Fields
<1>2. /\ UNCHANGED <<data, tags, mediaData, mediaTags>>
      /\ data' \in [Sectors -> Cells] /\ DOMAIN tags' = Sectors /\ triggered' \in BOOLEAN
  BY DEF diskVars, Returns, TypeOK
<1>3. expected' \in [Sectors -> Values \cup {Unsettled}]
  <2>1. expected \in [Sectors -> Values \cup {Unsettled}]
    BY DEF Returns, TypeOK
  <2>. QED  BY <2>1 DEF BeginWrite
<1>4. \A u \in Threads : CalmKept(u)
  <2>1. \A u \in Threads : \A s \in calm[u] : s \in Sectors
    BY DEF Returns, Calm, CalmOf, Settled
  <2>. QED  BY <1>1, <1>2, <2>1 DEF CalmKept
<1>5. Placed'
  BY <1>1, <1>2, PlacedFrame DEF Returns
<1>6. pc'[t] \notin ReadPcs /\ pc'[t] # "WriteTags" /\ protection # "readonly"
  BY <1>1 DEF ReadPcs, CountPcs, Returns, Mount
<1>7. SpanOf(req'[t]) \subseteq Sectors
  <2>1. SpanOf(req[t]) \subseteq Sectors
    BY DEF Returns, TypeOK
  <2>. QED  BY <2>1
<1>. QED  BY <1>1, <1>2, <1>3, <1>4, <1>5, <1>6, <1>7, WriterReturns

LEMMA TestTriggerReturns == ASSUME Inv, Returns, Inv', NEW t \in Threads, TestTrigger(t) PROVE Returns'
<1>1. /\ pc[t] = "TestTrigger" /\ pc[t] \in TestPcs
      /\ UNCHANGED <<volume, diskVars, mountVars, triggered, overrideVars, buf, todo, count, reply>>
      /\ triggered' \in BOOLEAN
  BY DEF TestTrigger, TestPcs, Returns, TypeOK
<1>2. CASE BeginWrite(t) /\ UNCHANGED req
  BY <1>1, <1>2, BeginWriteReturns
<1>3. CASE Returned(t) /\ UNCHANGED <<expected, alone, calm, bad>>
  <2>1. "idle" \notin TestPcs
    BY DEF TestPcs
  <2>. QED  BY <1>1, <1>3, <2>1, ReturnedFacts, TestReturns
<1>4. CASE pc' = [pc EXCEPT ![t] = "CheckRange"] /\ UNCHANGED <<req, expected, alone, calm, bad>>
  <2>1. pc'[t] = "CheckRange" /\ pc'[t] \in TestPcs /\ \A u \in Threads \ {t} : pc'[u] = pc[u] /\ req'[u] = req[u]
    BY <1>4 DEF TestPcs, Inv, Fields
  <2>2. protection # "readonly" /\ SpanOf(req[t]) \subseteq Sectors
    BY <1>1 DEF Returns, TypeOK, Mount
  <2>3. SpanOf(req'[t]) \subseteq Sectors
    BY <1>4, <2>2
  <2>. QED  BY <1>1, <1>4, <2>1, <2>2, <2>3, TestReturns
<1>. QED  BY <1>2, <1>3, <1>4 DEF TestTrigger

LEMMA CheckProtectedRangeReturns ==
    ASSUME Inv, Returns, Inv', NEW t \in Threads, CheckProtectedRange(t) PROVE Returns'
<1>1. /\ pc[t] = "CheckRange" /\ pc[t] \in TestPcs
      /\ UNCHANGED <<volume, diskVars, mountVars, overrideVars, buf, todo, count, reply>>
      /\ triggered' \in BOOLEAN
  BY DEF CheckProtectedRange, TestPcs, Returns, TypeOK
<1>2. CASE BeginWrite(t) /\ UNCHANGED <<triggered, req>>
  BY <1>1, <1>2, BeginWriteReturns
<1>3. CASE Returned(t) /\ UNCHANGED <<expected, alone, calm, bad>>
  <2>1. "idle" \notin TestPcs
    BY DEF TestPcs
  <2>. QED  BY <1>1, <1>3, <2>1, ReturnedFacts, TestReturns
<1>. QED  BY <1>2, <1>3 DEF CheckProtectedRange

(* Where a write may write, everything lies in the encrypted area.            *)
LEMMA WritesEncrypted ==
    ASSUME Inv, Returns, NEW t \in Threads, pc[t] \in WritePcs, NEW s \in Sectors
    PROVE  EncryptedBefore(s)
<1>1. mounted /\ protection # "readonly" /\ ~EncryptionNotCompleted
  BY DEF Inv, Fields, Returns, Mount, WritePcs
<1>2. /\ volume.start \in Nat /\ volume.areaStart \in Nat /\ volume.areaLength \in Nat /\ volume.driveSize \in Nat
      /\ volume.size \in Nat
      /\ volume.system => volume.start + volume.size <= volume.driveSize
  BY LayoutsAssumption DEF Returns, TypeOK, Layouts
<1>3. volume.system => volume.start >= volume.areaStart /\ volume.areaLength = volume.driveSize
  BY <1>1, <1>2 DEF Returns, Mount, EncryptionNotCompleted
<1>4. s \in Nat /\ s < volume.size
  BY <1>2 DEF Sectors
<1>5. volume.system => volume.start + s \in volume.areaStart .. volume.areaStart + volume.areaLength - 1
  BY <1>2, <1>3, <1>4
<1>. QED  BY <1>5 DEF EncryptedBefore

(* A step that writes to the host.                                            *)
LEMMA HostReturns ==
    ASSUME Inv, Returns, Inv', NEW t \in Threads, pc[t] \in WritePcs,
           UNCHANGED <<volume, mediaData, mediaTags, mountVars, triggered, overrideVars,
                       buf, todo, count, reply, calm, bad>>,
           \A s \in Sectors : s \notin SpanOf(req[t]) => data'[s] = data[s],
           \A u \in Threads \ {t} : pc'[u] = pc[u] /\ req'[u] = req[u],
           pc'[t] \in {"WriteTags", "idle"}, pc'[t] = "WriteTags" => v2Active /\ req'[t] = req[t],
           pc'[t] = "idle" => SpanOf(req'[t]) = {},
           \A s \in Sectors : expected'[s] # expected[s] =>
                /\ s \in alone[t] /\ expected'[s] = req[t].v /\ data'[s] = EncryptUnit(req[t].v, Unit(s)),
           data' \in [Sectors -> Cells], DOMAIN tags' = Sectors,
           expected' \in [Sectors -> Values \cup {Unsettled}], volume.v2 \/ UNCHANGED tags
    PROVE  Returns'
<1>1. \A s \in Sectors : s \in SpanOf(req[t]) => expected[s] = Unsettled
  BY DEF Inv, Writers
<1>2. alone[t] \subseteq SpanOf(req[t])
  BY DEF Inv, Writers
<1>3. ASSUME NEW u \in Threads PROVE CalmKept(u)
  <2>1. \A s \in calm[u] : s \in Sectors /\ expected[s] # Unsettled
    BY DEF Returns, Calm, CalmOf, Settled
  <2>. QED  BY <1>1, <1>2, <2>1 DEF CalmKept
<1>4. Placed'
  <2>. SUFFICES ASSUME NEW s \in Sectors, expected'[s] # Unsettled
                PROVE  \/ data'[s] = EncryptUnit(expected'[s], Unit(s)) /\ EncryptedBefore(s)
                       \/ /\ volume.system /\ data'[s] = EncryptUnit(expected'[s], Clear)
                          /\ EncryptedBefore(s) => s = 0
    BY DEF Placed, Settled, Sectors, Unit, EncryptedBefore, EncryptUnit
  <2>1. CASE expected'[s] # expected[s]
    BY <2>1, WritesEncrypted
  <2>2. CASE expected'[s] = expected[s]
    <3>1. s \in Settled /\ data'[s] = data[s]
      BY <1>1, <2>2 DEF Settled
    <3>. QED  BY <2>2, <3>1 DEF Returns, Placed
  <2>. QED  BY <2>1, <2>2
<1>5. calm' = [u \in Threads |-> calm'[u]] /\ triggered' \in BOOLEAN /\ \A u \in Threads : bad'[u] \subseteq bad[u]
  BY DEF Returns, Shape, TypeOK
<1>6. pc'[t] \notin ReadPcs /\ (pc'[t] \in TestPcs \cup WritePcs => protection # "readonly")
  BY DEF ReadPcs, CountPcs, TestPcs, WritePcs, Returns, Mount
<1>7. SpanOf(req'[t]) \subseteq Sectors
  BY DEF Returns, TypeOK
<1>. QED  BY <1>3, <1>4, <1>5, <1>6, <1>7, WriterReturns

LEMMA WrittenTypes ==
    ASSUME Inv, Returns, NEW t \in Threads, pc[t] \in WritePcs, NEW n \in 0 .. req[t].sectors
    PROVE  /\ WrittenData(t, n) \in [Sectors -> Cells] /\ DOMAIN WrittenTags(t, n) = Sectors
           /\ \A s \in Sectors : s \notin SpanOf(req[t]) => WrittenData(t, n)[s] = data[s]
<1>1. req[t].v \in Values /\ req[t].first \in Int /\ req[t].sectors \in Int
  BY DEF Inv, Fields, WritePcs
<1>2. \A s \in Sectors : EncryptUnit(req[t].v, Unit(s)) \in Cells
  <2>1. \A s \in Sectors : Unit(s) \in Int
    BY LayoutsAssumption DEF Returns, TypeOK, Layouts, Sectors, Unit
  <2>. QED  BY <1>1, <2>1 DEF EncryptUnit, Cells
<1>3. Prefix(req[t], n) \subseteq SpanOf(req[t])
  BY <1>1, PrefixInside
<1>. QED  BY <1>2, <1>3 DEF WrittenData, WrittenTags, Returns, TypeOK

LEMMA SucceedReturns ==
    ASSUME Inv, Returns, NEW t \in Threads, pc[t] \in WritePcs, Succeed(t)
    PROVE  /\ pc'[t] = "idle" /\ SpanOf(req'[t]) = {}
           /\ \A u \in Threads \ {t} : pc'[u] = pc[u] /\ req'[u] = req[u]
           /\ expected' \in [Sectors -> Values \cup {Unsettled}]
           /\ \A s \in Sectors : expected'[s] # expected[s] => s \in alone[t] /\ expected'[s] = req[t].v
<1>1. req[t].v \in Values /\ expected \in [Sectors -> Values \cup {Unsettled}]
  BY DEF Inv, Fields, WritePcs, Returns, TypeOK
<1>. QED  BY <1>1, ReturnedFacts DEF Succeed

LEMMA WriteAtReturns == ASSUME Inv, Returns, Inv', NEW t \in Threads, WriteAt(t) PROVE Returns'
<1>1. /\ pc[t] \in WritePcs /\ data' = WrittenData(t, req[t].sectors)
      /\ UNCHANGED <<volume, tags, mediaData, mediaTags, mountVars, triggered, overrideVars,
                     buf, todo, count, reply, calm, bad>>
  BY DEF WriteAt, WritePcs
<1>2. req[t].sectors \in 0 .. req[t].sectors \/ req[t].sectors < 0
  BY <1>1 DEF Inv, Fields
<1>3. data' \in [Sectors -> Cells] /\ \A s \in Sectors : s \notin SpanOf(req[t]) => data'[s] = data[s]
  <2>1. req[t].v \in Values
    BY <1>1 DEF Inv, Fields
  <2>2. \A s \in Sectors : Unit(s) \in Int
    BY LayoutsAssumption DEF Returns, TypeOK, Layouts, Sectors, Unit
  <2>3. \A s \in Sectors : EncryptUnit(req[t].v, Unit(s)) \in Cells /\ data[s] \in Cells
    BY <2>1, <2>2 DEF EncryptUnit, Cells, Returns, TypeOK
  <2>. QED  BY <1>1, <2>3 DEF WrittenData, Prefix, SpanOf
<1>4. \A s \in Sectors : s \in SpanOf(req[t]) => data'[s] = EncryptUnit(req[t].v, Unit(s))
  BY <1>1 DEF WrittenData, Prefix, SpanOf
<1>5. alone[t] \subseteq SpanOf(req[t]) /\ DOMAIN tags' = Sectors
  BY <1>1 DEF Inv, Writers, Returns, TypeOK
<1>6. CASE v2Active
  <2>1. pc' = [pc EXCEPT ![t] = "WriteTags"] /\ UNCHANGED <<req, expected, alone>>
    BY <1>6 DEF WriteAt
  <2>2. pc'[t] = "WriteTags" /\ \A u \in Threads \ {t} : pc'[u] = pc[u]
    BY <2>1 DEF Inv, Fields
  <2>3. expected' \in [Sectors -> Values \cup {Unsettled}]
    BY <2>1 DEF Returns, TypeOK
  <2>. QED  BY <1>1, <1>3, <1>5, <1>6, <2>1, <2>2, <2>3, HostReturns
<1>7. CASE ~v2Active
  <2>1. Succeed(t)
    BY <1>7 DEF WriteAt
  <2>. QED  BY <1>1, <1>3, <1>4, <1>5, <2>1, SucceedReturns, HostReturns
<1>. QED  BY <1>6, <1>7

LEMMA WriteTagsReturns == ASSUME Inv, Returns, Inv', NEW t \in Threads, WriteTags(t) PROVE Returns'
<1>1. /\ pc[t] = "WriteTags" /\ pc[t] \in WritePcs /\ Succeed(t) /\ DOMAIN tags' = Sectors
      /\ UNCHANGED <<volume, data, mediaData, mediaTags, mountVars, triggered, overrideVars,
                     buf, todo, count, reply, calm, bad>>
  BY DEF WriteTags, WritePcs, WrittenTags
<1>2. /\ \A s \in Sectors : s \in alone[t] => data[s] = EncryptUnit(req[t].v, Unit(s))
      /\ alone[t] \subseteq SpanOf(req[t])
  BY <1>1 DEF Inv, Writers
<1>3. volume.v2 /\ data' \in [Sectors -> Cells]
  BY <1>1, LayoutsAssumption DEF Returns, TypeOK, Mount, Layouts
<1>. QED  BY <1>1, <1>2, <1>3, SucceedReturns, HostReturns

LEMMA WriteFailsReturns == ASSUME Inv, Returns, Inv', NEW t \in Threads, WriteFails(t) PROVE Returns'
<1>1. /\ pc[t] \in WritePcs /\ Returned(t)
      /\ UNCHANGED <<volume, mediaData, mediaTags, mountVars, triggered, overrideVars,
                     buf, todo, count, reply, expected, calm, bad>>
  BY DEF WriteFails, WritePcs
<1>2. PICK n \in 0 .. req[t].sectors - 1 :
        \/ pc[t] = "WriteAt"   /\ data' = WrittenData(t, n) /\ UNCHANGED tags
        \/ pc[t] = "WriteTags" /\ tags' = WrittenTags(t, n) /\ UNCHANGED data
  BY DEF WriteFails
<1>3. n \in 0 .. req[t].sectors
  BY <1>1 DEF Inv, Fields
<1>4. /\ data' \in [Sectors -> Cells] /\ DOMAIN tags' = Sectors
      /\ \A s \in Sectors : s \notin SpanOf(req[t]) => data'[s] = data[s]
      /\ expected' \in [Sectors -> Values \cup {Unsettled}]
  <2>1. /\ data \in [Sectors -> Cells] /\ DOMAIN tags = Sectors
        /\ expected' \in [Sectors -> Values \cup {Unsettled}]
    BY <1>1 DEF Returns, TypeOK
  <2>2. /\ WrittenData(t, n) \in [Sectors -> Cells] /\ DOMAIN WrittenTags(t, n) = Sectors
        /\ \A s \in Sectors : s \notin SpanOf(req[t]) => WrittenData(t, n)[s] = data[s]
    BY <1>1, <1>3, WrittenTypes
  <2>. QED  BY <1>2, <2>1, <2>2
<1>5. volume.v2 \/ UNCHANGED tags
  BY <1>2, LayoutsAssumption DEF Returns, TypeOK, Mount, Layouts
<1>. QED  BY <1>1, <1>4, <1>5, ReturnedFacts, HostReturns

----------------------------------------------------------------------------
LEMMA CallReturns == ASSUME Inv, Returns, Inv', NEW t \in Threads, Call(t) PROVE Returns'
BY FuseReadReturns, FuseWriteReturns, ReadAtReturns, ReadTagsReturns, ReadFailsReturns, CountTestReturns,
   CountFirstReturns, CountLoadReturns, CountStoreReturns, TestTriggerReturns, CheckProtectedRangeReturns,
   WriteAtReturns, WriteTagsReturns, WriteFailsReturns, ReturnReadReturns
   DEF Call

LEMMA StepReturns == Inv /\ Returns /\ Inv' /\ [Next]_vars => Returns'
<1>. SUFFICES ASSUME Inv, Returns, Inv', [Next]_vars PROVE Returns'
  OBVIOUS
<1>1. ASSUME NEW t \in Threads, Call(t) PROVE Returns'
  BY <1>1, CallReturns
<1>2. ASSUME NEW prot \in Protections, NEW ignore \in BOOLEAN, NEW require \in BOOLEAN,
             NEW error \in BOOLEAN, Open(prot, ignore, require, error)
      PROVE  Returns'
  BY <1>2, OpenReturns
<1>3. CASE CloseMountedVolume
  BY <1>3, CloseReturns
<1>4. CASE ServiceDies \/ PowerFails
  BY <1>4, ServiceDiesReturns, PowerFailsReturns
<1>5. ASSUME NEW s \in Sectors, WriteBack(s) PROVE Returns'
  BY <1>5, WriteBackReturns
<1>6. CASE UNCHANGED vars
  BY <1>6, StutterReturns
<1>. QED  BY <1>1, <1>2, <1>3, <1>4, <1>5, <1>6 DEF Next

LEMMA ReturnsInvariance == Spec => []Returns
<1>1. Init => Returns
  BY InitReturns
<1>2. Inv /\ Inv' /\ Returns /\ [Next]_vars => Returns'
  BY StepReturns
<1>. QED  BY <1>1, <1>2, Invariance, PTL DEF Spec

(* Every request the service has taken names sectors of the volume            *)
(* (fuse_service_read clamps it, fuse_service_write refuses it), and every    *)
(* variable keeps its type.                                                   *)
THEOREM TypeCorrect == Spec => []TypeOK
<1>1. Returns => TypeOK
  BY DEF Returns
<1>. QED  BY <1>1, ReturnsInvariance, PTL

(* A read of settled sectors that no write overtakes is answered with what    *)
(* they hold, in the clear and from the unit it asked for, and is not refused *)
(* for a tag (Volume::ReadSectors): the data it took and the tags it compares *)
(* are those of the same writes, and each sector is decrypted exactly if it   *)
(* is encrypted.                                                              *)
THEOREM SettledIsReturned == Spec => []SettledReads
<1>1. Returns => SettledReads
  BY DEF Returns, Calm, CalmOf, AnswersAsked, SettledReads
<1>. QED  BY <1>1, ReturnsInvariance, PTL

(* Sectors returned in spite of their tags have left the count above zero and *)
(* one of them on record (VerifyRange), although threads that race for the    *)
(* counters lose increments: no step stores zero, and a thread that counts    *)
(* has seen a first sector recorded or records one.                           *)
THEOREM IgnoredIsCounted == Spec => []OverrideLeavesTrace
<1>1. Returns => OverrideLeavesTrace
  BY DEF Returns, Counting, CountingOf, OverrideLeavesTrace
<1>. QED  BY <1>1, ReturnsInvariance, PTL
=============================================================================
