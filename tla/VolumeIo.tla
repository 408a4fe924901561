------------------------------ MODULE VolumeIo ------------------------------
(* A mounted portable volume (src/Volume/Volume.cpp) under the requests of    *)
(* the file system service (src/Driver/Fuse/FuseService.cpp), which calls it  *)
(* from several threads without a lock.                                       *)
(*                                                                            *)
(* A sector of a V2 volume is written in two steps, its data and then its     *)
(* tag (src/Volume/V2SectorMacIo.h), and read in two steps; a tag that does   *)
(* not authenticate the data refuses the read, unless the operator asked to   *)
(* ignore tags.  Nothing on disk says that a volume is V2: opening it tries   *)
(* the tag of sector 0.                                                       *)
(*                                                                            *)
(* Covered: reads of any alignment, writes, overlapping requests, failed and  *)
(* short writes, protection of a hidden volume, mount options, unmounting,    *)
(* the death of the service, power failures that lose any part of what the    *)
(* operating system had not written to the device (nothing is flushed), and   *)
(* partitions of a partly encrypted system drive.  Not covered: changes of    *)
(* the host file by others, a host file shorter than the volume, failures of  *)
(* memory.  A read or write call to the host file takes effect at once.       *)
(*                                                                            *)
(* A definition Name_Defect is a faulty variant of the definition Name below  *)
(* it, which no specification uses.                                           *)
EXTENDS Integers, FiniteSets

CONSTANTS
    Threads,     \* threads of the FUSE service
    Values,      \* contents of a sector
    Units,       \* units of a request in a sector
    Volumes,     \* layouts a volume may have
    Ops,         \* requests of the kernel, per layout
    MaxIgnored   \* bound: value at which the count of ignored tags stays

(* A layout: V2 or not, sectors before the data (VolumeDataOffset) and of     *)
(* data, the host sectors of the data of a hidden volume, and for a partition *)
(* of a system drive the start of the partition, the encrypted area of the    *)
(* drive and the drive's size.                                                *)
Layouts == [v2 : BOOLEAN, offset : Nat, size : Nat \ {0}, hiddenStart : Nat, hiddenEnd : Nat,
            system : BOOLEAN, start : Nat, areaStart : Nat, areaLength : Nat, driveSize : Nat]

ASSUME UnitsAssumption == Units \in Nat \ {0}
ASSUME LayoutsAssumption ==
    /\ Volumes \subseteq Layouts
    /\ \A v \in Volumes :
        /\ v.system => v.offset = 0 /\ ~v.v2 /\ v.start + v.size <= v.driveSize
        /\ v.hiddenStart < v.hiddenEnd => v.offset <= v.hiddenStart /\ v.hiddenEnd <= v.offset + v.size
ASSUME OpsAssumption ==
    \A v \in Volumes : Ops[v] \subseteq [kind : {"read", "write"}, off : Nat, len : Nat \ {0}]
ASSUME BoundsAssumption == MaxIgnored \in Nat \ {0}

Clear      == -1                       \* a sector that is not encrypted
Foreign    == -2                       \* a sector encrypted with the keys of the hidden volume
Garbage    == "Garbage"                \* what decryption with a wrong unit gives
Unsettled  == "Unsettled"
NoTag      == <<>>
ASSUME ValuesAssumption == Garbage \notin Values /\ Unsettled \notin Values

Cells == [v : Values, at : Int]        \* content, and the unit it is encrypted as

EncryptUnit(v, unit) == [v |-> v, at |-> unit]
DecryptUnit(c, unit) == IF c.at = unit THEN c.v ELSE Garbage
Mac(s, c)            == <<s, c>>       \* the tag of sector s with ciphertext c

VARIABLES
    volume,                   \* the layout
    data, tags,               \* what the operating system holds of data area and MAC table
    mediaData, mediaTags,     \* what the device holds of them
    mounted, protection,      \* a volume is mounted; VolumeProtection
    v2Active,                 \* V2Mac.IsActive
    ignoreTags, ignoredCount, firstIgnored,  \* the override of V2SectorMacIo
    triggered,                \* HiddenVolumeProtectionTriggered
    pc, req, buf, todo, count, reply,        \* per thread: where it is, its request,
                              \* its buffer, the sectors whose bad tag is not yet
                              \* counted, the count it loaded, what it answers
    expected,                 \* history: what the last write of a sector left to be read
    alone, calm, bad, ignored \* history, see below

diskVars     == <<data, tags, mediaData, mediaTags>>
mountVars    == <<mounted, protection, v2Active, ignoreTags>>
overrideVars == <<ignoredCount, firstIgnored, ignored>>
vars == <<volume, diskVars, mountVars, triggered, overrideVars,
          pc, req, buf, todo, count, reply, expected, alone, calm, bad>>

Sectors == 0 .. volume.size - 1
HiddenSectors == volume.hiddenStart - volume.offset .. volume.hiddenEnd - volume.offset - 1

(* A sector is settled, its content known, if the last write that reached it  *)
(* was answered with success, overlapped no other write and, on a V2 volume,  *)
(* wrote tags, and since then no write started and no power failure undid it. *)
Settled == {s \in Sectors : expected[s] # Unsettled}

(* alone[t]: sectors of the write of t that no other write overlapped.        *)
(* calm[t]: sectors of the read of t that were settled when it came and no    *)
(* write started on since; bad[t]: likewise with a tag that does not fit.     *)
(* ignored: sectors returned in this mount although their tag did not fit.    *)

NoRequest == [first |-> 0, sectors |-> 0, off |-> 0, len |-> 0, v |-> Garbage]
NoReply   == [status |-> "none", out |-> <<>>]

SpanOf(r)    == r.first .. r.first + r.sectors - 1
Prefix(r, n) == r.first .. r.first + n - 1
Writing      == {t \in Threads : pc[t] \in {"WriteAt", "WriteTags"}}

(* The number a sector is encrypted with: its offset on the host, and on a    *)
(* system drive the sector offset given to the mode.                          *)
Unit(s) == volume.offset + s + volume.start

Authentic(s) == tags[s] = Mac(s, data[s])

----------------------------------------------------------------------------
EncryptedBefore(s) ==
    ~volume.system \/ volume.start + s \in volume.areaStart .. volume.areaStart + volume.areaLength - 1

(* Windows may have repaired, that is decrypted, the first sector of a system *)
(* partition.                                                                 *)
InitialUnit(s, repaired) ==
    IF s \in HiddenSectors THEN Foreign
    ELSE IF EncryptedBefore(s) /\ ~(repaired /\ volume.system /\ s = 0) THEN Unit(s)
    ELSE Clear

Init ==
    /\ volume \in Volumes
    /\ \E content \in [Sectors -> Values], repaired \in BOOLEAN :
        /\ data = [s \in Sectors |-> EncryptUnit(content[s], InitialUnit(s, repaired))]
        /\ expected = [s \in Sectors |-> IF s \in HiddenSectors THEN Unsettled ELSE content[s]]
    /\ tags = [s \in Sectors |-> IF volume.v2 THEN Mac(s, data[s]) ELSE NoTag]
    /\ mediaData = data /\ mediaTags = tags
    /\ mounted = FALSE /\ protection = "none"
    /\ v2Active = FALSE /\ ignoreTags = FALSE /\ ignoredCount = 0 /\ firstIgnored = 0 /\ ignored = {}
    /\ triggered = FALSE
    /\ pc = [t \in Threads |-> "idle"] /\ req = [t \in Threads |-> NoRequest]
    /\ buf = [t \in Threads |-> <<>>] /\ todo = [t \in Threads |-> {}]
    /\ count = [t \in Threads |-> 0] /\ reply = [t \in Threads |-> NoReply]
    /\ alone = [t \in Threads |-> {}] /\ calm = [t \in Threads |-> {}]
    /\ bad = [t \in Threads |-> {}]

----------------------------------------------------------------------------
(* Mounting *)

Protections == {"none", "readonly", "hidden"}   \* VolumeProtection::Enum

EncryptionNotCompleted == volume.system /\ volume.areaLength # volume.driveSize
EncryptedDataSize      == volume.areaLength - (volume.start - volume.areaStart)

(* Defect: the tag is computed for the sector number on the host.             *)
DiscoverMode_Defect == tags[0] = Mac(volume.offset, data[0])

DiscoverMode == Authentic(0)

(* Volume::Open and what MountVolume does with its result.  A refused mount   *)
(* changes nothing.                                                           *)
Open(prot, ignore, require, error) ==
    /\ ~mounted
    /\ volume.system => volume.start \in volume.areaStart .. volume.areaStart + volume.areaLength - 1
    /\ prot = "hidden" => HiddenSectors # {}
    /\ v2Active' = (~error /\ DiscoverMode)
    /\ require => v2Active'
    /\ mounted' = TRUE
    /\ protection' = IF EncryptionNotCompleted THEN "readonly" ELSE prot
    /\ ignoreTags' = (ignore /\ v2Active')     \* of no effect without tags
    /\ UNCHANGED <<volume, diskVars, triggered, overrideVars, pc, req, buf, todo, count, reply,
                   expected, alone, calm, bad>>

(* The state of the volume goes with the process that had it open.            *)
Closed ==
    /\ mounted' = FALSE /\ protection' = "none" /\ v2Active' = FALSE
    /\ ignoreTags' = FALSE /\ ignoredCount' = 0 /\ firstIgnored' = 0 /\ ignored' = {}
    /\ triggered' = FALSE

CloseMountedVolume ==
    /\ mounted
    /\ \A t \in Threads : pc[t] = "idle"
    /\ Closed
    /\ UNCHANGED <<volume, diskVars, pc, req, buf, todo, count, reply, expected, alone, calm, bad>>

ThreadsGone ==
    /\ pc' = [t \in Threads |-> "idle"] /\ req' = [t \in Threads |-> NoRequest]
    /\ buf' = [t \in Threads |-> <<>>] /\ todo' = [t \in Threads |-> {}]
    /\ count' = [t \in Threads |-> 0] /\ reply' = [t \in Threads |-> NoReply]
    /\ alone' = [t \in Threads |-> {}] /\ calm' = [t \in Threads |-> {}]
    /\ bad' = [t \in Threads |-> {}]

ServiceDies ==
    /\ mounted
    /\ Closed /\ ThreadsGone
    /\ UNCHANGED <<volume, diskVars, expected>>

PowerFails ==
    /\ data' = mediaData /\ tags' = mediaTags
    /\ expected' = [s \in Sectors |->
          IF data[s] = mediaData[s] /\ tags[s] = mediaTags[s] THEN expected[s] ELSE Unsettled]
    /\ Closed /\ ThreadsGone
    /\ UNCHANGED <<volume, mediaData, mediaTags>>

(* The operating system writes what it holds to the device, in any order.     *)
WriteBack(s) ==
    /\ \/ mediaData' = [mediaData EXCEPT ![s] = data[s]] /\ UNCHANGED mediaTags
       \/ mediaTags' = [mediaTags EXCEPT ![s] = tags[s]] /\ UNCHANGED mediaData
    /\ UNCHANGED <<volume, data, tags, mountVars, triggered, overrideVars, pc, req, buf, todo,
                   count, reply, expected, alone, calm, bad>>

----------------------------------------------------------------------------
(* Reads *)

Answer(t, status, out) ==
    /\ pc' = [pc EXCEPT ![t] = "done"]
    /\ reply' = [reply EXCEPT ![t] = [status |-> status, out |-> out]]

Least(S) == CHOOSE x \in S : \A y \in S : x <= y

Clamped(op) == Least({op.len, volume.size * Units - op.off})
AlignedSectors(off, len) == (len + (off % Units) + Units - 1) \div Units

(* fuse_service_read: clamps the request, widens it to whole sectors.         *)
FuseRead(t, op) ==
    /\ mounted /\ pc[t] = "idle" /\ op.kind = "read" /\ op.off < volume.size * Units
    /\ req' = [req EXCEPT ![t] = [first |-> op.off \div Units, off |-> op.off, len |-> Clamped(op),
                                  sectors |-> AlignedSectors(op.off, Clamped(op)), v |-> Garbage]]
    /\ pc' = [pc EXCEPT ![t] = "ReadAt"]
    /\ calm' = [calm EXCEPT ![t] = SpanOf(req'[t]) \cap Settled]
    /\ bad' = [bad EXCEPT ![t] = {s \in Sectors \cap SpanOf(req'[t]) : ~Authentic(s)}
                                 \ UNION {SpanOf(req[u]) : u \in Writing}]
    /\ UNCHANGED <<volume, diskVars, mountVars, triggered, overrideVars, buf, todo, count, reply,
                   expected, alone>>

(* Defect: a first sector that is not encrypted is not recognised.            *)
Decrypted_Defect(r, b) ==
    LET decrypts(s) == EncryptionNotCompleted => volume.offset + s < EncryptedDataSize
    IN [s \in SpanOf(r) |-> DecryptUnit(b[s], IF decrypts(s) THEN Unit(s) ELSE Clear)]

(* What ReadSectors leaves in the buffer: an unencrypted first sector is      *)
(* skipped, and on a partly encrypted drive what lies behind the area.        *)
Decrypted(r, b) ==
    LET plainFirst == volume.system /\ volume.offset + r.first = 0 /\ b[r.first].at = Clear
        decrypts(s) == /\ ~(plainFirst /\ s = r.first)
                       /\ EncryptionNotCompleted => volume.offset + s < EncryptedDataSize
    IN [s \in SpanOf(r) |-> DecryptUnit(b[s], IF decrypts(s) THEN Unit(s) ELSE Clear)]

(* The part of the sectors the caller asked for.                              *)
Copied(r, b) ==
    [j \in 0 .. r.len - 1 |->
        LET k == (r.off % Units) + j IN <<Decrypted(r, b)[r.first + k \div Units], k % Units>>]

ReadAt(t) ==
    /\ pc[t] = "ReadAt"
    /\ LET b == [s \in SpanOf(req[t]) |-> data[s]] IN
        IF v2Active
        THEN /\ buf' = [buf EXCEPT ![t] = b] /\ pc' = [pc EXCEPT ![t] = "ReadTags"]
             /\ UNCHANGED reply
        ELSE Answer(t, "ok", Copied(req[t], b)) /\ UNCHANGED buf
    /\ UNCHANGED <<volume, diskVars, mountVars, triggered, overrideVars, req, todo, count,
                   expected, alone, calm, bad>>

ReadFails(t) ==
    /\ pc[t] \in {"ReadAt", "ReadTags"}
    /\ Answer(t, "error", <<>>)
    /\ buf' = [buf EXCEPT ![t] = <<>>]
    /\ UNCHANGED <<volume, diskVars, mountVars, triggered, overrideVars, req, todo, count,
                   expected, alone, calm, bad>>

(* Defect: only the first sector of the range is verified.                    *)
Mismatched_Defect(t) == {s \in Prefix(req[t], 1) : tags[s] # Mac(s, buf[t][s])}

(* VerifyRange *)
Mismatched(t) == {s \in SpanOf(req[t]) : tags[s] # Mac(s, buf[t][s])}

ReadTags(t) ==
    /\ pc[t] = "ReadTags"
    /\ IF Mismatched(t) = {} THEN
           /\ Answer(t, "ok", Copied(req[t], buf[t]))
           /\ buf' = [buf EXCEPT ![t] = <<>>] /\ UNCHANGED <<todo, ignored>>
       ELSE IF ~ignoreTags THEN
           /\ Answer(t, "mismatch", <<>>)
           /\ buf' = [buf EXCEPT ![t] = <<>>] /\ UNCHANGED <<todo, ignored>>
       ELSE
           /\ todo' = [todo EXCEPT ![t] = Mismatched(t)] /\ ignored' = ignored \cup Mismatched(t)
           /\ pc' = [pc EXCEPT ![t] = "CountTest"] /\ UNCHANGED <<reply, buf>>
    /\ UNCHANGED <<volume, diskVars, mountVars, triggered, ignoredCount, firstIgnored, req, count,
                   expected, alone, calm, bad>>

(* Defect: the first sector is looked for after the count.                    *)
CountTest_Defect(t) ==
    /\ pc[t] = "CountTest"
    /\ pc' = [pc EXCEPT ![t] = IF ignoredCount = 1 THEN "CountFirst" ELSE "CountLoad"]
    /\ UNCHANGED <<volume, diskVars, mountVars, triggered, overrideVars, req, buf, todo, count, reply,
                   expected, alone, calm, bad>>

(* The counters are plain fields of the volume, changed by every thread.      *)
CountTest(t) ==
    /\ pc[t] = "CountTest"
    /\ pc' = [pc EXCEPT ![t] = IF ignoredCount = 0 THEN "CountFirst" ELSE "CountLoad"]
    /\ UNCHANGED <<volume, diskVars, mountVars, triggered, overrideVars, req, buf, todo, count, reply,
                   expected, alone, calm, bad>>

CountFirst(t) ==
    /\ pc[t] = "CountFirst"
    /\ firstIgnored' = Least(todo[t])
    /\ pc' = [pc EXCEPT ![t] = "CountLoad"]
    /\ UNCHANGED <<volume, diskVars, mountVars, triggered, ignoredCount, ignored, req, buf, todo, count,
                   reply, expected, alone, calm, bad>>

CountLoad(t) ==
    /\ pc[t] = "CountLoad"
    /\ count' = [count EXCEPT ![t] = ignoredCount]
    /\ pc' = [pc EXCEPT ![t] = "CountStore"]
    /\ UNCHANGED <<volume, diskVars, mountVars, triggered, overrideVars, req, buf, todo, reply,
                   expected, alone, calm, bad>>

CountStore(t) ==
    /\ pc[t] = "CountStore"
    /\ ignoredCount' = IF count[t] < MaxIgnored THEN count[t] + 1 ELSE MaxIgnored
    /\ count' = [count EXCEPT ![t] = 0]
    /\ todo' = [todo EXCEPT ![t] = @ \ {Least(@)}]
    /\ IF todo'[t] = {}
       THEN Answer(t, "ok", Copied(req[t], buf[t])) /\ buf' = [buf EXCEPT ![t] = <<>>]
       ELSE pc' = [pc EXCEPT ![t] = "CountTest"] /\ UNCHANGED <<reply, buf>>
    /\ UNCHANGED <<volume, diskVars, mountVars, triggered, firstIgnored, ignored, req,
                   expected, alone, calm, bad>>

(* The caller has the answer; a new request may come.                         *)
Returned(t) ==
    /\ pc' = [pc EXCEPT ![t] = "idle"] /\ req' = [req EXCEPT ![t] = NoRequest]

ReturnRead(t) ==
    /\ pc[t] = "done"
    /\ Returned(t) /\ reply' = [reply EXCEPT ![t] = NoReply]
    /\ calm' = [calm EXCEPT ![t] = {}] /\ bad' = [bad EXCEPT ![t] = {}]
    /\ UNCHANGED <<volume, diskVars, mountVars, triggered, overrideVars, buf, todo, count, expected, alone>>

----------------------------------------------------------------------------
(* Writes *)

WellFormed(op) ==
    op.len % Units = 0 /\ op.off % Units = 0 /\ op.off + op.len <= volume.size * Units

(* fuse_service_write and the tests of WriteSectors that read nothing another *)
(* thread changes.                                                            *)
FuseWrite(t, op, v) ==
    /\ mounted /\ pc[t] = "idle" /\ op.kind = "write"
    /\ IF WellFormed(op) /\ protection # "readonly"
       THEN /\ req' = [req EXCEPT ![t] = [first |-> op.off \div Units, sectors |-> op.len \div Units,
                                          off |-> op.off, len |-> op.len, v |-> v]]
            /\ pc' = [pc EXCEPT ![t] = "TestTrigger"]
       ELSE Returned(t)
    /\ UNCHANGED <<volume, diskVars, mountVars, triggered, overrideVars, buf, todo, count, reply,
                   expected, alone, calm, bad>>

(* History of a write that passed the tests.                                  *)
BeginWrite(t) ==
    LET span == SpanOf(req[t]) IN
    /\ pc' = [pc EXCEPT ![t] = "WriteAt"]
    /\ expected' = [s \in Sectors |-> IF s \in span THEN Unsettled ELSE expected[s]]
    /\ alone' = [u \in Threads |-> IF u = t THEN span \ UNION {SpanOf(req[w]) : w \in Writing}
                                            ELSE alone[u] \ span]
    /\ calm' = [u \in Threads |-> calm[u] \ span]
    /\ bad' = [u \in Threads |-> bad[u] \ span]

TestTrigger(t) ==
    /\ pc[t] = "TestTrigger"
    /\ \/ /\ triggered
          /\ Returned(t) /\ UNCHANGED <<expected, alone, calm, bad>>
       \/ /\ ~triggered /\ protection = "hidden"
          /\ pc' = [pc EXCEPT ![t] = "CheckRange"] /\ UNCHANGED <<req, expected, alone, calm, bad>>
       \/ /\ ~triggered /\ protection # "hidden"
          /\ BeginWrite(t) /\ UNCHANGED req
    /\ UNCHANGED <<volume, diskVars, mountVars, triggered, overrideVars, buf, todo, count, reply>>

(* Defect: a write that begins before the range is not denied.                *)
InProtectedRange_Defect(start, end) == start >= volume.hiddenStart /\ start < volume.hiddenEnd

(* In host sectors, start and end of the write.                               *)
InProtectedRange(start, end) ==
    IF start < volume.hiddenStart THEN end >= volume.hiddenStart ELSE start <= volume.hiddenEnd - 1

CheckProtectedRange(t) ==
    /\ pc[t] = "CheckRange"
    /\ IF InProtectedRange(volume.offset + req[t].first,
                           volume.offset + req[t].first + req[t].sectors - 1)
       THEN /\ triggered' = TRUE
            /\ Returned(t) /\ UNCHANGED <<expected, alone, calm, bad>>
       ELSE BeginWrite(t) /\ UNCHANGED <<triggered, req>>
    /\ UNCHANGED <<volume, diskVars, mountVars, overrideVars, buf, todo, count, reply>>

WrittenData(t, n) ==
    [s \in Sectors |-> IF s \in Prefix(req[t], n) THEN EncryptUnit(req[t].v, Unit(s)) ELSE data[s]]

(* The buffer the tags are computed from holds the ciphertext of the request. *)
WrittenTags(t, n) ==
    [s \in Sectors |-> IF s \in Prefix(req[t], n) THEN Mac(s, EncryptUnit(req[t].v, Unit(s))) ELSE tags[s]]

Succeed(t) ==
    /\ expected' = [s \in Sectors |->
          IF s \in alone[t] /\ (volume.v2 => v2Active) THEN req[t].v ELSE expected[s]]
    /\ alone' = [alone EXCEPT ![t] = {}]
    /\ Returned(t)

WriteAt(t) ==
    /\ pc[t] = "WriteAt"
    /\ data' = WrittenData(t, req[t].sectors)
    /\ IF v2Active
       THEN pc' = [pc EXCEPT ![t] = "WriteTags"] /\ UNCHANGED <<req, expected, alone>>
       ELSE Succeed(t)
    /\ UNCHANGED <<volume, tags, mediaData, mediaTags, mountVars, triggered, overrideVars, buf,
                   todo, count, reply, calm, bad>>

WriteTags(t) ==
    /\ pc[t] = "WriteTags"
    /\ tags' = WrittenTags(t, req[t].sectors)
    /\ Succeed(t)
    /\ UNCHANGED <<volume, data, mediaData, mediaTags, mountVars, triggered, overrideVars, buf,
                   todo, count, reply, calm, bad>>

(* Defect: a short write of the data is taken for a complete one.             *)
WriteFails_Defect(t) ==
    /\ pc[t] = "WriteAt" /\ v2Active
    /\ \E n \in 0 .. req[t].sectors - 1 : data' = WrittenData(t, n)
    /\ pc' = [pc EXCEPT ![t] = "WriteTags"]
    /\ UNCHANGED <<volume, tags, mediaData, mediaTags, mountVars, triggered, overrideVars, req, buf,
                   todo, count, reply, expected, alone, calm, bad>>

(* A write call that fails or is short, the tags then stay as they are.       *)
WriteFails(t) ==
    /\ \E n \in 0 .. req[t].sectors - 1 :
        \/ pc[t] = "WriteAt"   /\ data' = WrittenData(t, n) /\ UNCHANGED tags
        \/ pc[t] = "WriteTags" /\ tags' = WrittenTags(t, n) /\ UNCHANGED data
    /\ Returned(t) /\ alone' = [alone EXCEPT ![t] = {}]
    /\ UNCHANGED <<volume, mediaData, mediaTags, mountVars, triggered, overrideVars, buf,
                   todo, count, reply, expected, calm, bad>>


----------------------------------------------------------------------------
Call(t) ==
    \/ \E op \in Ops[volume] : FuseRead(t, op) \/ \E v \in Values : FuseWrite(t, op, v)
    \/ ReadAt(t) \/ ReadTags(t) \/ ReadFails(t)
    \/ CountTest(t) \/ CountFirst(t) \/ CountLoad(t) \/ CountStore(t)
    \/ TestTrigger(t) \/ CheckProtectedRange(t)
    \/ WriteAt(t) \/ WriteTags(t) \/ WriteFails(t)
    \/ ReturnRead(t)

Next ==
    \/ \E t \in Threads : Call(t)
    \/ \E prot \in Protections, ignore, require, error \in BOOLEAN :
        Open(prot, ignore, require, error)
    \/ CloseMountedVolume
    \/ ServiceDies \/ PowerFails
    \/ \E s \in Sectors : WriteBack(s)

Spec == Init /\ [][Next]_vars

----------------------------------------------------------------------------
Pcs == {"idle", "ReadAt", "ReadTags", "CountTest", "CountFirst", "CountLoad", "CountStore",
        "TestTrigger", "CheckRange", "WriteAt", "WriteTags", "done"}

(* Every request names sectors of the volume.                                 *)
TypeOK ==
    /\ volume \in Volumes
    /\ data \in [Sectors -> Cells] /\ mediaData \in [Sectors -> Cells]
    /\ DOMAIN tags = Sectors /\ DOMAIN mediaTags = Sectors
    /\ mounted \in BOOLEAN /\ protection \in Protections
    /\ v2Active \in BOOLEAN /\ ignoreTags \in BOOLEAN
    /\ ignoredCount \in 0 .. MaxIgnored /\ firstIgnored \in Sectors /\ ignored \subseteq Sectors
    /\ triggered \in BOOLEAN
    /\ pc \in [Threads -> Pcs]
    /\ \A t \in Threads : SpanOf(req[t]) \subseteq Sectors
    /\ todo \in [Threads -> SUBSET Sectors]
    /\ expected \in [Sectors -> Values \cup {Unsettled}]

(* A settled sector can be read back: the host file holds what the write that *)
(* was answered with success wrote, encrypted for its place, and the MAC      *)
(* table holds its tag, whatever other requests, failed calls, dead services, *)
(* power failures and mounts came in between (Volume::WriteSectors).          *)
SettledIntact ==
    \A s \in Settled :
        /\ \/ data[s] = EncryptUnit(expected[s], Unit(s))
           \/ volume.system /\ data[s] = EncryptUnit(expected[s], Clear)
        /\ volume.v2 => Authentic(s)

(* A read that finds its sectors settled and is not overtaken by a write, and *)
(* that does not fail, is answered with the units it asked for, in the clear; *)
(* it is never refused for a tag (fuse_service_read, Volume::ReadSectors).    *)
SettledReads ==
    \A t \in Threads :
        /\ pc[t] = "done" /\ reply[t].status \in {"ok", "mismatch"}
        /\ SpanOf(req[t]) \subseteq calm[t]
        => /\ reply[t].status = "ok"
           /\ reply[t].out = [j \in 0 .. req[t].len - 1 |->
                 <<expected[(req[t].off + j) \div Units], (req[t].off + j) % Units>>]

(* While tags are verified, a sector whose tag was bad when the read began    *)
(* and that no write has started on since is never returned ("POLICY: FAIL    *)
(* CLOSED", V2SectorMacIo.h).                                                 *)
FailsClosed ==
    \A t \in Threads :
        pc[t] = "done" /\ v2Active /\ ~ignoreTags /\ bad[t] # {} => reply[t].status # "ok"

(* An ignored mismatch leaves a trace although threads race for the counters: *)
(* the count is not zero when the sectors are returned, and then the sector   *)
(* recorded as the first is one whose tag did not fit (VerifyRange).          *)
OverrideLeavesTrace ==
    /\ \A t \in Threads :
        pc[t] = "done" /\ reply[t].status = "ok" /\ v2Active /\ bad[t] # {} => ignoredCount > 0
    /\ ignoredCount > 0 => firstIgnored \in ignored

(* While a hidden volume is protected no request writes to it, whatever other *)
(* requests do between its tests and its write (CheckProtectedRange).         *)
ProtectedIntact ==
    [][mounted /\ mounted' /\ protection = "hidden" =>
        \A s \in HiddenSectors : data'[s] = data[s]]_vars

(* A V2 volume whose first sector is settled opens with its tags verified,    *)
(* unless they cannot be read: what a crash can turn off is the work of a     *)
(* write of that sector (Volume::Open, V2FormatDiscoverMode).                 *)
OpensAuthenticated ==
    [][\A prot \in Protections, ignore, require \in BOOLEAN :
        Open(prot, ignore, require, FALSE) /\ volume.v2 /\ 0 \in Settled => v2Active']_vars
=============================================================================
