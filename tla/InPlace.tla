------------------------------ MODULE InPlace ------------------------------
(* In-place encryption and decryption of a partition by the wizard            *)
(* (src/Format/InPlace.c, driven by src/Format/Tcformat.c).                   *)
(*                                                                            *)
(* The file system occupies positions 0 .. FsSize-1 of the partition.         *)
(* Encryption moves it up by Offset, from its end to its start, to make room  *)
(* for the primary header, which can be written only when everything has      *)
(* moved; decryption moves it back from its start to its end.  Until then     *)
(* only the backup header behind the last position says how far the work      *)
(* has come, and it is rewritten only now and then.  A chunk larger than      *)
(* Offset overwrites sectors that only the buffer still holds.  The first     *)
(* sectors of the file system are concealed (an XOR) while the work is under  *)
(* way, so that Windows does not recognise it.                                *)
(*                                                                            *)
(* Covered: pauses, wizard exits, changes of direction, unreadable sectors,   *)
(* failed writes and their undo, failed header updates, power failures.       *)
(* Not covered: two wizards at once (a mutex excludes them), several bad      *)
(* sectors in one chunk, a torn write of the 512-byte header.                 *)
(*                                                                            *)
(* A definition Name_Defect is a faulty variant of the definition Name below  *)
(* it, which no specification uses.                                           *)
EXTENDS Integers, FiniteSets

CONSTANTS
    FsSize,      \* sectors of the file system (VolumeSize)
    Offset,      \* TC_VOLUME_DATA_OFFSET
    Conceal,     \* TC_INITIAL_NTFS_CONCEAL_PORTION_SIZE
    Chunk,       \* TC_MAX_NONSYS_INPLACE_ENC_WORK_CHUNK_SIZE
    Interval,    \* TC_NONSYS_INPLACE_ENC_HEADER_UPDATE_INTERVAL
    MaxFailures  \* bound: I/O requests that fail and power failures

ASSUME SizesAssumption ==
    /\ FsSize \in Nat /\ Offset \in Nat /\ Conceal \in Nat
    /\ Chunk \in Nat /\ Interval \in Nat
    /\ 0 < Conceal /\ Conceal <= Offset /\ Offset < Chunk
    /\ Conceal <= FsSize /\ 0 < Interval
ASSUME BoundsAssumption == MaxFailures \in Nat

Fs        == 0 .. FsSize - 1
End       == FsSize + Offset      \* where the backup header begins
Positions == 0 .. End - 1

----------------------------------------------------------------------------
(* A sector of the disk: a sector of the file system, concealed or not, in    *)
(* the clear or encrypted as the data unit of some position; or Junk, what    *)
(* is of no use any more (wiped, zeroed, decrypted or encrypted wrongly).     *)

Clear == -1
Junk  == [fs |-> -1, hidden |-> FALSE, at |-> Clear]
Cells == [fs : Fs, hidden : BOOLEAN, at : Positions \cup {Clear}] \cup {Junk}

Sector(k)       == [fs |-> k, hidden |-> FALSE, at |-> Clear]
HiddenSector(k) == [fs |-> k, hidden |-> TRUE, at |-> Clear]
Cipher(k)       == [fs |-> k, hidden |-> FALSE, at |-> k + Offset]

EncryptUnit(c, p) == IF c # Junk /\ c.at = Clear THEN [c EXCEPT !.at = p] ELSE Junk
DecryptUnit(c, p) == IF c # Junk /\ c.at = p THEN [c EXCEPT !.at = Clear] ELSE Junk
Toggle(c)         == IF c # Junk /\ c.at = Clear THEN [c EXCEPT !.hidden = ~@] ELSE Junk

VARIABLES
    disk,      \* what each position holds
    backup,    \* the backup header: present, and its EncryptedAreaStart
    primary,   \* the primary header is in place
    session,   \* the wizard's mode while it is open, "none" when it is closed
    pc,        \* next step of the volume transformation thread
    area,      \* masterCryptoInfo->EncryptedAreaStart
    buf,       \* the chunk as it will be written, by position
    wipe,      \* a wipe algorithm was chosen
    since,     \* lastHeaderUpdateDistance
    dirty,     \* bEncryptedAreaSizeChanged
    cancel,    \* bVolTransformThreadCancel
    lost,      \* history: sectors that were not where a run left them to be found
    faults, crashes

vars == <<disk, backup, primary, session, pc, area, buf, wipe, since, dirty,
          cancel, lost, faults, crashes>>

(* Where a run that starts from header b looks for sector k, and how.         *)
Expected(b, k) ==
    IF b.present /\ b.start <= k + Offset
    THEN Cipher(k)
    ELSE IF b.present /\ k < Conceal THEN HiddenSector(k) ELSE Sector(k)
PlaceOf(b, k) == IF b.present /\ b.start <= k + Offset THEN k + Offset ELSE k
Found(d, b, k) == d[PlaceOf(b, k)] = Expected(b, k)

(* Windows recognises the file system by its first sectors.                   *)
Recognised == \A k \in 0 .. Conceal - 1 : disk[k] = Sector(k)

Remaining == IF session = "encrypt" THEN area - Offset ELSE End - area
ChunkSize == IF Remaining < Chunk THEN Remaining ELSE Chunk

----------------------------------------------------------------------------
(* Steps common to both directions *)

NoBackup == [present |-> FALSE, start |-> End]

CanFail == faults + crashes < MaxFailures
Fault   == faults' = faults + 1

Init ==
    /\ disk = [p \in Positions |-> IF p \in Fs THEN Sector(p) ELSE Junk]
    /\ backup = NoBackup /\ primary = FALSE
    /\ session = "none" /\ pc = "idle"
    /\ area = End /\ buf = <<>> /\ wipe = FALSE /\ since = 0 /\ dirty = FALSE /\ cancel = FALSE
    /\ lost = {} /\ faults = 0 /\ crashes = 0

(* The thread is gone and with it what it held in memory: from now on only    *)
(* the headers say where a sector is.                                         *)
Forget ==
    /\ pc' = "idle" /\ area' = End /\ buf' = <<>> /\ since' = 0 /\ dirty' = FALSE /\ wipe' = FALSE
    /\ cancel' = FALSE
    /\ lost' = lost \cup {k \in Fs : ~Found(disk', backup', k)}

Overwrite(new) == [p \in Positions |-> IF p \in DOMAIN new THEN new[p] ELSE disk[p]]
JunkAt(S)      == [p \in S |-> Junk]

(* FastVolumeHeaderUpdate: reads, changes and writes the backup header.       *)
UpdateHeader == backup' = [backup EXCEPT !.start = area]

----------------------------------------------------------------------------
(* Begin, resume, pause and exit: the wizard *)

(* EncryptPartitionInPlaceBegin up to the verification of the header that     *)
(* it wrote.  The header has a new master key.                                *)
Begin(w) ==
    /\ pc = "idle" /\ session = "none" /\ Recognised
    /\ backup' = [present |-> TRUE, start |-> End]
    /\ disk' = [p \in Positions |-> IF disk[p].at = Clear THEN disk[p] ELSE Junk]
    /\ session' = "encrypt" /\ pc' = "conceal" /\ wipe' = w /\ cancel' = FALSE
    /\ lost' = lost \cup {k \in Fs : disk'[k] # Sector(k)}
    /\ UNCHANGED <<primary, area, buf, since, dirty, faults, crashes>>

(* ConcealNTFS applies and undoes the concealment alike.                      *)
ConcealNTFS == Overwrite([p \in 0 .. Conceal - 1 |-> Toggle(disk[p])])

BeginConceal_Defect ==
    /\ pc = "conceal" /\ pc' = "open"
    /\ UNCHANGED <<disk, backup, primary, session, area, buf, wipe, since, dirty, cancel, lost, faults, crashes>>

BeginConceal ==
    /\ pc = "conceal"
    /\ disk' = ConcealNTFS /\ pc' = "open"
    /\ UNCHANGED <<backup, primary, session, area, buf, wipe, since, dirty, cancel, lost, faults, crashes>>

(* The reserved areas cannot be written, the header cannot be verified, or    *)
(* the file system cannot be concealed, which undoes itself.                  *)
BeginFails ==
    /\ pc = "conceal" /\ CanFail /\ Fault
    /\ session' = "none"
    /\ UNCHANGED <<disk, backup, primary, crashes>>
    /\ Forget

(* The wizard that is open goes on as it was opened; one that is opened to    *)
(* resume finds only volumes that are not fully encrypted; a decryption is    *)
(* started on any volume.                                                     *)
Resume(mode, w) ==
    /\ pc = "idle" /\ backup.present
    /\ \/ session = mode
       \/ session = "none" /\ (backup.start # Offset \/ mode = "decrypt")
    /\ session' = mode /\ pc' = "open" /\ wipe' = (w /\ mode = "encrypt") /\ cancel' = FALSE
    /\ UNCHANGED <<disk, backup, primary, area, buf, since, dirty, lost, faults, crashes>>

(* OpenBackupHeader *)
Open ==
    /\ pc = "open"
    /\ UNCHANGED <<disk, backup, primary, session, crashes>>
    /\ \/ /\ area' = backup.start
          /\ pc' = IF area' = (IF session = "encrypt" THEN Offset ELSE End) THEN "last" ELSE "chunk"
          /\ UNCHANGED <<buf, wipe, since, dirty, cancel, lost, faults>>
       \/ CanFail /\ Fault /\ Forget

Pause == pc # "idle" /\ ~cancel /\ cancel' = TRUE
         /\ UNCHANGED <<disk, backup, primary, session, pc, area, buf, wipe, since, dirty, lost, faults, crashes>>

Exit == pc = "idle" /\ session # "none" /\ session' = "none"
        /\ UNCHANGED <<disk, backup, primary, pc, area, buf, wipe, since, dirty, cancel, lost, faults, crashes>>

----------------------------------------------------------------------------
(* The core loops of EncryptPartitionInPlaceResume and DecryptPartitionInPlace *)

(* From where a chunk is read, and where it goes.                             *)
First  == IF session = "encrypt" THEN area - ChunkSize ELSE area - Offset
Target == First .. First + ChunkSize - 1
Source == IF session = "encrypt" THEN First - Offset .. First - Offset + ChunkSize - 1
                                 ELSE area .. area + ChunkSize - 1

Encrypted_Defect(d) == [p \in Target |-> EncryptUnit(d[p - Offset], p)]

(* The chunk in RAM, un-concealed and encrypted.                              *)
Encrypted(d) ==
    [p \in Target |->
        EncryptUnit(IF p - Offset < Conceal THEN Toggle(d[p - Offset]) ELSE d[p - Offset], p)]

(* The chunk in RAM, decrypted and concealed: the loop counts from the start  *)
(* of the chunk, not of the file system.                                      *)
InitialPortion(p) ==
    LET start == area - Offset
    IN  start < Conceal /\ p - start < Conceal /\ p - start < start + ChunkSize
Decrypted(d) ==
    [p \in Target |->
        LET c == DecryptUnit(d[p + Offset], p + Offset)
        IN  IF InitialPortion(p) THEN Toggle(c) ELSE c]

Transformed(d) ==
    /\ buf' = IF session = "encrypt" THEN Encrypted(d) ELSE Decrypted(d)
    /\ pc' = IF wipe THEN "wipe" ELSE "write"

ReadChunk ==
    /\ pc = "chunk"
    /\ Transformed(disk)
    /\ UNCHANGED <<disk, backup, primary, session, area, wipe, since, dirty, cancel, lost, faults, crashes>>

(* A sector is not readable.  If the user agrees encryption zeroes it and     *)
(* reads again, and decryption takes zeroes in its place.                     *)
ReadFails ==
    /\ pc = "chunk" /\ CanFail /\ Fault
    /\ \/ /\ pc' = "close"
          /\ UNCHANGED <<disk, buf, lost>>
       \/ /\ ~cancel
          /\ \E q \in Source :
                /\ Transformed([disk EXCEPT ![q] = Junk])
                /\ lost' = lost \cup {IF session = "encrypt" THEN q ELSE q - Offset}
                /\ disk' = IF session = "encrypt" THEN [disk EXCEPT ![q] = Junk] ELSE disk
    /\ UNCHANGED <<backup, primary, session, area, wipe, since, dirty, cancel, crashes>>

(* All passes over the place of the ciphertext.                               *)
WipeBuffer ==
    /\ pc = "wipe"
    /\ disk' = Overwrite(JunkAt(Target)) /\ pc' = "write"
    /\ UNCHANGED <<backup, primary, session, area, buf, wipe, since, dirty, cancel, lost, faults, crashes>>

(* After a chunk: the header at intervals, then a pause, then the next chunk. *)
AfterSave(done) == IF cancel THEN "stop" ELSE IF done THEN "last" ELSE "chunk"

WriteChunk_Defect ==
    /\ pc = "write"
    /\ disk' = Overwrite(buf) /\ primary' = (primary /\ 0 \notin Target)
    /\ area' = IF session = "encrypt" THEN area - ChunkSize ELSE area + ChunkSize
    /\ since' = ChunkSize /\ dirty' = TRUE /\ buf' = <<>>
    /\ pc' = IF since' >= Interval THEN "save" ELSE AfterSave(Remaining <= Chunk)
    /\ UNCHANGED <<backup, session, wipe, cancel, lost, faults, crashes>>

WriteChunk ==
    /\ pc = "write"
    /\ disk' = Overwrite(buf) /\ primary' = (primary /\ 0 \notin Target)
    /\ area' = IF session = "encrypt" THEN area - ChunkSize ELSE area + ChunkSize
    /\ since' = since + ChunkSize /\ dirty' = TRUE /\ buf' = <<>>
    /\ pc' = IF since' >= Interval THEN "save" ELSE AfterSave(Remaining <= Chunk)
    /\ UNCHANGED <<backup, session, wipe, cancel, lost, faults, crashes>>

(* A write that did not end has reached its first n sectors.                  *)
Interrupted(n) ==
    /\ disk' = Overwrite([p \in First .. First + n - 1 |-> IF pc = "wipe" THEN Junk ELSE buf[p]])
    /\ primary' = (primary /\ (First > 0 \/ n = 0))

(* Encryption writes the part of the chunk back that it may have overwritten; *)
(* decryption does not.                                                       *)
WriteFails ==
    /\ pc \in {"wipe", "write"} /\ CanFail /\ Fault
    /\ \E n \in 0 .. ChunkSize : Interrupted(n)
    /\ pc' = IF session = "encrypt" THEN "undo" ELSE "close"
    /\ UNCHANGED <<backup, session, area, buf, wipe, since, dirty, cancel, lost, crashes>>

Undo_Defect ==
    /\ pc = "undo" /\ pc' = "close"
    /\ \/ /\ disk' = Overwrite([p \in Target \ (area - Offset .. area - 1) |-> DecryptUnit(buf[p], p)])
          /\ UNCHANGED faults
       \/ CanFail /\ Fault /\ UNCHANGED disk
    /\ UNCHANGED <<backup, primary, session, area, buf, wipe, since, dirty, cancel, lost, crashes>>

(* Undo failed write operation; its result is not looked at.                  *)
Undo ==
    /\ pc = "undo" /\ pc' = "close"
    /\ \/ /\ disk' = Overwrite([p \in Target \ (area - Offset .. area - 1) |-> DecryptUnit(buf[p + Offset], p + Offset)])
          /\ UNCHANGED faults
       \/ CanFail /\ Fault /\ UNCHANGED disk
    /\ UNCHANGED <<backup, primary, session, area, buf, wipe, since, dirty, cancel, lost, crashes>>

SaveHeader ==
    /\ pc = "save"
    /\ \/ UpdateHeader /\ since' = 0 /\ pc' = AfterSave(Remaining = 0) /\ UNCHANGED faults
       \/ CanFail /\ Fault /\ pc' = "close" /\ UNCHANGED <<backup, since>>
    /\ UNCHANGED <<disk, primary, session, area, buf, wipe, dirty, cancel, lost, crashes>>

----------------------------------------------------------------------------
(* The end of a run *)

LastSave_Defect ==
    /\ pc \in {"stop", "last"}
    /\ \/ /\ UpdateHeader
          /\ pc' = IF session = "encrypt" THEN "primary"
                   ELSE IF pc = "last" THEN "reveal" ELSE "close"
          /\ dirty' = (dirty /\ session = "encrypt")
          /\ UNCHANGED faults
       \/ CanFail /\ Fault /\ pc' = "close" /\ UNCHANGED <<backup, dirty>>
    /\ UNCHANGED <<disk, primary, session, area, buf, wipe, since, cancel, lost, crashes>>

(* The update after the loop; a decryption closes the device before the       *)
(* closing sequence, and after it has ended there is nothing to update.       *)
LastSave ==
    /\ pc \in {"stop", "last"}
    /\ \/ /\ UpdateHeader
          /\ pc' = IF pc = "last" /\ session = "encrypt" THEN "primary"
                   ELSE IF pc = "last" THEN "reveal" ELSE "close"
          /\ dirty' = (dirty /\ session = "encrypt")
          /\ UNCHANGED faults
       \/ CanFail /\ Fault /\ pc' = "close" /\ UNCHANGED <<backup, dirty>>
    /\ UNCHANGED <<disk, primary, session, area, buf, wipe, since, cancel, lost, crashes>>

(* The primary header, and random data around it.                             *)
WritePrimary ==
    /\ pc = "primary" /\ pc' = "close"
    /\ disk' = Overwrite(JunkAt(0 .. Offset - 1))
    /\ \/ primary' = TRUE /\ UNCHANGED faults
       \/ CanFail /\ Fault /\ UNCHANGED primary
    /\ UNCHANGED <<backup, session, area, buf, wipe, since, dirty, cancel, lost, crashes>>

(* ConcealNTFS undoes the concealment.                                        *)
Reveal ==
    /\ pc = "reveal"
    /\ \/ disk' = ConcealNTFS /\ pc' = "erase" /\ UNCHANGED faults
       \/ CanFail /\ Fault /\ pc' = "close" /\ UNCHANGED disk
    /\ UNCHANGED <<backup, primary, session, area, buf, wipe, since, dirty, cancel, lost, crashes>>

(* The rest of the ciphertext and the backup header are overwritten.          *)
Erase ==
    /\ pc = "erase"
    /\ disk' = Overwrite(JunkAt(FsSize .. End - 1))
    /\ \/ backup' = NoBackup /\ session' = "none" /\ UNCHANGED faults
       \/ backup' \in {backup, NoBackup} /\ CanFail /\ Fault /\ UNCHANGED session
    /\ UNCHANGED <<primary, crashes>>
    /\ Forget

(* closing_seq: the header once more, whatever comes of it.                   *)
Close ==
    /\ pc = "close"
    /\ \/ (IF dirty THEN UpdateHeader ELSE UNCHANGED backup) /\ UNCHANGED faults
       \/ dirty /\ CanFail /\ Fault /\ UNCHANGED backup
    /\ UNCHANGED <<disk, primary, session, crashes>>
    /\ Forget

(* A power failure, perhaps in the middle of a write.                         *)
Crash ==
    /\ CanFail /\ crashes' = crashes + 1
    /\ pc # "idle" /\ session' = "none"
    /\ \/ pc \in {"wipe", "write"} /\ \E n \in 0 .. ChunkSize : Interrupted(n)
       \/ pc \notin {"wipe", "write"} /\ UNCHANGED <<disk, primary>>
    /\ UNCHANGED <<backup, faults>>
    /\ Forget

Work ==
    \/ BeginConceal \/ BeginFails \/ Open \/ ReadChunk \/ ReadFails \/ WipeBuffer \/ WriteChunk \/ WriteFails
    \/ Undo \/ SaveHeader \/ LastSave \/ WritePrimary \/ Reveal \/ Erase \/ Close

Next ==
    \/ \E w \in BOOLEAN : Begin(w) \/ \E mode \in {"encrypt", "decrypt"} : Resume(mode, w)
    \/ Pause \/ Exit \/ Crash \/ Work

Spec == Init /\ [][Next]_vars

----------------------------------------------------------------------------
(* Properties *)

Steps == {"idle", "conceal", "open", "chunk", "wipe", "write", "undo", "save", "stop", "last",
          "primary", "reveal", "erase", "close"}

(* The area and the headers stay within the partition, and a chunk that is    *)
(* held in RAM is the one that lies before (or behind) the area.              *)
TypeOK ==
    /\ disk \in [Positions -> Cells]
    /\ backup \in [present : BOOLEAN, start : Offset .. End] /\ primary \in BOOLEAN
    /\ session \in {"none", "encrypt", "decrypt"} /\ pc \in Steps
    /\ area \in Offset .. End /\ since \in Nat
    /\ wipe \in BOOLEAN /\ dirty \in BOOLEAN /\ cancel \in BOOLEAN
    /\ lost \subseteq Fs /\ faults \in Nat /\ crashes \in Nat /\ faults + crashes <= MaxFailures
    /\ pc \in {"wipe", "write", "undo"} => buf \in [Target -> Cells] /\ ChunkSize > 0
    /\ pc # "idle" => session # "none" /\ backup.present

(* However often the work is paused, left, resumed and turned round: without  *)
(* a failure every sector of the file system is, after every run, where the   *)
(* backup header says, concealed if and only if a resumed run expects it.     *)
CleanRunsLoseNothing == faults = 0 /\ crashes = 0 => lost = {}

(* A run that ends early, by a power failure or because neither the header    *)
(* nor the undo of a write could be written, costs no more than what was      *)
(* moved since the header was last written and the chunk in progress, less    *)
(* the distance by which it is moved (TC_NONSYS_INPLACE_ENC_HEADER_UPDATE_    *)
(* INTERVAL).  The concealed portion is not counted here.                     *)
LossBounded ==
    [][pc # "idle" => Cardinality((lost' \ lost) \ (0 .. Conceal - 1)) <= Interval - 1 + Chunk - Offset]_vars

(* A single failure of the device during an encryption costs nothing but the  *)
(* sector that could not be read: a failed write is undone from the buffer,   *)
(* a failed header update is repeated in the closing sequence.                *)
EncryptionUndoesFault ==
    [][pc = "close" /\ pc' = "idle" /\ session = "encrypt" /\ faults' <= 1 /\ crashes' = crashes
          => lost' \subseteq lost]_vars

(* While Windows can recognise the file system it is all there, unencrypted   *)
(* and at its place: what is partly encrypted is concealed.                   *)
RecognisedMeansWhole == Recognised /\ lost = {} => \A k \in Fs : disk[k] = Sector(k)

(* A partition with a primary header is entirely encrypted and its backup     *)
(* header agrees: the header is written last and is the first thing that a    *)
(* decryption overwrites.                                                     *)
PrimaryMeansWhole ==
    primary => backup.present /\ backup.start = Offset
               /\ \A k \in Fs \ lost : disk[k + Offset] = Cipher(k)

(* "We are decrypting the initial TC_INITIAL_NTFS_CONCEAL_PORTION_SIZE bytes   *)
(* of the filesystem. We will conceal this portion" (DecryptPartitionInPlace): *)
(* no sector behind the portion is ever concealed.  The code does otherwise   *)
(* if a decryption begins with a chunk inside the portion: the loop counts    *)
(* from the start of the chunk.                                               *)
OnlyInitialPortionConcealed ==
    \A p \in Conceal .. End - 1 : disk[p].at = Clear => ~disk[p].hidden
=============================================================================
