--------------------------- MODULE InPlace_proof ---------------------------
(* Proofs about InPlace on a partition of any size: type correctness; then    *)
(* the inductive invariant of its safety: where every sector that is not lost *)
(* lies at each step of the thread, that the first sectors are concealed      *)
(* while there is a backup header, and what a primary header implies.  That   *)
(* needs that no chunk ends inside the concealed portion (AlignedSize).       *)
(* On any size, how far behind the portion a sector can be concealed.         *)
(* A second part says how far the backup header trails behind the area; from  *)
(* it follow, by counting, what a run that ends early can cost, and that an   *)
(* encryption makes up for one fault.                                         *)
EXTENDS InPlace, FiniteSetTheorems, TLAPS

(* What a chunk in progress implies.                                          *)
Stepping ==
    /\ pc \in {"chunk", "wipe", "write", "undo"} => 0 < Remaining
    /\ pc = "undo" => session = "encrypt"
    /\ wipe => session = "encrypt" /\ pc # "idle"
    /\ pc = "wipe" => wipe

----------------------------------------------------------------------------
(* Cells and positions *)

LEMMA Sizes ==
    /\ FsSize \in Nat /\ Offset \in Nat /\ Conceal \in Nat /\ Chunk \in Nat /\ Interval \in Nat
    /\ 0 < Conceal /\ Conceal <= Offset /\ Offset < Chunk /\ Conceal <= FsSize
    /\ End = FsSize + Offset /\ End \in Nat /\ MaxFailures \in Nat
BY SizesAssumption, BoundsAssumption DEF End

LEMMA AreaLeft ==
    ASSUME NEW a \in Offset .. End
    PROVE  (a # Offset => 0 < a - Offset) /\ (a # End => 0 < End - a)
BY Sizes

LEMMA CellTypes ==
    /\ Junk \in Cells /\ Junk.at = Clear
    /\ \A k \in Fs : Sector(k) \in Cells /\ HiddenSector(k) \in Cells /\ Cipher(k) \in Cells
<1>1. Clear \in Positions \cup {Clear} /\ \A k \in Fs : k + Offset \in Positions
  BY Sizes DEF Fs, Positions
<1>2. Junk \in Cells /\ Junk.at = Clear
  BY DEF Junk, Cells
<1>3. \A k \in Fs : Sector(k) \in Cells /\ HiddenSector(k) \in Cells /\ Cipher(k) \in Cells
  BY <1>1 DEF Sector, HiddenSector, Cipher, Cells
<1> QED BY <1>2, <1>3

LEMMA CellForms ==
    ASSUME NEW c \in Cells, c # Junk
    PROVE  c \in [fs : Fs, hidden : BOOLEAN, at : Positions \cup {Clear}]
BY DEF Cells

LEMMA EncryptType ==
    ASSUME NEW c \in Cells, NEW p \in Positions
    PROVE  EncryptUnit(c, p) \in Cells /\ DecryptUnit(c, p) \in Cells /\ Toggle(c) \in Cells
<1>1. Junk \in Cells
  BY CellTypes
<1>2. CASE c = Junk
  BY <1>1, <1>2 DEF EncryptUnit, DecryptUnit, Toggle
<1>3. CASE c # Junk
  <2>1. c \in [fs : Fs, hidden : BOOLEAN, at : Positions \cup {Clear}]
    BY <1>3, CellForms
  <2>2. [c EXCEPT !.at = p] \in Cells /\ [c EXCEPT !.at = Clear] \in Cells
    BY <2>1 DEF Cells
  <2>3. [c EXCEPT !.hidden = ~@] \in Cells
    BY <2>1 DEF Cells
  <2> QED BY <1>1, <2>2, <2>3 DEF EncryptUnit, DecryptUnit, Toggle
<1> QED BY <1>2, <1>3

LEMMA OverwriteType ==
    ASSUME disk \in [Positions -> Cells], NEW S, NEW new, new \in [S -> Cells]
    PROVE  Overwrite(new) \in [Positions -> Cells]
BY DEF Overwrite

(* Where a chunk comes from and goes to.                                      *)
LEMMA ChunkBounds ==
    ASSUME TypeOK, session # "none", 0 < Remaining
    PROVE  /\ ChunkSize \in Nat /\ 0 < ChunkSize /\ ChunkSize <= Remaining /\ ChunkSize <= Chunk
           /\ First \in Int /\ 0 <= First /\ First + ChunkSize <= End
           /\ session = "encrypt" => Offset <= First /\ First = area - ChunkSize
           /\ session = "decrypt" => First = area - Offset /\ area + ChunkSize <= End
           /\ Target \subseteq Positions /\ Source \subseteq Positions
<1>1. area \in Int /\ Offset <= area /\ area <= End /\ session \in {"encrypt", "decrypt"}
  BY Sizes DEF TypeOK
<1>2. CASE session = "encrypt"
  <2>1. Remaining = area - Offset
    BY <1>2 DEF Remaining
  <2>2. ChunkSize \in Nat /\ 0 < ChunkSize /\ ChunkSize <= Remaining /\ ChunkSize <= Chunk
    BY <1>1, <2>1, Sizes DEF ChunkSize
  <2>3. First = area - ChunkSize
    BY <1>2 DEF First
  <2>4. Offset <= First /\ First + ChunkSize <= End /\ First \in Int
    BY <1>1, <2>1, <2>2, <2>3, Sizes
  <2>5. Target \subseteq Positions
    BY <2>2, <2>4, Sizes DEF Target, Positions
  <2>6. Source = First - Offset .. First - Offset + ChunkSize - 1
    BY <1>2 DEF Source
  <2>7. Source \subseteq Positions
    BY <2>2, <2>4, <2>6, Sizes DEF Positions
  <2> QED BY <1>2, <2>2, <2>3, <2>4, <2>5, <2>7, Sizes
<1>3. CASE session = "decrypt"
  <2>1. Remaining = End - area
    BY <1>3 DEF Remaining
  <2>2. ChunkSize \in Nat /\ 0 < ChunkSize /\ ChunkSize <= Remaining /\ ChunkSize <= Chunk
    BY <1>1, <2>1, Sizes DEF ChunkSize
  <2>3. First = area - Offset
    BY <1>3 DEF First
  <2>4. 0 <= First /\ First + ChunkSize <= End /\ First \in Int /\ area + ChunkSize <= End
    BY <1>1, <2>1, <2>2, <2>3, Sizes
  <2>5. Target \subseteq Positions
    BY <2>2, <2>4, Sizes DEF Target, Positions
  <2>6. Source = area .. area + ChunkSize - 1
    BY <1>3 DEF Source
  <2>7. Source \subseteq Positions
    BY <1>1, <2>2, <2>4, <2>6, Sizes DEF Positions
  <2> QED BY <1>3, <2>2, <2>3, <2>4, <2>5, <2>7, Sizes
<1> QED BY <1>1, <1>2, <1>3

(* A sector of the chunk that cannot be read is one of the file system.       *)
LEMMA SourceBounds ==
    ASSUME TypeOK, session # "none", 0 < Remaining, NEW q \in Source
    PROVE  (IF session = "encrypt" THEN q ELSE q - Offset) \in Fs
<1>1. /\ ChunkSize \in Nat /\ First \in Int /\ area \in Int /\ Offset <= area
      /\ session = "encrypt" => Offset <= First /\ First + ChunkSize <= End
      /\ session = "decrypt" => area + ChunkSize <= End
      /\ session \in {"encrypt", "decrypt"}
  BY ChunkBounds, Sizes DEF TypeOK
<1>2. CASE session = "encrypt"
  <2>1. q \in First - Offset .. First - Offset + ChunkSize - 1
    BY <1>2 DEF Source
  <2>2. q \in 0 .. FsSize - 1
    BY <1>1, <1>2, <2>1, Sizes
  <2> QED BY <1>2, <2>2 DEF Fs
<1>3. CASE session = "decrypt"
  <2>1. q \in area .. area + ChunkSize - 1
    BY <1>3 DEF Source
  <2>2. q - Offset \in 0 .. FsSize - 1
    BY <1>1, <1>3, <2>1, Sizes
  <2> QED BY <1>3, <2>2 DEF Fs
<1> QED BY <1>1, <1>2, <1>3

(* The chunk after the transformation.                                        *)
LEMMA BufferType ==
    ASSUME TypeOK, session # "none", 0 < Remaining, NEW d, d \in [Positions -> Cells]
    PROVE  /\ session = "encrypt" => Encrypted(d) \in [Target -> Cells]
           /\ session = "decrypt" => Decrypted(d) \in [Target -> Cells]
<1>1. /\ Target \subseteq Positions
      /\ session = "encrypt" => \A p \in Target : p - Offset \in Positions
      /\ session = "decrypt" => \A p \in Target : p + Offset \in Positions
  <2>1. /\ Target \subseteq Positions /\ First \in Int /\ ChunkSize \in Nat
        /\ 0 <= First /\ First + ChunkSize <= End
        /\ session = "encrypt" => Offset <= First
        /\ session = "decrypt" => First + Offset + ChunkSize <= End
    BY ChunkBounds, Sizes DEF TypeOK
  <2> QED BY <2>1, Sizes DEF Target, Positions
<1>2. ASSUME session = "encrypt" PROVE Encrypted(d) \in [Target -> Cells]
  <2>1. \A p \in Target : d[p - Offset] \in Cells /\ Toggle(d[p - Offset]) \in Cells
    BY <1>1, <1>2, EncryptType
  <2>2. \A p \in Target : \A c \in Cells : EncryptUnit(c, p) \in Cells
    BY <1>1, EncryptType
  <2> QED BY <2>1, <2>2 DEF Encrypted
<1>3. ASSUME session = "decrypt" PROVE Decrypted(d) \in [Target -> Cells]
  <2> DEFINE D(p) == DecryptUnit(d[p + Offset], p + Offset)
  <2>1. \A p \in Target : D(p) \in Cells
    BY <1>1, <1>3, EncryptType
  <2>2. \A p \in Target : Toggle(D(p)) \in Cells
    <3> HIDE DEF D
    <3> QED BY <1>1, <2>1, EncryptType
  <2>3. Decrypted(d) = [p \in Target |-> IF InitialPortion(p) THEN Toggle(D(p)) ELSE D(p)]
    BY DEF Decrypted
  <2> HIDE DEF D
  <2> QED BY <2>1, <2>2, <2>3
<1> QED BY <1>2, <1>3

----------------------------------------------------------------------------
(* Type correctness *)

(* What there is to show after a step when no chunk is in RAM.                *)
LEMMA NoChunk ==
    ASSUME disk' \in [Positions -> Cells], primary' \in BOOLEAN,
           backup' \in [present : BOOLEAN, start : Offset .. End],
           session' \in {"none", "encrypt", "decrypt"}, pc' \in Steps \ {"wipe", "write", "undo"},
           area' \in Offset .. End, since' \in Nat, wipe' \in BOOLEAN, dirty' \in BOOLEAN,
           cancel' \in BOOLEAN, lost' \subseteq Fs,
           faults' \in Nat, crashes' \in Nat, faults' + crashes' <= MaxFailures,
           pc' # "idle" => session' # "none" /\ backup'.present,
           pc' = "chunk" => 0 < Remaining', wipe' => session' = "encrypt" /\ pc' # "idle"
    PROVE  TypeOK' /\ Stepping'
BY DEF TypeOK, Stepping

LEMMA Forgotten ==
    ASSUME TypeOK, Forget, disk' \in [Positions -> Cells], primary' \in BOOLEAN,
           backup' \in [present : BOOLEAN, start : Offset .. End],
           session' \in {"none", "encrypt", "decrypt"},
           faults' \in Nat, crashes' \in Nat, faults' + crashes' <= MaxFailures
    PROVE  TypeOK' /\ Stepping'
<1>1. /\ pc' = "idle" /\ area' = End /\ since' = 0 /\ dirty' = FALSE /\ wipe' = FALSE /\ cancel' = FALSE
      /\ lost' = lost \cup {k \in Fs : ~Found(disk', backup', k)}
  BY DEF Forget
<1>2. lost' \subseteq Fs
  BY <1>1 DEF TypeOK
<1>3. area' \in Offset .. End
  BY <1>1, Sizes
<1> QED BY <1>1, <1>2, <1>3, NoChunk DEF Steps

(* What there is to show when the chunk stays in RAM, or comes there.         *)
LEMMA WithChunk ==
    ASSUME TypeOK, Stepping, session # "none", 0 < Remaining,
           UNCHANGED <<backup, session, area, wipe, since, dirty, crashes>>, pc # "idle",
           disk' \in [Positions -> Cells], primary' \in BOOLEAN, cancel' \in BOOLEAN,
           lost' \subseteq Fs, faults' \in Nat, faults' + crashes <= MaxFailures,
           pc' \in {"wipe", "write", "undo"}, buf' \in [Target -> Cells],
           pc' = "undo" => session = "encrypt", pc' = "wipe" => wipe
    PROVE  TypeOK' /\ Stepping'
<1>1. Remaining' = Remaining /\ ChunkSize' = ChunkSize /\ Target' = Target
  BY DEF Remaining, ChunkSize, Target, First
<1>2. ChunkSize > 0
  BY ChunkBounds
<1>3. Stepping'
  BY <1>1 DEF Stepping
<1>4. TypeOK'
  BY <1>1, <1>2 DEF TypeOK, Steps
<1> QED BY <1>3, <1>4

LEMMA InitType == Init => TypeOK /\ Stepping
<1> SUFFICES ASSUME Init PROVE TypeOK /\ Stepping
  OBVIOUS
<1>1. disk \in [Positions -> Cells]
  <2>1. disk = [p \in Positions |-> IF p \in Fs THEN Sector(p) ELSE Junk]
    BY DEF Init
  <2> QED BY <2>1, CellTypes
<1>2. backup = [present |-> FALSE, start |-> End] /\ End \in Offset .. End
  BY Sizes DEF Init, NoBackup
<1>3. backup \in [present : BOOLEAN, start : Offset .. End]
  BY <1>2
<1>4. /\ primary = FALSE /\ session = "none" /\ pc = "idle" /\ area = End /\ wipe = FALSE /\ since = 0
      /\ dirty = FALSE /\ cancel = FALSE /\ lost = {} /\ faults = 0 /\ crashes = 0
  BY DEF Init
<1>5. area \in Offset .. End /\ faults + crashes <= MaxFailures
  BY <1>2, <1>4, Sizes
<1> QED BY <1>1, <1>3, <1>4, <1>5 DEF TypeOK, Stepping, Steps

LEMMA BeginType ==
    ASSUME TypeOK, Stepping, NEW w \in BOOLEAN, Begin(w)
    PROVE  TypeOK' /\ Stepping'
<1>1. /\ pc' = "conceal" /\ session' = "encrypt" /\ wipe' = w /\ cancel' = FALSE
      /\ UNCHANGED <<primary, area, buf, since, dirty, faults, crashes>>
  BY DEF Begin
<1>2. backup' = [present |-> TRUE, start |-> End]
  BY DEF Begin
<1>3. backup' \in [present : BOOLEAN, start : Offset .. End] /\ backup'.present
  BY <1>2, Sizes
<1>4. disk' = [p \in Positions |-> IF disk[p].at = Clear THEN disk[p] ELSE Junk]
  BY DEF Begin
<1>5. disk' \in [Positions -> Cells]
  BY <1>4, CellTypes DEF TypeOK
<1>6. lost' = lost \cup {k \in Fs : disk'[k] # Sector(k)}
  BY DEF Begin
<1>7. lost' \subseteq Fs
  BY <1>6 DEF TypeOK
<1> QED BY <1>1, <1>3, <1>5, <1>7, NoChunk DEF TypeOK, Steps

(* ConcealNTFS keeps the disk well-formed.                                    *)
LEMMA ConcealType ==
    ASSUME TypeOK
    PROVE  ConcealNTFS \in [Positions -> Cells]
<1>1. 0 .. Conceal - 1 \subseteq Positions
  BY Sizes DEF Positions
<1>2. \A p \in 0 .. Conceal - 1 : Toggle(disk[p]) \in Cells
  BY <1>1, EncryptType DEF TypeOK
<1>3. [p \in 0 .. Conceal - 1 |-> Toggle(disk[p])] \in [0 .. Conceal - 1 -> Cells]
  BY <1>2
<1> QED BY <1>3, OverwriteType DEF ConcealNTFS, TypeOK

LEMMA BeginConcealType ==
    ASSUME TypeOK, Stepping, BeginConceal
    PROVE  TypeOK' /\ Stepping'
<1>1. /\ pc = "conceal" /\ disk' = ConcealNTFS /\ pc' = "open"
      /\ UNCHANGED <<backup, primary, session, area, buf, wipe, since, dirty, cancel, lost, faults, crashes>>
  BY DEF BeginConceal
<1> QED BY <1>1, ConcealType, NoChunk DEF TypeOK, Stepping, Steps

(* A failure is counted, and only while the bound allows it.                  *)
LEMMA FaultType ==
    ASSUME TypeOK, CanFail
    PROVE  /\ Fault => faults' \in Nat /\ faults' + crashes <= MaxFailures
           /\ crashes + 1 \in Nat /\ faults + (crashes + 1) <= MaxFailures
BY Sizes DEF TypeOK, CanFail, Fault

LEMMA BeginFailsType ==
    ASSUME TypeOK, Stepping, BeginFails
    PROVE  TypeOK' /\ Stepping'
<1>1. CanFail /\ Fault /\ Forget /\ session' = "none" /\ UNCHANGED <<disk, backup, primary, crashes>>
  BY DEF BeginFails
<1> QED BY <1>1, FaultType, Forgotten DEF TypeOK

LEMMA ResumeType ==
    ASSUME TypeOK, Stepping, NEW mode \in {"encrypt", "decrypt"}, NEW w \in BOOLEAN, Resume(mode, w)
    PROVE  TypeOK' /\ Stepping'
<1>1. /\ backup.present /\ session' = mode /\ pc' = "open" /\ wipe' = (w /\ mode = "encrypt") /\ cancel' = FALSE
      /\ UNCHANGED <<disk, backup, primary, area, buf, since, dirty, lost, faults, crashes>>
  BY DEF Resume
<1>2. wipe' \in BOOLEAN /\ (wipe' => session' = "encrypt" /\ pc' # "idle")
  BY <1>1
<1> QED BY <1>1, <1>2, NoChunk DEF TypeOK, Steps

LEMMA OpenType ==
    ASSUME TypeOK, Stepping, Open
    PROVE  TypeOK' /\ Stepping'
<1>1. pc = "open" /\ UNCHANGED <<disk, backup, primary, session, crashes>>
  BY DEF Open
<1>2. CASE CanFail /\ Fault /\ Forget
  BY <1>1, <1>2, FaultType, Forgotten DEF TypeOK
<1>3. CASE /\ area' = backup.start
           /\ pc' = IF area' = (IF session = "encrypt" THEN Offset ELSE End) THEN "last" ELSE "chunk"
           /\ UNCHANGED <<buf, wipe, since, dirty, cancel, lost, faults>>
  <2>1. area' \in Offset .. End
    BY <1>3 DEF TypeOK
  <2>2. pc' = "chunk" => 0 < Remaining'
    <3> HAVE pc' = "chunk"
    <3>1. area' # (IF session = "encrypt" THEN Offset ELSE End)
      BY <1>3
    <3>2. Remaining' = IF session = "encrypt" THEN area' - Offset ELSE End - area'
      BY <1>1 DEF Remaining, End
    <3> QED BY <2>1, <3>1, <3>2, AreaLeft
  <2>3. pc' \in {"last", "chunk"}
    BY <1>3
  <2> QED BY <1>1, <1>3, <2>1, <2>2, <2>3, NoChunk DEF TypeOK, Stepping, Steps
<1> QED BY <1>2, <1>3 DEF Open

LEMMA PauseType ==
    ASSUME TypeOK, Stepping, Pause
    PROVE  TypeOK' /\ Stepping'
<1>1. /\ pc # "idle" /\ cancel' = TRUE
      /\ UNCHANGED <<disk, backup, primary, session, pc, area, buf, wipe, since, dirty, lost, faults, crashes>>
  BY DEF Pause
<1>2. CASE pc \in {"wipe", "write", "undo"}
  BY <1>1, <1>2, WithChunk DEF TypeOK, Stepping
<1>3. CASE pc \notin {"wipe", "write", "undo"}
  <2>1. Remaining' = Remaining
    BY <1>1 DEF Remaining
  <2> QED BY <1>1, <1>3, <2>1, NoChunk DEF TypeOK, Stepping
<1> QED BY <1>2, <1>3

LEMMA ExitType ==
    ASSUME TypeOK, Stepping, Exit
    PROVE  TypeOK' /\ Stepping'
<1>1. /\ pc = "idle" /\ session' = "none"
      /\ UNCHANGED <<disk, backup, primary, pc, area, buf, wipe, since, dirty, cancel, lost, faults, crashes>>
  BY DEF Exit
<1> QED BY <1>1, NoChunk DEF TypeOK, Stepping

(* A chunk was transformed.                                                   *)
LEMMA TransformedType ==
    ASSUME TypeOK, Stepping, pc = "chunk", NEW d, d \in [Positions -> Cells], Transformed(d)
    PROVE  /\ buf' \in [Target -> Cells] /\ pc' \in {"wipe", "write"} /\ (pc' = "wipe" => wipe)
           /\ session # "none" /\ 0 < Remaining
<1>1. session # "none" /\ 0 < Remaining /\ session \in {"encrypt", "decrypt"}
  BY DEF TypeOK, Stepping
<1>2. buf' \in [Target -> Cells]
  <2>1. buf' = IF session = "encrypt" THEN Encrypted(d) ELSE Decrypted(d)
    BY DEF Transformed
  <2> QED BY <1>1, <2>1, BufferType
<1>3. pc' = IF wipe THEN "wipe" ELSE "write"
  BY DEF Transformed
<1> QED BY <1>1, <1>2, <1>3

LEMMA ReadChunkType ==
    ASSUME TypeOK, Stepping, ReadChunk
    PROVE  TypeOK' /\ Stepping'
<1>1. /\ pc = "chunk" /\ Transformed(disk)
      /\ UNCHANGED <<disk, backup, primary, session, area, wipe, since, dirty, cancel, lost, faults, crashes>>
  BY DEF ReadChunk
<1>2. /\ buf' \in [Target -> Cells] /\ pc' \in {"wipe", "write"} /\ (pc' = "wipe" => wipe)
      /\ session # "none" /\ 0 < Remaining
  BY <1>1, TransformedType DEF TypeOK
<1> QED BY <1>1, <1>2, WithChunk DEF TypeOK

LEMMA ReadFailsType ==
    ASSUME TypeOK, Stepping, ReadFails
    PROVE  TypeOK' /\ Stepping'
<1>1. /\ pc = "chunk" /\ CanFail /\ Fault
      /\ UNCHANGED <<backup, primary, session, area, wipe, since, dirty, cancel, crashes>>
  BY DEF ReadFails
<1>2. faults' \in Nat /\ faults' + crashes <= MaxFailures
  BY <1>1, FaultType
<1>3. CASE pc' = "close" /\ UNCHANGED <<disk, buf, lost>>
  BY <1>1, <1>2, <1>3, NoChunk DEF TypeOK, Stepping, Steps
<1>4. ASSUME NEW q \in Source, Transformed([disk EXCEPT ![q] = Junk]),
             lost' = lost \cup {IF session = "encrypt" THEN q ELSE q - Offset},
             disk' = IF session = "encrypt" THEN [disk EXCEPT ![q] = Junk] ELSE disk
      PROVE  TypeOK' /\ Stepping'
  <2>1. session # "none" /\ 0 < Remaining /\ session \in {"encrypt", "decrypt"}
    BY <1>1 DEF TypeOK, Stepping
  <2>2. [disk EXCEPT ![q] = Junk] \in [Positions -> Cells]
    BY CellTypes DEF TypeOK
  <2>3. /\ buf' \in [Target -> Cells] /\ pc' \in {"wipe", "write"} /\ (pc' = "wipe" => wipe)
    BY <1>1, <1>4, <2>2, TransformedType
  <2>4. disk' \in [Positions -> Cells]
    BY <1>4, <2>2 DEF TypeOK
  <2>5. (IF session = "encrypt" THEN q ELSE q - Offset) \in Fs
    BY <2>1, SourceBounds
  <2>6. lost' \subseteq Fs
    BY <1>4, <2>5 DEF TypeOK
  <2> QED BY <1>1, <1>2, <2>1, <2>3, <2>4, <2>6, WithChunk DEF TypeOK
<1> QED BY <1>3, <1>4 DEF ReadFails

LEMMA WipeBufferType ==
    ASSUME TypeOK, Stepping, WipeBuffer
    PROVE  TypeOK' /\ Stepping'
<1>1. /\ pc = "wipe" /\ disk' = Overwrite(JunkAt(Target)) /\ pc' = "write"
      /\ UNCHANGED <<backup, primary, session, area, buf, wipe, since, dirty, cancel, lost, faults, crashes>>
  BY DEF WipeBuffer
<1>2. JunkAt(Target) \in [Target -> Cells]
  BY CellTypes DEF JunkAt
<1>3. disk' \in [Positions -> Cells]
  BY <1>1, <1>2, OverwriteType DEF TypeOK
<1> QED BY <1>1, <1>3, WithChunk DEF TypeOK, Stepping

LEMMA AfterSaveType ==
    ASSUME TypeOK, NEW done \in BOOLEAN
    PROVE  AfterSave(done) \in {"stop", "last", "chunk"} /\ (AfterSave(done) = "chunk" => ~done)
BY DEF AfterSave

LEMMA WriteChunkType ==
    ASSUME TypeOK, Stepping, WriteChunk
    PROVE  TypeOK' /\ Stepping'
<1>1. /\ pc = "write"
      /\ disk' = Overwrite(buf) /\ primary' = (primary /\ 0 \notin Target)
      /\ area' = IF session = "encrypt" THEN area - ChunkSize ELSE area + ChunkSize
      /\ since' = since + ChunkSize /\ dirty' = TRUE
      /\ pc' = IF since' >= Interval THEN "save" ELSE AfterSave(Remaining <= Chunk)
      /\ UNCHANGED <<backup, session, wipe, cancel, lost, faults, crashes>>
  BY DEF WriteChunk
<1>2. /\ session \in {"encrypt", "decrypt"} /\ 0 < Remaining /\ ChunkSize \in Nat /\ ChunkSize <= Remaining
      /\ area \in Int /\ Offset <= area /\ area <= End
      /\ session = "encrypt" => Remaining = area - Offset
      /\ session = "decrypt" => Remaining = End - area
  BY <1>1, ChunkBounds, Sizes DEF TypeOK, Stepping, Remaining
<1>3. area' \in Offset .. End
  <2>1. CASE session = "encrypt"
    <3>1. area' = area - ChunkSize
      BY <1>1, <2>1
    <3> QED BY <1>2, <2>1, <3>1, Sizes
  <2>2. CASE session = "decrypt"
    <3>1. area' = area + ChunkSize
      BY <1>1, <2>2
    <3> QED BY <1>2, <2>2, <3>1, Sizes
  <2> QED BY <1>2, <2>1, <2>2
<1>4. pc' \in {"save", "stop", "last", "chunk"} /\ (pc' = "chunk" => ~(Remaining <= Chunk))
  <2>1. pc' = "save" \/ pc' = AfterSave(Remaining <= Chunk)
    BY <1>1
  <2> QED BY <2>1 DEF AfterSave
<1>5. pc' = "chunk" => 0 < Remaining'
  <2> HAVE pc' = "chunk"
  <2>1. Remaining \in Int /\ Chunk < Remaining
    BY <1>2, <1>4, Sizes
  <2>2. ChunkSize = Chunk
    BY <2>1, Sizes DEF ChunkSize
  <2>3. area' # (IF session = "encrypt" THEN Offset ELSE End)
    <3>1. CASE session = "encrypt"
      BY <1>1, <1>2, <2>1, <2>2, <3>1, Sizes
    <3>2. CASE session = "decrypt"
      BY <1>1, <1>2, <2>1, <2>2, <3>2, Sizes
    <3> QED BY <1>2, <3>1, <3>2
  <2>4. Remaining' = IF session = "encrypt" THEN area' - Offset ELSE End - area'
    BY <1>1 DEF Remaining, End
  <2> QED BY <1>3, <2>3, <2>4, AreaLeft
<1>6. disk' \in [Positions -> Cells]
  BY <1>1, OverwriteType DEF TypeOK
<1>7. primary' \in BOOLEAN
  BY <1>1
<1>8. since' \in Nat
  BY <1>1, <1>2 DEF TypeOK
<1> QED BY <1>1, <1>3, <1>4, <1>5, <1>6, <1>7, <1>8, NoChunk DEF TypeOK, Stepping, Steps

LEMMA InterruptedType ==
    ASSUME TypeOK, Stepping, pc \in {"wipe", "write"}, NEW n \in 0 .. ChunkSize, Interrupted(n)
    PROVE  disk' \in [Positions -> Cells] /\ primary' \in BOOLEAN
<1> DEFINE written == First .. First + n - 1
<1>1. /\ disk' = Overwrite([p \in written |-> IF pc = "wipe" THEN Junk ELSE buf[p]])
      /\ primary' = (primary /\ (First > 0 \/ n = 0))
  BY DEF Interrupted
<1>2. written \subseteq Target
  <2>1. First \in Int /\ ChunkSize \in Nat
    BY ChunkBounds DEF TypeOK, Stepping
  <2> QED BY <2>1 DEF Target
<1>3. buf \in [Target -> Cells]
  BY DEF TypeOK
<1> HIDE DEF written
<1>4. [p \in written |-> IF pc = "wipe" THEN Junk ELSE buf[p]] \in [written -> Cells]
  BY <1>2, <1>3, CellTypes
<1> QED BY <1>1, <1>4, OverwriteType DEF TypeOK

LEMMA WriteFailsType ==
    ASSUME TypeOK, Stepping, WriteFails
    PROVE  TypeOK' /\ Stepping'
<1>1. /\ pc \in {"wipe", "write"} /\ CanFail /\ Fault
      /\ pc' = IF session = "encrypt" THEN "undo" ELSE "close"
      /\ UNCHANGED <<backup, session, area, buf, wipe, since, dirty, cancel, lost, crashes>>
  BY DEF WriteFails
<1>2. PICK n \in 0 .. ChunkSize : Interrupted(n)
  BY DEF WriteFails
<1>3. disk' \in [Positions -> Cells] /\ primary' \in BOOLEAN
  BY <1>1, <1>2, InterruptedType
<1>4. faults' \in Nat /\ faults' + crashes <= MaxFailures
  BY <1>1, FaultType
<1>5. session \in {"encrypt", "decrypt"} /\ 0 < Remaining /\ buf \in [Target -> Cells]
  BY <1>1 DEF TypeOK, Stepping
<1>6. CASE session = "encrypt"
  BY <1>1, <1>3, <1>4, <1>5, <1>6, WithChunk DEF TypeOK
<1>7. CASE session = "decrypt"
  BY <1>1, <1>3, <1>4, <1>7, NoChunk DEF TypeOK, Stepping, Steps
<1> QED BY <1>5, <1>6, <1>7

LEMMA UndoType ==
    ASSUME TypeOK, Stepping, Undo
    PROVE  TypeOK' /\ Stepping'
<1> DEFINE back == Target \ (area - Offset .. area - 1)
           restored == [p \in back |-> DecryptUnit(buf[p + Offset], p + Offset)]
<1>1. /\ pc = "undo" /\ pc' = "close"
      /\ UNCHANGED <<backup, primary, session, area, buf, wipe, since, dirty, cancel, lost, crashes>>
  BY DEF Undo
<1>2. restored \in [back -> Cells]
  <2>1. /\ session = "encrypt" /\ First \in Int /\ 0 <= First /\ First = area - ChunkSize
        /\ area \in Int /\ area <= End /\ ChunkSize \in Nat /\ Target \subseteq Positions
    BY <1>1, ChunkBounds, Sizes DEF TypeOK, Stepping
  <2>2. \A p \in back : p + Offset \in Target
    BY <2>1, Sizes DEF Target
  <2>3. \A p \in back : buf[p + Offset] \in Cells /\ p + Offset \in Positions
    <3> HIDE DEF back
    <3> QED BY <1>1, <2>1, <2>2 DEF TypeOK
  <2>4. \A p \in back : DecryptUnit(buf[p + Offset], p + Offset) \in Cells
    <3> HIDE DEF back
    <3> QED BY <2>3, EncryptType
  <2> QED BY <2>4
<1>3. CASE disk' = Overwrite(restored) /\ UNCHANGED faults
  <2>1. disk' \in [Positions -> Cells]
    <3> HIDE DEF restored, back
    <3> QED BY <1>2, <1>3, OverwriteType DEF TypeOK
  <2> QED BY <1>1, <1>3, <2>1, NoChunk DEF TypeOK, Stepping, Steps
<1>4. CASE CanFail /\ Fault /\ UNCHANGED disk
  BY <1>1, <1>4, FaultType, NoChunk DEF TypeOK, Stepping, Steps
<1> QED BY <1>3, <1>4 DEF Undo

(* The header takes the bound of the area.                                    *)
LEMMA HeaderType ==
    ASSUME TypeOK, UpdateHeader
    PROVE  backup' = [present |-> backup.present, start |-> area]
           /\ backup' \in [present : BOOLEAN, start : Offset .. End]
<1>1. backup' = [backup EXCEPT !.start = area]
  BY DEF UpdateHeader
<1>2. backup' = [present |-> backup.present, start |-> area]
  BY <1>1 DEF TypeOK
<1> QED BY <1>2 DEF TypeOK

LEMMA SaveHeaderType ==
    ASSUME TypeOK, Stepping, SaveHeader
    PROVE  TypeOK' /\ Stepping'
<1>1. pc = "save" /\ UNCHANGED <<disk, primary, session, area, buf, wipe, dirty, cancel, lost, crashes>>
  BY DEF SaveHeader
<1>2. CASE UpdateHeader /\ since' = 0 /\ pc' = AfterSave(Remaining = 0) /\ UNCHANGED faults
  <2>1. backup' \in [present : BOOLEAN, start : Offset .. End] /\ backup'.present
    BY <1>1, <1>2, HeaderType DEF TypeOK
  <2>2. pc' \in {"stop", "last", "chunk"} /\ (pc' = "chunk" => Remaining # 0)
    BY <1>2 DEF AfterSave
  <2>3. Remaining' = Remaining
    BY <1>1 DEF Remaining
  <2>4. Remaining # 0 => 0 < Remaining
    BY Sizes DEF TypeOK, Remaining
  <2> QED BY <1>1, <1>2, <2>1, <2>2, <2>3, <2>4, NoChunk DEF TypeOK, Stepping, Steps
<1>3. CASE CanFail /\ Fault /\ pc' = "close" /\ UNCHANGED <<backup, since>>
  BY <1>1, <1>3, FaultType, NoChunk DEF TypeOK, Stepping, Steps
<1> QED BY <1>2, <1>3 DEF SaveHeader

LEMMA LastSaveType ==
    ASSUME TypeOK, Stepping, LastSave
    PROVE  TypeOK' /\ Stepping'
<1>1. pc \in {"stop", "last"} /\ UNCHANGED <<disk, primary, session, area, buf, wipe, since, cancel, lost, crashes>>
  BY DEF LastSave
<1>2. CASE /\ UpdateHeader
           /\ pc' = IF pc = "last" /\ session = "encrypt" THEN "primary"
                    ELSE IF pc = "last" THEN "reveal" ELSE "close"
           /\ dirty' = (dirty /\ session = "encrypt")
           /\ UNCHANGED faults
  <2>1. backup' \in [present : BOOLEAN, start : Offset .. End] /\ backup'.present
    BY <1>1, <1>2, HeaderType DEF TypeOK
  <2>2. pc' \in {"primary", "reveal", "close"} /\ dirty' \in BOOLEAN
    BY <1>2
  <2> QED BY <1>1, <1>2, <2>1, <2>2, NoChunk DEF TypeOK, Stepping, Steps
<1>3. CASE CanFail /\ Fault /\ pc' = "close" /\ UNCHANGED <<backup, dirty>>
  BY <1>1, <1>3, FaultType, NoChunk DEF TypeOK, Stepping, Steps
<1> QED BY <1>2, <1>3 DEF LastSave

LEMMA WritePrimaryType ==
    ASSUME TypeOK, Stepping, WritePrimary
    PROVE  TypeOK' /\ Stepping'
<1>1. /\ pc = "primary" /\ pc' = "close" /\ disk' = Overwrite(JunkAt(0 .. Offset - 1))
      /\ UNCHANGED <<backup, session, area, buf, wipe, since, dirty, cancel, lost, crashes>>
  BY DEF WritePrimary
<1>2. \/ primary' = TRUE /\ UNCHANGED faults
      \/ CanFail /\ Fault /\ UNCHANGED primary
  BY DEF WritePrimary
<1>3. JunkAt(0 .. Offset - 1) \in [0 .. Offset - 1 -> Cells]
  BY CellTypes DEF JunkAt
<1>4. disk' \in [Positions -> Cells]
  BY <1>1, <1>3, OverwriteType DEF TypeOK
<1> QED BY <1>1, <1>2, <1>4, FaultType, NoChunk DEF TypeOK, Stepping, Steps

LEMMA RevealType ==
    ASSUME TypeOK, Stepping, Reveal
    PROVE  TypeOK' /\ Stepping'
<1>1. pc = "reveal" /\ UNCHANGED <<backup, primary, session, area, buf, wipe, since, dirty, cancel, lost, crashes>>
  BY DEF Reveal
<1>2. CASE disk' = ConcealNTFS /\ pc' = "erase" /\ UNCHANGED faults
  BY <1>1, <1>2, ConcealType, NoChunk DEF TypeOK, Stepping, Steps
<1>3. CASE CanFail /\ Fault /\ pc' = "close" /\ UNCHANGED disk
  BY <1>1, <1>3, FaultType, NoChunk DEF TypeOK, Stepping, Steps
<1> QED BY <1>2, <1>3 DEF Reveal

LEMMA EraseType ==
    ASSUME TypeOK, Stepping, Erase
    PROVE  TypeOK' /\ Stepping'
<1>1. /\ pc = "erase" /\ disk' = Overwrite(JunkAt(FsSize .. End - 1)) /\ Forget
      /\ UNCHANGED <<primary, crashes>>
  BY DEF Erase
<1>2. \/ backup' = NoBackup /\ session' = "none" /\ UNCHANGED faults
      \/ backup' \in {backup, NoBackup} /\ CanFail /\ Fault /\ UNCHANGED session
  BY DEF Erase
<1>3. NoBackup \in [present : BOOLEAN, start : Offset .. End]
  BY Sizes DEF NoBackup
<1>4. JunkAt(FsSize .. End - 1) \in [FsSize .. End - 1 -> Cells]
  BY CellTypes DEF JunkAt
<1>5. disk' \in [Positions -> Cells]
  BY <1>1, <1>4, OverwriteType DEF TypeOK
<1> QED BY <1>1, <1>2, <1>3, <1>5, FaultType, Forgotten DEF TypeOK

LEMMA CloseType ==
    ASSUME TypeOK, Stepping, Close
    PROVE  TypeOK' /\ Stepping'
<1>1. pc = "close" /\ Forget /\ UNCHANGED <<disk, primary, session, crashes>>
  BY DEF Close
<1>2. \/ (IF dirty THEN UpdateHeader ELSE UNCHANGED backup) /\ UNCHANGED faults
      \/ dirty /\ CanFail /\ Fault /\ UNCHANGED backup
  BY DEF Close
<1>3. backup' \in [present : BOOLEAN, start : Offset .. End]
  BY <1>2, HeaderType DEF TypeOK
<1> QED BY <1>1, <1>2, <1>3, FaultType, Forgotten DEF TypeOK

LEMMA CrashType ==
    ASSUME TypeOK, Stepping, Crash
    PROVE  TypeOK' /\ Stepping'
<1>1. CanFail /\ crashes' = crashes + 1 /\ session' = "none" /\ Forget /\ UNCHANGED <<backup, faults>>
  BY DEF Crash
<1>2. disk' \in [Positions -> Cells] /\ primary' \in BOOLEAN
  <2>1. CASE pc \in {"wipe", "write"} /\ \E n \in 0 .. ChunkSize : Interrupted(n)
    <3>1. PICK n \in 0 .. ChunkSize : Interrupted(n)
      BY <2>1
    <3> QED BY <2>1, <3>1, InterruptedType
  <2>2. CASE UNCHANGED <<disk, primary>>
    BY <2>2 DEF TypeOK
  <2> QED BY <2>1, <2>2 DEF Crash
<1> QED BY <1>1, <1>2, FaultType, Forgotten DEF TypeOK

LEMMA StepType == TypeOK /\ Stepping /\ [Next]_vars => TypeOK' /\ Stepping'
<1> SUFFICES ASSUME TypeOK, Stepping, [Next]_vars PROVE TypeOK' /\ Stepping'
  OBVIOUS
<1>1. ASSUME NEW w \in BOOLEAN, Begin(w) PROVE TypeOK' /\ Stepping'
  BY <1>1, BeginType
<1>2. ASSUME NEW mode \in {"encrypt", "decrypt"}, NEW w \in BOOLEAN, Resume(mode, w) PROVE TypeOK' /\ Stepping'
  BY <1>2, ResumeType
<1>3. CASE Pause \/ Exit \/ Crash
  BY <1>3, PauseType, ExitType, CrashType
<1>4. CASE Work
  BY <1>4, BeginConcealType, BeginFailsType, OpenType, ReadChunkType, ReadFailsType, WipeBufferType,
     WriteChunkType, WriteFailsType, UndoType, SaveHeaderType, LastSaveType, WritePrimaryType,
     RevealType, EraseType, CloseType DEF Work
<1>5. CASE UNCHANGED vars
  <2>1. ChunkSize' = ChunkSize /\ Target' = Target /\ Remaining' = Remaining
    BY <1>5 DEF vars, ChunkSize, Target, First, Remaining
  <2> QED BY <1>5, <2>1 DEF vars, TypeOK, Stepping
<1> QED BY <1>1, <1>2, <1>3, <1>4, <1>5 DEF Next

(* The disk, the headers and the chunk in RAM keep their form in every run on *)
(* every partition: in particular a chunk never reaches beyond the partition, *)
(* and the thread works only while there is a backup header                   *)
(* (EncryptPartitionInPlaceResume, DecryptPartitionInPlace).                  *)
THEOREM TypeCorrect == Spec => []TypeOK
BY InitType, StepType, PTL DEF Spec

----------------------------------------------------------------------------
(* Safety *)

Here(a) == [present |-> TRUE, start |-> a]
Clean   == faults = 0 /\ crashes = 0

(* The chunks of a partition of this size do not begin or end inside the      *)
(* concealed portion.  Without this DecryptPartitionInPlace conceals too much *)
(* (Format/InPlace.c:1619).                                                   *)
AlignedSize == \A i \in 0 .. FsSize : i * Chunk < FsSize => Conceal <= FsSize - i * Chunk

(* The bounds the area can have: whole chunks from either end.                *)
Reachable(a) == \E i \in Nat : a = Offset + i * Chunk \/ a = End - i * Chunk
Aligned(a)   == a = Offset \/ Conceal <= a - Offset
Bounds       == Reachable(area) /\ Reachable(backup.start)

(* Where the sectors that are not lost are, at each step of a run.            *)
Placed(b) == \A k \in Fs \ lost : Found(disk, b, k)
InClear   == \A k \in Fs \ lost : disk[k] = Sector(k)

(* The sectors that the buffer holds, and how they will lie.                  *)
Moving   == IF session = "encrypt" THEN {k \in Fs : k + Offset \in Target} ELSE Target
NextArea == IF session = "encrypt" THEN area - ChunkSize ELSE area + ChunkSize
Moved(k) == buf[PlaceOf(Here(NextArea), k)] = Expected(Here(NextArea), k)
InBuffer ==
    \A k \in Fs \ lost : IF k \in Moving THEN Moved(k) ELSE Found(disk, Here(area), k)

DataInv ==
    /\ pc \in {"idle", "open"} => Placed(backup)
    /\ pc \in {"conceal", "erase"} => backup = Here(End) /\ InClear
    /\ pc \in {"chunk", "save", "stop", "last", "primary", "reveal"} => Placed(Here(area))
    /\ pc \in {"wipe", "write"} => InBuffer
    /\ pc = "last" => Remaining = 0
    /\ pc = "primary" => area = Offset /\ backup = Here(Offset)
    /\ pc = "reveal" => area = End /\ backup = Here(End)
    /\ Clean => pc # "undo" /\ lost = {}
    /\ Clean /\ pc = "close" => Placed(Here(area)) /\ backup = Here(area)

Hidden     == \A p \in 0 .. Conceal - 1 : disk[p] # Sector(p)
ConcealInv == lost = {} /\ backup.present /\ pc \notin {"conceal", "erase"} => Hidden

PrimaryInv ==
    primary =>
        /\ backup = Here(Offset) /\ disk[0] = Junk
        /\ pc \notin {"idle", "open"} => area = Offset
        /\ \A k \in Fs \ lost : disk[k + Offset] = Cipher(k)

Inv == TypeOK /\ Stepping /\ Bounds /\ DataInv /\ ConcealInv /\ PrimaryInv

----------------------------------------------------------------------------
(* The bounds of the area *)

LEMMA Multiple ==
    ASSUME NEW i \in Nat, i # 0
    PROVE  i - 1 \in Nat /\ i * Chunk = (i - 1) * Chunk + Chunk /\ Chunk <= i * Chunk /\ i <= i * Chunk
<1>1. i - 1 \in Nat /\ Chunk \in Nat /\ 1 <= Chunk
  BY Sizes
<1>2. i * Chunk = (i - 1) * Chunk + Chunk
  BY <1>1
<1>3. 0 <= (i - 1) * Chunk /\ i - 1 <= (i - 1) * Chunk
  BY <1>1
<1> QED BY <1>1, <1>2, <1>3

LEMMA AlignedArea ==
    ASSUME AlignedSize, NEW a \in Offset .. End, Reachable(a)
    PROVE  Aligned(a)
<1>1. PICK i \in Nat : a = Offset + i * Chunk \/ a = End - i * Chunk
  BY DEF Reachable
<1>2. i * Chunk \in Nat /\ a \in Int
  BY <1>1, Sizes
<1>3. CASE a = Offset + i * Chunk
  <2>1. CASE i = 0
    BY <1>3, <2>1, Sizes DEF Aligned
  <2>2. CASE i # 0
    BY <1>2, <1>3, <2>2, Multiple, Sizes DEF Aligned
  <2> QED BY <2>1, <2>2
<1>4. CASE a = End - i * Chunk
  <2>1. a - Offset = FsSize - i * Chunk
    BY <1>2, <1>4, Sizes
  <2>2. CASE i * Chunk < FsSize
    <3>1. i <= i * Chunk
      BY Multiple, Sizes
    <3>2. i \in 0 .. FsSize
      BY <1>2, <2>2, <3>1, Sizes
    <3> QED BY <2>1, <2>2, <3>2 DEF AlignedSize, Aligned
  <2>3. CASE ~(i * Chunk < FsSize)
    BY <1>2, <2>1, <2>3, Sizes DEF Aligned
  <2> QED BY <2>2, <2>3
<1> QED BY <1>1, <1>3, <1>4

LEMMA EndsReachable == Reachable(Offset) /\ Reachable(End)
<1>1. 0 \in Nat /\ Offset = Offset + 0 * Chunk /\ End = End - 0 * Chunk
  BY Sizes
<1> QED BY <1>1 DEF Reachable

LEMMA NextReachable ==
    ASSUME TypeOK, session # "none", 0 < Remaining, Reachable(area)
    PROVE  Reachable(NextArea)
<1>1. /\ area \in Int /\ Offset <= area /\ area <= End /\ session \in {"encrypt", "decrypt"}
      /\ ChunkSize \in Nat /\ ChunkSize <= Remaining /\ Remaining \in Int
  BY ChunkBounds, Sizes DEF TypeOK, Remaining
<1>2. CASE Remaining < Chunk
  <2>1. NextArea = Offset \/ NextArea = End
    BY <1>1, <1>2, Sizes DEF NextArea, ChunkSize, Remaining
  <2> QED BY <2>1, EndsReachable
<1>3. CASE ~(Remaining < Chunk)
  <2>1. ChunkSize = Chunk /\ Chunk <= Remaining
    BY <1>1, <1>3, Sizes DEF ChunkSize
  <2>2. PICK i \in Nat : area = Offset + i * Chunk \/ area = End - i * Chunk
    BY DEF Reachable
  <2>3. i * Chunk \in Nat /\ i + 1 \in Nat /\ (i + 1) * Chunk = i * Chunk + Chunk
    BY <2>2, Sizes
  <2>4. CASE session = "encrypt"
    <3>1. NextArea = area - Chunk /\ Chunk <= area - Offset
      BY <2>1, <2>4 DEF NextArea, Remaining
    <3>2. CASE area = Offset + i * Chunk
      <4>1. i # 0
        BY <3>1, <3>2, Sizes
      <4>2. i - 1 \in Nat /\ NextArea = Offset + (i - 1) * Chunk
        BY <2>3, <3>1, <3>2, <4>1, Multiple, Sizes
      <4> QED BY <4>2 DEF Reachable
    <3>3. CASE area = End - i * Chunk
      <4>1. NextArea = End - (i + 1) * Chunk
        BY <2>3, <3>1, <3>3, Sizes
      <4> QED BY <2>3, <4>1 DEF Reachable
    <3> QED BY <2>2, <3>2, <3>3
  <2>5. CASE session = "decrypt"
    <3>1. NextArea = area + Chunk /\ Chunk <= End - area
      BY <2>1, <2>5 DEF NextArea, Remaining
    <3>2. CASE area = End - i * Chunk
      <4>1. i # 0
        BY <3>1, <3>2, Sizes
      <4>2. i - 1 \in Nat /\ NextArea = End - (i - 1) * Chunk
        BY <2>3, <3>1, <3>2, <4>1, Multiple, Sizes
      <4> QED BY <4>2 DEF Reachable
    <3>3. CASE area = Offset + i * Chunk
      <4>1. NextArea = Offset + (i + 1) * Chunk
        BY <2>3, <3>1, <3>3, Sizes
      <4> QED BY <2>3, <4>1 DEF Reachable
    <3> QED BY <2>2, <3>2, <3>3
  <2> QED BY <1>1, <2>4, <2>5
<1> QED BY <1>2, <1>3

(* Only a chunk that was written moves the area, only the area goes into the  *)
(* header, and a run starts where the header says.                            *)
LEMMA BoundsStep == TypeOK /\ Stepping /\ Bounds /\ [Next]_vars => Bounds'
<1> SUFFICES ASSUME TypeOK, Stepping, Bounds, [Next]_vars PROVE Bounds'
  OBVIOUS
<1> DEFINE A == area' = area \/ area' = End \/ area' = backup.start \/ (area' = NextArea /\ pc = "write")
           B == backup' = backup \/ backup'.start = area \/ backup'.start = End
<1>1. A /\ B => Bounds'
  <2> HAVE A /\ B
  <2>1. pc = "write" => Reachable(NextArea)
    BY NextReachable DEF Bounds, TypeOK, Stepping
  <2>2. Reachable(area')
    BY <2>1, EndsReachable DEF Bounds
  <2>3. Reachable(backup'.start)
    BY EndsReachable DEF Bounds
  <2> QED BY <2>2, <2>3 DEF Bounds, Reachable, End
<1>2. UpdateHeader => backup'.start = area
  BY HeaderType
<1>3. NoBackup.start = End
  BY DEF NoBackup
<1>4. ASSUME NEW w \in BOOLEAN, Begin(w) PROVE Bounds'
  BY <1>1, <1>4 DEF Begin
<1>5. ASSUME NEW mode \in {"encrypt", "decrypt"}, NEW w \in BOOLEAN, Resume(mode, w) PROVE Bounds'
  BY <1>1, <1>5 DEF Resume
<1>6. CASE Pause \/ Exit \/ UNCHANGED vars
  BY <1>1, <1>6 DEF Pause, Exit, vars
<1>7. CASE Crash
  BY <1>1, <1>7 DEF Crash, Forget
<1>8. CASE WriteChunk
  <2>1. area' = NextArea /\ pc = "write" /\ backup' = backup
    BY <1>8 DEF WriteChunk, NextArea
  <2> QED BY <1>1, <2>1
<1>9. CASE BeginConceal \/ ReadChunk \/ ReadFails \/ WipeBuffer \/ WriteFails \/ Undo \/ WritePrimary \/ Reveal
  BY <1>1, <1>9 DEF BeginConceal, ReadChunk, ReadFails, WipeBuffer, WriteFails, Undo, WritePrimary, Reveal
<1>10. CASE BeginFails \/ Open
  BY <1>1, <1>10 DEF BeginFails, Open, Forget
<1>11. CASE SaveHeader \/ LastSave
  BY <1>1, <1>2, <1>11 DEF SaveHeader, LastSave
<1>12. CASE Erase
  BY <1>1, <1>3, <1>12 DEF Erase, Forget
<1>13. CASE Close
  BY <1>1, <1>2, <1>13 DEF Close, Forget
<1> QED BY <1>4, <1>5, <1>6, <1>7, <1>8, <1>9, <1>10, <1>11, <1>12, <1>13 DEF Next, Work

----------------------------------------------------------------------------
(* Where a sector is *)

LEMMA CellUpdate ==
    ASSUME NEW r \in [fs : Int, hidden : BOOLEAN, at : Int]
    PROVE  /\ [r EXCEPT !.hidden = ~@] = [fs |-> r.fs, hidden |-> ~r.hidden, at |-> r.at]
           /\ \A p \in Int : [r EXCEPT !.at = p] = [fs |-> r.fs, hidden |-> r.hidden, at |-> p]
OBVIOUS

LEMMA Forms ==
    ASSUME NEW k \in Fs
    PROVE  /\ Toggle(HiddenSector(k)) = Sector(k) /\ Toggle(Sector(k)) = HiddenSector(k)
           /\ EncryptUnit(Sector(k), k + Offset) = Cipher(k)
           /\ DecryptUnit(Cipher(k), k + Offset) = Sector(k)
           /\ HiddenSector(k) # Sector(k) /\ Junk # Sector(k) /\ Sector(k).at = Clear
<1>1. k \in Nat /\ k # -1 /\ Offset \in Nat
  BY Sizes DEF Fs
<1>2. /\ Sector(k) = [fs |-> k, hidden |-> FALSE, at |-> -1]
      /\ HiddenSector(k) = [fs |-> k, hidden |-> TRUE, at |-> -1]
      /\ Cipher(k) = [fs |-> k, hidden |-> FALSE, at |-> k + Offset]
      /\ Junk = [fs |-> -1, hidden |-> FALSE, at |-> -1]
  BY DEF Sector, HiddenSector, Cipher, Junk, Clear
<1>3. Sector(k) # Junk /\ HiddenSector(k) # Junk /\ Cipher(k) # Junk /\ HiddenSector(k) # Sector(k)
  <2>1. Sector(k).fs = k /\ HiddenSector(k).fs = k /\ Cipher(k).fs = k /\ Junk.fs = -1
    BY <1>2
  <2>2. Sector(k).hidden = FALSE /\ HiddenSector(k).hidden = TRUE
    BY <1>2
  <2> QED BY <1>1, <2>1, <2>2
<1>4. Toggle(HiddenSector(k)) = [HiddenSector(k) EXCEPT !.hidden = ~@]
  BY <1>2, <1>3 DEF Toggle, Clear
<1>5. Toggle(Sector(k)) = [Sector(k) EXCEPT !.hidden = ~@]
  BY <1>2, <1>3 DEF Toggle, Clear
<1>6. EncryptUnit(Sector(k), k + Offset) = [Sector(k) EXCEPT !.at = k + Offset]
  BY <1>2, <1>3 DEF EncryptUnit, Clear
<1>7. DecryptUnit(Cipher(k), k + Offset) = [Cipher(k) EXCEPT !.at = -1]
  BY <1>2, <1>3 DEF DecryptUnit, Clear
<1>12. /\ Sector(k) \in [fs : Int, hidden : BOOLEAN, at : Int]
       /\ HiddenSector(k) \in [fs : Int, hidden : BOOLEAN, at : Int]
       /\ Cipher(k) \in [fs : Int, hidden : BOOLEAN, at : Int]
  BY <1>1, <1>2
<1>8. Toggle(HiddenSector(k)) = Sector(k) /\ Toggle(Sector(k)) = HiddenSector(k)
  <2>1. HiddenSector(k).fs = k /\ HiddenSector(k).hidden = TRUE /\ HiddenSector(k).at = -1
    BY <1>2
  <2>2. Sector(k).fs = k /\ Sector(k).hidden = FALSE /\ Sector(k).at = -1
    BY <1>2
  <2>3. [HiddenSector(k) EXCEPT !.hidden = ~@] = [fs |-> k, hidden |-> FALSE, at |-> -1]
    BY <1>12, <2>1, CellUpdate
  <2>4. [Sector(k) EXCEPT !.hidden = ~@] = [fs |-> k, hidden |-> TRUE, at |-> -1]
    BY <1>12, <2>2, CellUpdate
  <2> QED BY <1>2, <1>4, <1>5, <2>3, <2>4
<1>9. EncryptUnit(Sector(k), k + Offset) = Cipher(k)
  <2>1. Sector(k).fs = k /\ Sector(k).hidden = FALSE /\ k + Offset \in Int
    BY <1>1, <1>2
  <2>2. [Sector(k) EXCEPT !.at = k + Offset] = [fs |-> k, hidden |-> FALSE, at |-> k + Offset]
    BY <1>12, <2>1, CellUpdate
  <2> QED BY <1>2, <1>6, <2>2
<1>10. DecryptUnit(Cipher(k), k + Offset) = Sector(k)
  <2>1. Cipher(k).fs = k /\ Cipher(k).hidden = FALSE /\ -1 \in Int
    BY <1>2
  <2>2. [Cipher(k) EXCEPT !.at = -1] = [fs |-> k, hidden |-> FALSE, at |-> -1]
    BY <1>12, <2>1, CellUpdate
  <2> QED BY <1>2, <1>7, <2>2
<1>11. Sector(k).at = Clear
  BY <1>2 DEF Clear
<1> QED BY <1>3, <1>8, <1>9, <1>10, <1>11

LEMMA FoundForms ==
    ASSUME NEW d, NEW a, NEW k \in Fs
    PROVE  /\ a <= k + Offset => PlaceOf(Here(a), k) = k + Offset /\ Expected(Here(a), k) = Cipher(k)
           /\ ~(a <= k + Offset) => /\ PlaceOf(Here(a), k) = k
                                    /\ k < Conceal => Expected(Here(a), k) = HiddenSector(k)
                                    /\ ~(k < Conceal) => Expected(Here(a), k) = Sector(k)
           /\ PlaceOf(NoBackup, k) = k /\ Expected(NoBackup, k) = Sector(k)
BY DEF PlaceOf, Expected, Here, NoBackup

LEMMA FsPositions ==
    ASSUME NEW k \in Fs
    PROVE  /\ k \in Nat /\ k < FsSize /\ k \in Positions /\ k + Offset \in Positions
           /\ ~(End <= k + Offset) /\ Offset <= k + Offset
BY Sizes DEF Fs, Positions

(* At the ends of the move: nothing is encrypted, or everything.              *)
LEMMA FoundAtEnds ==
    ASSUME NEW d, NEW k \in Fs
    PROVE  /\ Found(d, Here(End), k) <=> d[k] = (IF k < Conceal THEN HiddenSector(k) ELSE Sector(k))
           /\ Found(d, Here(Offset), k) <=> d[k + Offset] = Cipher(k)
           /\ Found(d, NoBackup, k) <=> d[k] = Sector(k)
BY FoundForms, FsPositions DEF Found

LEMMA HereOf ==
    ASSUME TypeOK
    PROVE  /\ backup.present => backup = Here(backup.start)
           /\ ~backup.present => \A k \in Fs : PlaceOf(backup, k) = k /\ Expected(backup, k) = Sector(k)
           /\ UpdateHeader /\ backup.present => backup' = Here(area)
<1>1. backup \in [present : BOOLEAN, start : Offset .. End]
  BY DEF TypeOK
<1>2. backup.present => backup = Here(backup.start)
  BY <1>1 DEF Here
<1>3. UpdateHeader /\ backup.present => backup' = Here(area)
  BY <1>1 DEF UpdateHeader, Here
<1> QED BY <1>2, <1>3 DEF PlaceOf, Expected

----------------------------------------------------------------------------
(* A chunk *)

(* The chunk's target, and the sectors that move, between the two bounds.     *)
LEMMA ChunkShape ==
    ASSUME TypeOK, session # "none", 0 < Remaining
    PROVE  /\ area \in Int /\ NextArea \in Int /\ First \in Int /\ ChunkSize \in Nat /\ 0 < ChunkSize
           /\ Target = First .. First + ChunkSize - 1 /\ 0 <= First
           /\ session = "encrypt" => /\ First = NextArea /\ First + ChunkSize = area /\ Offset <= First
                                     /\ Moving = {k \in Fs : NextArea <= k + Offset /\ k + Offset < area}
           /\ session = "decrypt" => /\ First = area - Offset /\ NextArea = area + ChunkSize
                                     /\ Moving = {k \in Fs : area <= k + Offset /\ k + Offset < NextArea}
           /\ session \in {"encrypt", "decrypt"}
<1>1. /\ area \in Int /\ Offset <= area /\ area <= End /\ session \in {"encrypt", "decrypt"}
      /\ ChunkSize \in Nat /\ 0 < ChunkSize /\ First \in Int /\ 0 <= First /\ First + ChunkSize <= End
      /\ session = "encrypt" => Offset <= First /\ First = area - ChunkSize
      /\ session = "decrypt" => First = area - Offset /\ area + ChunkSize <= End
  BY ChunkBounds, Sizes DEF TypeOK
<1>2. Target = First .. First + ChunkSize - 1
  BY DEF Target
<1>3. CASE session = "encrypt"
  <2>1. First = NextArea /\ First + ChunkSize = area
    BY <1>1, <1>3 DEF NextArea
  <2>2. \A k \in Fs : k + Offset \in Target <=> NextArea <= k + Offset /\ k + Offset < area
    BY <1>1, <1>2, <2>1, FsPositions, Sizes
  <2>3. Moving = {k \in Fs : NextArea <= k + Offset /\ k + Offset < area}
    BY <1>3, <2>2 DEF Moving
  <2> QED BY <1>1, <1>2, <1>3, <2>1, <2>3
<1>4. CASE session = "decrypt"
  <2>1. First = area - Offset /\ NextArea = area + ChunkSize
    BY <1>1, <1>4 DEF NextArea
  <2>2. \A k : k \in Target <=> k \in Fs /\ area <= k + Offset /\ k + Offset < NextArea
    BY <1>1, <1>2, <1>4, <2>1, Sizes DEF Fs
  <2>3. Moving = {k \in Fs : area <= k + Offset /\ k + Offset < NextArea}
    BY <1>4, <2>2 DEF Moving
  <2> QED BY <1>1, <1>2, <1>4, <2>1, <2>3
<1> QED BY <1>1, <1>3, <1>4

(* A sector that does not move lies outside the target, before and after.     *)
LEMMA Untouched ==
    ASSUME TypeOK, session # "none", 0 < Remaining, NEW k \in Fs, k \notin Moving
    PROVE  /\ PlaceOf(Here(area), k) \notin Target /\ PlaceOf(Here(area), k) \in Positions
           /\ PlaceOf(Here(NextArea), k) = PlaceOf(Here(area), k)
           /\ Expected(Here(NextArea), k) = Expected(Here(area), k)
<1>1. /\ area \in Int /\ NextArea \in Int /\ First \in Int /\ ChunkSize \in Nat /\ 0 < ChunkSize
      /\ Target = First .. First + ChunkSize - 1
      /\ session = "encrypt" => First = NextArea /\ First + ChunkSize = area
      /\ session = "decrypt" => First = area - Offset /\ NextArea = area + ChunkSize
      /\ session \in {"encrypt", "decrypt"} /\ k \in Nat /\ Offset \in Nat
  BY ChunkShape, FsPositions, Sizes
<1>2. ~(NextArea <= k + Offset /\ k + Offset < area) /\ ~(area <= k + Offset /\ k + Offset < NextArea)
  BY <1>1, ChunkShape
<1>3. area <= k + Offset <=> NextArea <= k + Offset
  BY <1>1, <1>2
<1>4. CASE area <= k + Offset
  <2>1. k + Offset \notin Target
    BY <1>1, <1>2, <1>4
  <2> QED BY <1>3, <1>4, <2>1, FoundForms, FsPositions
<1>5. CASE ~(area <= k + Offset)
  <2>1. k \notin Target
    BY <1>1, <1>2, <1>3, <1>5
  <2>2. k < Conceal \/ ~(k < Conceal)
    OBVIOUS
  <2> QED BY <1>3, <1>5, <2>1, <2>2, FoundForms, FsPositions
<1> QED BY <1>4, <1>5

(* A sector that moves lies in the target when it has been written.           *)
LEMMA Arriving ==
    ASSUME TypeOK, session # "none", 0 < Remaining, NEW k \in Moving
    PROVE  PlaceOf(Here(NextArea), k) \in Target /\ k \in Fs
<1>1. /\ area \in Int /\ NextArea \in Int /\ First \in Int /\ ChunkSize \in Nat
      /\ Target = First .. First + ChunkSize - 1 /\ k \in Fs /\ session \in {"encrypt", "decrypt"}
      /\ session = "encrypt" => First = NextArea /\ First + ChunkSize = area
                                /\ NextArea <= k + Offset /\ k + Offset < area
      /\ session = "decrypt" => First = area - Offset /\ NextArea = area + ChunkSize
                                /\ area <= k + Offset /\ k + Offset < NextArea
  BY ChunkShape
<1>2. k \in Nat /\ Offset \in Nat
  BY <1>1, FsPositions, Sizes
<1>3. CASE session = "encrypt"
  BY <1>1, <1>2, <1>3, FoundForms
<1>4. CASE session = "decrypt"
  <2>1. PlaceOf(Here(NextArea), k) = k
    BY <1>1, <1>2, <1>4, FoundForms
  <2> QED BY <1>1, <1>2, <1>4, <2>1
<1> QED BY <1>1, <1>3, <1>4

(* The transformation, whichever the direction, puts each sector that it      *)
(* finds into the form in which it will be looked for.                        *)
LEMMA TransformedRight ==
    ASSUME AlignedSize, TypeOK, Bounds, session # "none", 0 < Remaining,
           NEW d, Transformed(d), UNCHANGED <<area, session>>,
           NEW k \in Moving, Found(d, Here(area), k)
    PROVE  Moved(k)'
<1>1. /\ area \in Int /\ NextArea \in Int /\ First \in Int /\ ChunkSize \in Nat /\ 0 < ChunkSize
      /\ Target = First .. First + ChunkSize - 1 /\ k \in Fs /\ session \in {"encrypt", "decrypt"}
      /\ session = "encrypt" => First = NextArea /\ First + ChunkSize = area
                                /\ NextArea <= k + Offset /\ k + Offset < area
      /\ session = "decrypt" => First = area - Offset /\ NextArea = area + ChunkSize
                                /\ area <= k + Offset /\ k + Offset < NextArea
  BY ChunkShape
<1>2. k \in Nat /\ Offset \in Nat /\ k + Offset - Offset = k /\ Conceal \in Nat
  BY <1>1, FsPositions, Sizes
<1>3. PlaceOf(Here(NextArea), k) \in Target
  BY Arriving
<1>4. buf'[PlaceOf(Here(NextArea), k)] = Expected(Here(NextArea), k) => Moved(k)'
  <2>1. NextArea' = NextArea
    BY DEF NextArea, ChunkSize, Remaining
  <2> QED BY <2>1 DEF Moved, PlaceOf, Expected, Here
<1>5. CASE session = "encrypt"
  <2>1. buf' = Encrypted(d)
    BY <1>5 DEF Transformed
  <2>2. PlaceOf(Here(NextArea), k) = k + Offset /\ Expected(Here(NextArea), k) = Cipher(k)
    BY <1>1, <1>5, FoundForms
  <2>3. d[k] = IF k < Conceal THEN HiddenSector(k) ELSE Sector(k)
    BY <1>1, <1>2, <1>5, FoundForms DEF Found
  <2>4. (IF k < Conceal THEN Toggle(d[k]) ELSE d[k]) = Sector(k)
    BY <1>1, <2>3, Forms
  <2>5. buf'[k + Offset] = EncryptUnit(IF k < Conceal THEN Toggle(d[k]) ELSE d[k], k + Offset)
    BY <1>2, <1>3, <2>1, <2>2 DEF Encrypted
  <2>6. buf'[k + Offset] = Cipher(k)
    BY <1>1, <2>4, <2>5, Forms
  <2> QED BY <1>4, <2>2, <2>6
<1>6. CASE session = "decrypt"
  <2>1. buf' = Decrypted(d)
    BY <1>6 DEF Transformed
  <2>2. ~(NextArea <= k + Offset)
    BY <1>1, <1>2, <1>6
  <2>3. PlaceOf(Here(NextArea), k) = k
        /\ Expected(Here(NextArea), k) = IF k < Conceal THEN HiddenSector(k) ELSE Sector(k)
    BY <1>1, <2>2, FoundForms
  <2>4. d[k + Offset] = Cipher(k)
    BY <1>1, <1>2, <1>6, FoundForms DEF Found
  <2>5. DecryptUnit(d[k + Offset], k + Offset) = Sector(k)
    BY <1>1, <2>4, Forms
  <2>6. buf'[k] = IF InitialPortion(k) THEN Toggle(Sector(k)) ELSE Sector(k)
    BY <1>3, <2>1, <2>3, <2>5 DEF Decrypted
  <2>7. InitialPortion(k) <=> k < Conceal
    <3>1. area = Offset \/ Conceal <= area - Offset
      BY AlignedArea DEF Bounds, TypeOK, Aligned
    <3> QED BY <1>1, <1>2, <1>6, <3>1, Sizes DEF InitialPortion
  <2>8. buf'[k] = IF k < Conceal THEN HiddenSector(k) ELSE Sector(k)
    BY <1>1, <2>6, <2>7, Forms
  <2> QED BY <1>4, <2>3, <2>8
<1> QED BY <1>1, <1>5, <1>6

(* A write that has reached any part of the target leaves the sectors alone   *)
(* that do not move.                                                          *)
LEMMA OverwriteAt ==
    ASSUME NEW S, NEW new, new \in [S -> Cells], disk' = Overwrite(new), NEW p \in Positions
    PROVE  disk'[p] = IF p \in S THEN new[p] ELSE disk[p]
BY DEF Overwrite

LEMMA ConcealAt ==
    ASSUME TypeOK, disk' = ConcealNTFS, NEW p \in Positions
    PROVE  disk'[p] = IF p < Conceal THEN Toggle(disk[p]) ELSE disk[p]
<1>1. p \in 0 .. Conceal - 1 <=> p < Conceal
  BY Sizes DEF Positions
<1> QED BY <1>1 DEF ConcealNTFS, Overwrite

LEMMA StillFound ==
    ASSUME TypeOK, session # "none", 0 < Remaining, NEW S \in SUBSET Target,
           NEW new, new \in [S -> Cells], disk' = Overwrite(new),
           NEW k \in Fs \ Moving, Found(disk, Here(area), k)
    PROVE  Found(disk', Here(area), k) /\ Found(disk', Here(NextArea), k)
<1>1. /\ PlaceOf(Here(area), k) \notin S /\ PlaceOf(Here(area), k) \in Positions
      /\ PlaceOf(Here(NextArea), k) = PlaceOf(Here(area), k)
      /\ Expected(Here(NextArea), k) = Expected(Here(area), k)
  BY Untouched
<1>2. disk'[PlaceOf(Here(area), k)] = disk[PlaceOf(Here(area), k)]
  BY <1>1, OverwriteAt
<1> QED BY <1>1, <1>2 DEF Found

(* What a write that was interrupted is, written as one overwrite.            *)
LEMMA InterruptedWrite ==
    ASSUME TypeOK, Stepping, pc \in {"wipe", "write"}, NEW n \in 0 .. ChunkSize, Interrupted(n)
    PROVE  /\ primary' = (primary /\ (First > 0 \/ n = 0))
           /\ \E S \in SUBSET Target : \E new \in [S -> Cells] :
                  /\ disk' = Overwrite(new) /\ (n = 0 => S = {})
                  /\ \A p \in S : new[p] = IF pc = "wipe" THEN Junk ELSE buf[p]
<1> DEFINE S == First .. First + n - 1
           new == [p \in S |-> IF pc = "wipe" THEN Junk ELSE buf[p]]
<1>1. disk' = Overwrite(new) /\ primary' = (primary /\ (First > 0 \/ n = 0))
  BY DEF Interrupted
<1>2. S \in SUBSET Target /\ (n = 0 => S = {})
  <2>1. First \in Int /\ ChunkSize \in Nat
    BY ChunkBounds DEF TypeOK, Stepping
  <2> QED BY <2>1 DEF Target
<1>3. buf \in [Target -> Cells]
  BY DEF TypeOK
<1>4. new \in [S -> Cells]
  <2> HIDE DEF S
  <2> QED BY <1>2, <1>3, CellTypes
<1>5. \A p \in S : new[p] = IF pc = "wipe" THEN Junk ELSE buf[p]
  OBVIOUS
<1> HIDE DEF S, new
<1> QED BY <1>1, <1>2, <1>4, <1>5

(* A chunk, or a part of it, on the disk: the first sectors stay concealed.   *)
LEMMA StillHidden ==
    ASSUME TypeOK, Stepping, DataInv, pc \in {"wipe", "write"}, lost = {}, Hidden,
           NEW S \in SUBSET Target, NEW new, new \in [S -> Cells], disk' = Overwrite(new),
           \A p \in S : new[p] = Junk \/ (pc = "write" /\ new[p] = buf[p])
    PROVE  Hidden'
<1> SUFFICES ASSUME NEW p \in 0 .. Conceal - 1 PROVE disk'[p] # Sector(p)
  BY DEF Hidden
<1>1. p \in Fs /\ p \in Positions /\ p \in Int /\ p < Conceal /\ p < Offset
  BY Sizes DEF Fs, Positions
<1>2. disk'[p] = IF p \in S THEN new[p] ELSE disk[p]
  BY <1>1, OverwriteAt
<1>3. CASE p \in S /\ new[p] # Junk
  <2>1. /\ session # "none" /\ 0 < Remaining /\ pc = "write" /\ new[p] = buf[p] /\ p \in Target
    BY <1>3 DEF TypeOK, Stepping
  <2>2. session = "decrypt"
    <3>1. session = "encrypt" => Offset <= First /\ First \in Int /\ ChunkSize \in Nat
      BY <2>1, ChunkBounds
    <3>2. session = "encrypt" => FALSE
      BY <1>1, <2>1, <3>1, Sizes DEF Target
    <3> QED BY <2>1, <3>2 DEF TypeOK
  <2>3. p \in Moving
    BY <2>1, <2>2 DEF Moving
  <2>4. Moved(p)
    BY <1>1, <2>1, <2>3 DEF DataInv, InBuffer
  <2>5. ~(NextArea <= p + Offset)
    <3>1. /\ p + Offset < NextArea /\ NextArea \in Int
      BY <2>1, <2>2, <2>3, ChunkShape
    <3> QED BY <1>1, <3>1, Sizes
  <2>6. buf[p] = HiddenSector(p)
    BY <1>1, <2>4, <2>5, FoundForms DEF Moved
  <2> QED BY <1>1, <1>2, <1>3, <2>1, <2>6, Forms
<1>4. CASE p \in S /\ new[p] = Junk
  BY <1>1, <1>2, <1>4, Forms
<1>5. CASE p \notin S
  BY <1>2, <1>5 DEF Hidden
<1> QED BY <1>3, <1>4, <1>5

----------------------------------------------------------------------------
(* The invariant holds at first and is kept by every action *)

LEMMA InitInv == Init => Inv
<1> SUFFICES ASSUME Init PROVE Inv
  OBVIOUS
<1>1. /\ disk = [p \in Positions |-> IF p \in Fs THEN Sector(p) ELSE Junk]
      /\ backup = NoBackup /\ primary = FALSE /\ pc = "idle" /\ area = End /\ lost = {}
  BY DEF Init
<1>2. \A k \in Fs : disk[k] = Sector(k)
  BY <1>1, FsPositions
<1>3. Placed(backup)
  BY <1>1, <1>2, FoundAtEnds DEF Placed
<1>4. Bounds
  BY <1>1, EndsReachable DEF Bounds, NoBackup
<1>5. ConcealInv /\ PrimaryInv
  BY <1>1 DEF ConcealInv, PrimaryInv, NoBackup
<1>6. DataInv
  BY <1>1, <1>3 DEF DataInv
<1> QED BY <1>4, <1>5, <1>6, InitType DEF Inv

(* A failure and a crash are remembered.                                      *)
LEMMA NotClean ==
    ASSUME TypeOK
    PROVE  (Fault => ~Clean') /\ (crashes' = crashes + 1 => ~Clean')
BY DEF TypeOK, Fault, Clean

(* The end of a run: its history is settled when it is forgotten.             *)
LEMMA ForgetData ==
    ASSUME Forget, Clean' => lost = {} /\ \A k \in Fs : Found(disk', backup', k)
    PROVE  DataInv' /\ lost \subseteq lost'
<1>1. pc' = "idle" /\ lost' = lost \cup {k \in Fs : ~Found(disk', backup', k)}
  BY DEF Forget
<1>2. \A k \in Fs \ lost' : Found(disk', backup', k)
  BY <1>1
<1>3. Placed(backup)'
  BY <1>2 DEF Placed, Fs
<1>4. Clean' => lost' = {}
  BY <1>1
<1> QED BY <1>1, <1>3, <1>4 DEF DataInv

(* What is left behind unconcealed with a backup header counts as lost.       *)
LEMMA ForgetHidden ==
    ASSUME Forget, disk'[0] = Sector(0), backup' = Here(End)
    PROVE  lost' # {}
<1>1. 0 \in Fs /\ 0 < Conceal
  BY Sizes DEF Fs
<1>2. ~Found(disk', backup', 0)
  BY <1>1, FoundAtEnds, Forms
<1> QED BY <1>1, <1>2 DEF Forget

(* What can be recognised is whole.                                           *)
LEMMA RecognisedWhole ==
    ASSUME Inv, Recognised, lost = {}
    PROVE  \A k \in Fs : disk[k] = Sector(k)
<1>1. 0 \in 0 .. Conceal - 1
  BY Sizes
<1>2. CASE pc \in {"conceal", "erase"}
  BY <1>2 DEF Inv, DataInv, InClear
<1>3. CASE pc \notin {"conceal", "erase"}
  <2>1. ~backup.present
    BY <1>1, <1>3 DEF Inv, ConcealInv, Hidden, Recognised
  <2>2. pc = "idle"
    BY <2>1 DEF Inv, TypeOK
  <2>3. Placed(backup)
    BY <2>2 DEF Inv, DataInv
  <2> QED BY <2>1, <2>3, HereOf DEF Inv, Placed, Found
<1> QED BY <1>2, <1>3

LEMMA BeginStep ==
    ASSUME Inv, NEW w \in BOOLEAN, Begin(w)
    PROVE  DataInv' /\ ConcealInv' /\ PrimaryInv'
<1>1. /\ pc = "idle" /\ Recognised /\ pc' = "conceal" /\ UNCHANGED <<primary, area, faults, crashes>>
      /\ disk' = [p \in Positions |-> IF disk[p].at = Clear THEN disk[p] ELSE Junk]
      /\ lost' = lost \cup {k \in Fs : disk'[k] # Sector(k)}
  BY DEF Begin
<1>2. backup' = Here(End)
  BY DEF Begin, Here
<1>3. InClear'
  BY <1>1 DEF InClear, Fs
<1>4. Clean' => lost' = {}
  <2> HAVE Clean'
  <2>1. lost = {}
    BY <1>1 DEF Inv, DataInv, Clean
  <2>2. \A k \in Fs : disk'[k] = Sector(k)
    BY <1>1, <2>1, RecognisedWhole, Forms, FsPositions
  <2> QED BY <1>1, <2>1, <2>2
<1>5. DataInv'
  BY <1>1, <1>2, <1>3, <1>4 DEF DataInv, Here, End
<1>6. ~primary
  <2>1. 0 \in Fs /\ 0 < Conceal
    BY Sizes DEF Fs
  <2>2. disk[0] = Sector(0)
    BY <1>1, <2>1, Sizes DEF Recognised
  <2> QED BY <2>1, <2>2, Forms DEF Inv, PrimaryInv
<1> QED BY <1>1, <1>5, <1>6 DEF ConcealInv, PrimaryInv

LEMMA BeginConcealStep ==
    ASSUME Inv, BeginConceal
    PROVE  DataInv' /\ ConcealInv' /\ PrimaryInv'
<1>1. /\ pc = "conceal" /\ disk' = ConcealNTFS /\ pc' = "open"
      /\ UNCHANGED <<backup, primary, area, lost, faults, crashes>>
  BY DEF BeginConceal
<1>2. backup = Here(End) /\ InClear /\ (Clean => lost = {})
  BY <1>1 DEF Inv, DataInv
<1>3. \A p \in Positions : disk'[p] = IF p < Conceal THEN Toggle(disk[p]) ELSE disk[p]
  BY <1>1, ConcealAt DEF Inv
<1>4. \A k \in Fs \ lost : Found(disk', Here(End), k)
  <2> TAKE k \in Fs \ lost
  <2>1. disk[k] = Sector(k)
    BY <1>2 DEF InClear
  <2> QED BY <1>3, <2>1, FoundAtEnds, Forms, FsPositions
<1>5. Placed(backup)'
  BY <1>1, <1>2, <1>4 DEF Placed, Fs
<1>6. DataInv'
  BY <1>1, <1>2, <1>5 DEF DataInv, Clean
<1>7. lost = {} => Hidden'
  <2> SUFFICES ASSUME lost = {}, NEW p \in 0 .. Conceal - 1 PROVE disk'[p] # Sector(p)
    BY DEF Hidden
  <2>1. p \in Fs /\ p < Conceal
    BY Sizes DEF Fs
  <2> QED BY <1>2, <1>3, <2>1, Forms, FsPositions DEF InClear
<1>8. ~primary
  BY <1>2, Sizes DEF Inv, PrimaryInv, Here
<1> QED BY <1>1, <1>6, <1>7, <1>8 DEF ConcealInv, PrimaryInv

(* The disk and the backup header stay as they are, and the run ends.         *)
LEMMA GivenUp ==
    ASSUME Inv, Forget, ~Clean', UNCHANGED <<disk, backup, primary>>,
           pc \in {"conceal", "erase"} => InClear /\ backup = Here(End),
           pc = "idle" \/ backup.present
    PROVE  DataInv' /\ ConcealInv' /\ PrimaryInv'
<1>1. DataInv' /\ lost \subseteq lost' /\ pc' = "idle"
  BY ForgetData DEF Forget
<1>2. ConcealInv'
  <2> SUFFICES ASSUME lost' = {}, backup'.present PROVE Hidden'
    BY DEF ConcealInv
  <2>1. lost = {}
    BY <1>1
  <2>2. CASE pc \in {"conceal", "erase"}
    <3>1. 0 \in Fs
      BY Sizes DEF Fs
    <3>2. disk'[0] = Sector(0) /\ backup' = Here(End)
      BY <2>1, <2>2, <3>1 DEF InClear
    <3> QED BY <3>2, ForgetHidden
  <2>3. CASE pc \notin {"conceal", "erase"}
    <3>1. Hidden
      BY <2>1, <2>3 DEF Inv, ConcealInv
    <3> QED BY <3>1 DEF Hidden
  <2> QED BY <2>2, <2>3
<1>3. PrimaryInv'
  <2>1. \A k \in Fs \ lost' : k \in Fs \ lost
    BY <1>1
  <2> QED BY <1>1, <2>1 DEF Inv, PrimaryInv, Here, Fs
<1> QED BY <1>1, <1>2, <1>3

LEMMA BeginFailsStep ==
    ASSUME Inv, BeginFails
    PROVE  DataInv' /\ ConcealInv' /\ PrimaryInv'
<1>1. pc = "conceal" /\ Fault /\ Forget /\ UNCHANGED <<disk, backup, primary>>
  BY DEF BeginFails
<1>2. InClear /\ backup = Here(End)
  BY <1>1 DEF Inv, DataInv
<1> QED BY <1>1, <1>2, NotClean, GivenUp DEF Inv, Here

LEMMA ResumeStep ==
    ASSUME Inv, NEW mode \in {"encrypt", "decrypt"}, NEW w \in BOOLEAN, Resume(mode, w)
    PROVE  DataInv' /\ ConcealInv' /\ PrimaryInv'
<1>1. pc = "idle" /\ pc' = "open" /\ UNCHANGED <<disk, backup, primary, area, lost, faults, crashes>>
  BY DEF Resume
<1>2. Placed(backup) /\ (Clean => lost = {})
  BY <1>1 DEF Inv, DataInv
<1>3. Placed(backup)'
  BY <1>1, <1>2 DEF Placed, Fs
<1>4. DataInv'
  BY <1>1, <1>2, <1>3 DEF DataInv, Clean
<1>5. ConcealInv' /\ PrimaryInv'
  BY <1>1 DEF Inv, ConcealInv, PrimaryInv, Hidden, Here, Fs
<1> QED BY <1>4, <1>5

LEMMA OpenStep ==
    ASSUME Inv, Open
    PROVE  DataInv' /\ ConcealInv' /\ PrimaryInv'
<1>1. pc = "open" /\ UNCHANGED <<disk, backup, primary, session, crashes>>
  BY DEF Open
<1>2. CASE Fault /\ Forget
  BY <1>1, <1>2, NotClean, GivenUp DEF Inv, TypeOK
<1>3. CASE /\ area' = backup.start
           /\ pc' = IF area' = (IF session = "encrypt" THEN Offset ELSE End) THEN "last" ELSE "chunk"
           /\ UNCHANGED <<buf, wipe, since, dirty, cancel, lost, faults>>
  <2>1. backup = Here(area') /\ Placed(backup) /\ (Clean => lost = {})
    BY <1>1, <1>3, HereOf DEF Inv, DataInv, TypeOK
  <2>2. Placed(Here(area))'
    BY <1>1, <1>3, <2>1 DEF Placed, Fs, Here
  <2>3. pc' \in {"last", "chunk"} /\ (pc' = "last" => Remaining' = 0)
    <3>1. pc' = "last" => area' = (IF session = "encrypt" THEN Offset ELSE End)
      BY <1>3
    <3>2. Remaining' = IF session = "encrypt" THEN area' - Offset ELSE End - area'
      BY <1>1 DEF Remaining, End
    <3>3. Offset - Offset = 0 /\ End - End = 0
      BY Sizes
    <3> QED BY <1>3, <3>1, <3>2, <3>3
  <2>4. DataInv'
    BY <1>1, <1>3, <2>1, <2>2, <2>3 DEF DataInv, Clean
  <2>5. ConcealInv'
    BY <1>1, <1>3 DEF Inv, ConcealInv, Hidden
  <2>6. PrimaryInv'
    BY <1>1, <1>3, <2>1, <2>3 DEF Inv, PrimaryInv, Here, Fs
  <2> QED BY <2>4, <2>5, <2>6
<1> QED BY <1>2, <1>3 DEF Open

(* Steps that change nothing that the invariant is about.                     *)
LEMMA Kept ==
    ASSUME Inv,
           UNCHANGED <<disk, backup, primary, pc, area, buf, lost, faults, crashes>>,
           session' = session \/ pc = "idle"
    PROVE  DataInv' /\ ConcealInv' /\ PrimaryInv'
<1>1. ConcealInv' /\ PrimaryInv'
  BY DEF Inv, ConcealInv, PrimaryInv, Hidden, Here, Fs
<1>2. CASE session' = session
  <2>1. Remaining' = Remaining /\ InBuffer' = InBuffer
    BY <1>2 DEF InBuffer, Moving, Moved, NextArea, Target, First, ChunkSize, Remaining, Here, PlaceOf, Expected, Found, Fs, End
  <2>2. Placed(backup)' = Placed(backup) /\ Placed(Here(area))' = Placed(Here(area)) /\ InClear' = InClear
    BY DEF Placed, Here, InClear, Fs
  <2> QED BY <1>1, <2>1, <2>2 DEF Inv, DataInv, Clean, Here, End
<1>3. CASE pc = "idle"
  <2>1. Placed(backup)' = Placed(backup)
    BY DEF Placed, Fs
  <2> QED BY <1>1, <1>3, <2>1 DEF Inv, DataInv, Clean
<1> QED BY <1>2, <1>3

(* A primary header means that nothing is left to encrypt.                    *)
LEMMA NoPrimary ==
    ASSUME Inv, primary, pc \in {"chunk", "wipe", "write", "undo"}
    PROVE  session = "decrypt" /\ First = 0 /\ 0 \in Target /\ pc \in {"chunk", "write"}
<1>1. area = Offset /\ 0 < Remaining /\ session \in {"encrypt", "decrypt"}
  BY DEF Inv, PrimaryInv, TypeOK, Stepping
<1>2. session = "decrypt"
  BY <1>1, Sizes DEF Remaining
<1>3. First = 0 /\ 0 \in Target
  BY <1>1, <1>2, ChunkShape, Sizes DEF Inv
<1> QED BY <1>2, <1>3 DEF Inv, Stepping

(* A chunk has come into RAM.                                                 *)
LEMMA ReadStep ==
    ASSUME AlignedSize, Inv, pc = "chunk", NEW d, Transformed(d),
           UNCHANGED <<backup, primary, session, area, crashes>>,
           lost \subseteq lost', lost' \subseteq Fs, Clean' => Clean /\ lost' = lost,
           \A k \in Fs \ lost' : Found(d, Here(area), k) /\ Found(disk', Here(area), k),
           disk' = disk \/ (session = "encrypt" /\ lost' # {})
    PROVE  DataInv' /\ ConcealInv' /\ PrimaryInv'
<1>1. pc' \in {"wipe", "write"}
  BY DEF Transformed
<1>2. session # "none" /\ 0 < Remaining
  BY DEF Inv, TypeOK, Stepping
<1>3. Moving' = Moving
  BY DEF Moving, Target, First, ChunkSize, Remaining, End, Fs
<1>4. InBuffer'
  <2>1. ASSUME NEW k \in Fs \ lost' PROVE IF k \in Moving THEN Moved(k)' ELSE Found(disk', Here(area), k)
    BY <1>2, <2>1, TransformedRight DEF Inv
  <2> QED BY <1>3, <2>1 DEF InBuffer, Fs, Found, Here, PlaceOf, Expected
<1>5. DataInv'
  BY <1>1, <1>4 DEF Inv, DataInv
<1>6. ConcealInv'
  BY <1>1 DEF Inv, ConcealInv, Hidden
<1>7. PrimaryInv'
  <2> SUFFICES ASSUME primary PROVE PrimaryInv'
    BY DEF PrimaryInv
  <2>1. session = "decrypt" /\ disk' = disk
    BY NoPrimary
  <2>2. \A k \in Fs \ lost' : k \in Fs \ lost
    OBVIOUS
  <2> QED BY <1>1, <2>1, <2>2 DEF Inv, PrimaryInv, Here, Fs
<1> QED BY <1>5, <1>6, <1>7

LEMMA ReadChunkStep ==
    ASSUME AlignedSize, Inv, ReadChunk
    PROVE  DataInv' /\ ConcealInv' /\ PrimaryInv'
<1>1. pc = "chunk" /\ Transformed(disk) /\ UNCHANGED <<disk, backup, primary, session, area, lost, faults, crashes>>
  BY DEF ReadChunk
<1>2. \A k \in Fs \ lost' : Found(disk, Here(area), k) /\ Found(disk', Here(area), k)
  BY <1>1 DEF Inv, DataInv, Placed
<1>3. lost' \subseteq Fs /\ (Clean' => Clean)
  BY <1>1 DEF Inv, TypeOK, Clean
<1> QED BY <1>1, <1>2, <1>3, ReadStep

LEMMA ReadFailsStep ==
    ASSUME AlignedSize, Inv, ReadFails
    PROVE  DataInv' /\ ConcealInv' /\ PrimaryInv'
<1>1. pc = "chunk" /\ Fault /\ UNCHANGED <<backup, primary, session, area, crashes>>
  BY DEF ReadFails
<1>2. ~Clean' /\ session # "none" /\ 0 < Remaining /\ Placed(Here(area)) /\ session \in {"encrypt", "decrypt"}
  BY <1>1, NotClean DEF Inv, TypeOK, Stepping, DataInv
<1>3. CASE pc' = "close" /\ UNCHANGED <<disk, buf, lost>>
  <2>1. DataInv'
    BY <1>2, <1>3 DEF DataInv
  <2>2. ConcealInv' /\ PrimaryInv'
    BY <1>1, <1>3 DEF Inv, ConcealInv, PrimaryInv, Hidden, Here, Fs
  <2> QED BY <2>1, <2>2
<1>4. ASSUME NEW q \in Source, Transformed([disk EXCEPT ![q] = Junk]),
             lost' = lost \cup {IF session = "encrypt" THEN q ELSE q - Offset},
             disk' = IF session = "encrypt" THEN [disk EXCEPT ![q] = Junk] ELSE disk
      PROVE  DataInv' /\ ConcealInv' /\ PrimaryInv'
  <2> DEFINE d == [disk EXCEPT ![q] = Junk]
             bad == IF session = "encrypt" THEN q ELSE q - Offset
  <2>1. bad \in Fs
    BY <1>2, SourceBounds DEF Inv
  <2>2. \A k \in Fs : k # bad => PlaceOf(Here(area), k) # q
    <3> SUFFICES ASSUME NEW k \in Fs, k # bad PROVE PlaceOf(Here(area), k) # q
      OBVIOUS
    <3>1. /\ area \in Int /\ First \in Int /\ ChunkSize \in Nat /\ k \in Nat /\ Offset \in Nat
          /\ session = "encrypt" => First + ChunkSize = area
      BY <1>2, ChunkShape, FsPositions, Sizes DEF Inv
    <3>2. CASE session = "encrypt"
      <4>1. q \in First - Offset .. First - Offset + ChunkSize - 1
        BY <3>2 DEF Source
      <4>2. q < area
        BY <3>1, <3>2, <4>1
      <4> QED BY <3>1, <3>2, <4>2, FoundForms
    <3>3. CASE session = "decrypt"
      <4>1. q \in area .. area + ChunkSize - 1
        BY <3>3 DEF Source
      <4>2. area <= q /\ q # k + Offset
        BY <3>1, <3>3, <4>1
      <4> QED BY <3>1, <4>2, FoundForms
    <3> QED BY <1>2, <3>2, <3>3
  <2>3. \A k \in Fs \ lost' : Found(disk, Here(area), k) /\ k # bad
    BY <1>2, <1>4 DEF Placed
  <2>4. \A k \in Fs \ lost' : Found(d, Here(area), k)
    BY <2>2, <2>3 DEF Found, Inv, TypeOK
  <2>5. \A k \in Fs \ lost' : Found(disk', Here(area), k)
    BY <1>4, <2>3, <2>4 DEF Found
  <2>6. lost \subseteq lost' /\ lost' \subseteq Fs /\ lost' # {}
    BY <1>4, <2>1 DEF Inv, TypeOK
  <2>7. disk' = disk \/ session = "encrypt"
    BY <1>4
  <2> HIDE DEF d, bad
  <2>8. Transformed(d)
    BY <1>4 DEF d
  <2> QED BY <1>1, <1>2, <2>4, <2>5, <2>6, <2>7, <2>8, ReadStep
<1> QED BY <1>3, <1>4 DEF ReadFails

LEMMA WipeBufferStep ==
    ASSUME Inv, WipeBuffer
    PROVE  DataInv' /\ ConcealInv' /\ PrimaryInv'
<1>1. /\ pc = "wipe" /\ disk' = Overwrite(JunkAt(Target)) /\ pc' = "write"
      /\ UNCHANGED <<backup, primary, session, area, buf, lost, faults, crashes>>
  BY DEF WipeBuffer
<1>2. session # "none" /\ 0 < Remaining /\ InBuffer /\ (Clean => lost = {})
  BY <1>1 DEF Inv, TypeOK, Stepping, DataInv
<1>3. JunkAt(Target) \in [Target -> Cells] /\ \A p \in Target : JunkAt(Target)[p] = Junk
  BY CellTypes DEF JunkAt
<1>4. InBuffer'
  <2>1. \A k \in Fs \ lost : IF k \in Moving THEN Moved(k) ELSE Found(disk', Here(area), k)
    BY <1>1, <1>2, <1>3, StillFound DEF InBuffer, Inv
  <2>2. Moving' = Moving /\ NextArea' = NextArea
    BY <1>1 DEF Moving, NextArea, Target, First, ChunkSize, Remaining, End, Fs
  <2> QED BY <1>1, <2>1, <2>2 DEF InBuffer, Moved, Found, Here, PlaceOf, Expected, Fs
<1>5. DataInv'
  BY <1>1, <1>2, <1>4 DEF DataInv, Clean
<1>6. ConcealInv'
  <2> SUFFICES ASSUME lost = {} PROVE Hidden'
    BY <1>1 DEF ConcealInv
  <2>1. Hidden
    BY <1>1 DEF Inv, ConcealInv, TypeOK
  <2> QED BY <1>1, <1>3, <2>1, StillHidden DEF Inv
<1>7. ~primary
  BY <1>1, NoPrimary
<1> QED BY <1>1, <1>5, <1>6, <1>7 DEF PrimaryInv

LEMMA WriteChunkStep ==
    ASSUME Inv, WriteChunk
    PROVE  DataInv' /\ ConcealInv' /\ PrimaryInv'
<1>1. /\ pc = "write" /\ disk' = Overwrite(buf) /\ primary' = (primary /\ 0 \notin Target)
      /\ area' = NextArea /\ UNCHANGED <<backup, session, lost, faults, crashes>>
      /\ pc' = IF since' >= Interval THEN "save" ELSE AfterSave(Remaining <= Chunk)
  BY DEF WriteChunk, NextArea
<1>2. /\ session # "none" /\ 0 < Remaining /\ InBuffer /\ (Clean => lost = {}) /\ buf \in [Target -> Cells]
      /\ session \in {"encrypt", "decrypt"}
  BY <1>1 DEF Inv, TypeOK, Stepping, DataInv
<1>3. \A k \in Fs \ lost : Found(disk', Here(NextArea), k)
  <2> TAKE k \in Fs \ lost
  <2>1. CASE k \in Moving
    <3>1. Moved(k)
      BY <1>2, <2>1 DEF InBuffer
    <3>2. PlaceOf(Here(NextArea), k) \in Target /\ Target \subseteq Positions
      BY <1>2, <2>1, Arriving, ChunkBounds DEF Inv
    <3> QED BY <1>1, <1>2, <3>1, <3>2, OverwriteAt DEF Moved, Found
  <2>2. CASE k \notin Moving
    BY <1>1, <1>2, <2>2, StillFound DEF InBuffer, Inv
  <2> QED BY <2>1, <2>2
<1>4. Placed(Here(area))'
  BY <1>1, <1>3 DEF Placed, Fs, Here
<1>5. pc' \in {"save", "stop", "last", "chunk"} /\ (pc' = "last" => Remaining <= Chunk)
  <2>1. pc' = "save" \/ pc' = AfterSave(Remaining <= Chunk)
    BY <1>1
  <2> QED BY <2>1 DEF AfterSave
<1>6. pc' = "last" => Remaining' = 0
  <2> HAVE pc' = "last"
  <2>1. area \in Int /\ Remaining \in Int /\ Remaining = IF session = "encrypt" THEN area - Offset ELSE End - area
    BY <1>2, Sizes DEF Inv, TypeOK, Remaining
  <2>2. ChunkSize = Remaining
    BY <1>5, <2>1, Sizes DEF ChunkSize
  <2>3. NextArea = IF session = "encrypt" THEN Offset ELSE End
    BY <2>1, <2>2, Sizes DEF NextArea
  <2>4. Remaining' = IF session = "encrypt" THEN area' - Offset ELSE End - area'
    BY <1>1 DEF Remaining, End
  <2> QED BY <1>1, <2>3, <2>4, Sizes
<1>7. DataInv'
  BY <1>1, <1>2, <1>4, <1>5, <1>6 DEF DataInv, Clean
<1>8. ConcealInv'
  <2> SUFFICES ASSUME lost = {} PROVE Hidden'
    BY <1>1 DEF ConcealInv
  <2>1. Hidden
    BY <1>1 DEF Inv, ConcealInv, TypeOK
  <2> QED BY <1>1, <1>2, <2>1, StillHidden DEF Inv
<1>9. ~primary'
  BY <1>1, NoPrimary
<1> QED BY <1>7, <1>8, <1>9 DEF PrimaryInv

(* What an interrupted write leaves: the first sectors concealed, and a       *)
(* primary header only if it has written nothing.                             *)
LEMMA InterruptedStep ==
    ASSUME Inv, pc \in {"wipe", "write"}, NEW n \in 0 .. ChunkSize, Interrupted(n)
    PROVE  (lost = {} => Hidden') /\ (primary' => primary /\ disk' = disk)
<1>1. primary' = (primary /\ (First > 0 \/ n = 0))
  BY InterruptedWrite DEF Inv
<1>2. PICK S \in SUBSET Target : \E new \in [S -> Cells] :
          /\ disk' = Overwrite(new) /\ (n = 0 => S = {})
          /\ \A p \in S : new[p] = IF pc = "wipe" THEN Junk ELSE buf[p]
  BY InterruptedWrite DEF Inv
<1>3. PICK new \in [S -> Cells] :
          /\ disk' = Overwrite(new) /\ (n = 0 => S = {})
          /\ \A p \in S : new[p] = IF pc = "wipe" THEN Junk ELSE buf[p]
  BY <1>2
<1>4. lost = {} => Hidden'
  <2> HAVE lost = {}
  <2>1. Hidden
    BY DEF Inv, ConcealInv, TypeOK
  <2>2. \A p \in S : new[p] = Junk \/ (pc = "write" /\ new[p] = buf[p])
    BY <1>3
  <2> QED BY <1>3, <2>1, <2>2, StillHidden DEF Inv
<1>5. primary' => primary /\ disk' = disk
  <2> HAVE primary'
  <2>1. primary /\ First = 0
    BY <1>1, NoPrimary
  <2>2. n = 0
    <3>1. ~(First > 0)
      BY <2>1
    <3> QED BY <1>1, <3>1
  <2>4. S = {}
    BY <1>3, <2>2
  <2>3. disk \in [Positions -> Cells] /\ DOMAIN new = {}
    BY <1>3, <2>4 DEF Inv, TypeOK
  <2> QED BY <1>3, <2>1, <2>3 DEF Overwrite
<1> QED BY <1>4, <1>5

LEMMA WriteFailsStep ==
    ASSUME Inv, WriteFails
    PROVE  DataInv' /\ ConcealInv' /\ PrimaryInv'
<1>1. /\ pc \in {"wipe", "write"} /\ Fault /\ pc' = IF session = "encrypt" THEN "undo" ELSE "close"
      /\ UNCHANGED <<backup, session, area, lost>>
  BY DEF WriteFails
<1>2. PICK n \in 0 .. ChunkSize : Interrupted(n)
  BY DEF WriteFails
<1>3. (lost = {} => Hidden') /\ (primary' => primary /\ disk' = disk)
  BY <1>1, <1>2, InterruptedStep
<1>4. DataInv'
  BY <1>1, NotClean DEF Inv, DataInv
<1>5. ConcealInv'
  BY <1>1, <1>3 DEF ConcealInv
<1>6. PrimaryInv'
  BY <1>1, <1>3 DEF Inv, PrimaryInv, Here, Fs
<1> QED BY <1>4, <1>5, <1>6

LEMMA UndoStep ==
    ASSUME Inv, Undo
    PROVE  DataInv' /\ ConcealInv' /\ PrimaryInv'
<1> DEFINE back == Target \ (area - Offset .. area - 1)
           restored == [p \in back |-> DecryptUnit(buf[p + Offset], p + Offset)]
<1>1. /\ pc = "undo" /\ pc' = "close" /\ UNCHANGED <<backup, primary, area, lost, crashes>>
      /\ (disk' = Overwrite(restored) /\ UNCHANGED faults) \/ (Fault /\ UNCHANGED disk)
  BY DEF Undo
<1>2. ~Clean' /\ ~primary /\ session = "encrypt" /\ 0 < Remaining
  BY <1>1, NotClean, NoPrimary DEF Inv, DataInv, Clean, Stepping
<1>3. \A p \in 0 .. Conceal - 1 : disk'[p] = disk[p]
  <2> TAKE p \in 0 .. Conceal - 1
  <2>1. p \in Positions /\ p \notin back
    BY <1>2, ChunkShape, Sizes DEF Inv, Positions
  <2> HIDE DEF back
  <2>2. CASE disk' = Overwrite(restored)
    <3>1. DOMAIN restored = back
      OBVIOUS
    <3> HIDE DEF restored
    <3> QED BY <2>1, <2>2, <3>1 DEF Overwrite
  <2>3. CASE UNCHANGED disk
    BY <2>3
  <2> QED BY <1>1, <2>2, <2>3
<1>4. DataInv'
  BY <1>1, <1>2 DEF DataInv
<1>5. ConcealInv'
  BY <1>1, <1>3 DEF Inv, ConcealInv, Hidden
<1> QED BY <1>1, <1>2, <1>4, <1>5 DEF PrimaryInv

(* A header update, after which the work goes on or the run closes.           *)
LEMMA UpdateStep ==
    ASSUME Inv, pc \in {"save", "stop", "last"}, UpdateHeader,
           UNCHANGED <<disk, primary, session, area, lost, faults, crashes>>,
           pc' \in {"stop", "last", "chunk", "primary", "reveal", "close"},
           pc' = "last" => Remaining = 0,
           pc' = "primary" => area = Offset, pc' = "reveal" => area = End
    PROVE  DataInv' /\ ConcealInv' /\ PrimaryInv'
<1>1. backup' = Here(area) /\ Placed(Here(area)) /\ backup.present /\ (Clean => lost = {})
  BY HereOf DEF Inv, TypeOK, DataInv
<1>2. Placed(Here(area))' /\ Remaining' = Remaining
  BY <1>1 DEF Placed, Here, Fs, Remaining, End
<1>3. DataInv'
  BY <1>1, <1>2 DEF DataInv, Clean, Here, End
<1>4. ConcealInv'
  BY <1>1 DEF Inv, ConcealInv, Hidden
<1>5. PrimaryInv'
  BY <1>1 DEF Inv, PrimaryInv, Here, Fs
<1> QED BY <1>3, <1>4, <1>5

(* A request fails and the run closes.                                        *)
LEMMA FailStep ==
    ASSUME Inv, pc \notin {"idle", "open", "conceal", "erase"}, Fault, pc' = "close",
           UNCHANGED <<disk, backup, primary, area, lost, crashes>>
    PROVE  DataInv' /\ ConcealInv' /\ PrimaryInv'
<1>1. DataInv'
  BY NotClean DEF Inv, DataInv
<1>2. ConcealInv' /\ PrimaryInv'
  BY DEF Inv, ConcealInv, PrimaryInv, Hidden, Here, Fs
<1> QED BY <1>1, <1>2

LEMMA SaveHeaderStep ==
    ASSUME Inv, SaveHeader
    PROVE  DataInv' /\ ConcealInv' /\ PrimaryInv'
<1>1. pc = "save" /\ UNCHANGED <<disk, primary, session, area, lost, crashes>>
  BY DEF SaveHeader
<1>2. CASE UpdateHeader /\ pc' = AfterSave(Remaining = 0) /\ UNCHANGED faults
  <2>1. pc' \in {"stop", "last", "chunk"} /\ (pc' = "last" => Remaining = 0)
    BY <1>2 DEF AfterSave
  <2> QED BY <1>1, <1>2, <2>1, UpdateStep
<1>3. CASE Fault /\ pc' = "close" /\ UNCHANGED <<backup, since>>
  BY <1>1, <1>3, FailStep
<1> QED BY <1>2, <1>3 DEF SaveHeader

LEMMA LastSaveStep ==
    ASSUME Inv, LastSave
    PROVE  DataInv' /\ ConcealInv' /\ PrimaryInv'
<1>1. pc \in {"stop", "last"} /\ UNCHANGED <<disk, primary, session, area, lost, crashes>>
  BY DEF LastSave
<1>2. CASE /\ UpdateHeader /\ UNCHANGED faults
           /\ pc' = IF pc = "last" /\ session = "encrypt" THEN "primary"
                    ELSE IF pc = "last" THEN "reveal" ELSE "close"
  <2>1. pc' \in {"primary", "reveal", "close"}
    BY <1>2
  <2>2. (pc' = "primary" => area = Offset) /\ (pc' = "reveal" => area = End)
    <3>1. pc = "last" => Remaining = 0
      BY DEF Inv, DataInv
    <3>2. area \in Int /\ (Remaining = IF session = "encrypt" THEN area - Offset ELSE End - area)
      BY Sizes DEF Inv, TypeOK, Remaining
    <3>3. CASE pc = "last" /\ session = "encrypt"
      BY <1>2, <3>1, <3>2, <3>3, Sizes
    <3>4. CASE pc = "last" /\ session # "encrypt"
      BY <1>2, <3>1, <3>2, <3>4, Sizes
    <3> QED BY <1>2, <3>3, <3>4
  <2> QED BY <1>1, <1>2, <2>1, <2>2, UpdateStep
<1>3. CASE Fault /\ pc' = "close" /\ UNCHANGED <<backup, dirty>>
  BY <1>1, <1>3, FailStep
<1> QED BY <1>2, <1>3 DEF LastSave

LEMMA WritePrimaryStep ==
    ASSUME Inv, WritePrimary
    PROVE  DataInv' /\ ConcealInv' /\ PrimaryInv'
<1>1. /\ pc = "primary" /\ pc' = "close" /\ disk' = Overwrite(JunkAt(0 .. Offset - 1))
      /\ UNCHANGED <<backup, session, area, lost, crashes>>
      /\ UNCHANGED faults \/ Fault
  BY DEF WritePrimary
<1>2. area = Offset /\ backup = Here(Offset) /\ Placed(Here(area)) /\ (Clean => lost = {})
  BY <1>1 DEF Inv, DataInv
<1>3. \A p \in Positions : disk'[p] = IF p < Offset THEN Junk ELSE disk[p]
  BY <1>1, Sizes DEF Overwrite, JunkAt, Positions
<1>4. \A k \in Fs \ lost : disk'[k + Offset] = Cipher(k)
  <2> TAKE k \in Fs \ lost
  <2>1. disk[k + Offset] = Cipher(k) /\ k + Offset \in Positions /\ ~(k + Offset < Offset)
    BY <1>2, FoundAtEnds, FsPositions, Sizes DEF Placed
  <2> QED BY <1>3, <2>1
<1>5. Placed(Here(area))'
  <2>1. \A k \in Fs \ lost : Found(disk', Here(area), k)
    BY <1>2, <1>4, FoundAtEnds
  <2> QED BY <1>1, <2>1 DEF Placed, Here, Fs
<1>6. DataInv'
  BY <1>1, <1>2, <1>5, NotClean DEF Inv, DataInv, Clean, Here
<1>7. \A p \in 0 .. Conceal - 1 : disk'[p] = Junk /\ p \in Fs
  BY <1>3, Sizes DEF Positions, Fs
<1>8. ConcealInv'
  <2>1. Hidden'
    BY <1>7, Forms DEF Hidden
  <2> QED BY <2>1 DEF ConcealInv
<1>9. PrimaryInv'
  <2>1. disk'[0] = Junk
    BY <1>7, Sizes
  <2> QED BY <1>1, <1>2, <1>4, <2>1 DEF PrimaryInv, Here, Fs
<1> QED BY <1>6, <1>8, <1>9

LEMMA RevealStep ==
    ASSUME Inv, Reveal
    PROVE  DataInv' /\ ConcealInv' /\ PrimaryInv'
<1>1. pc = "reveal" /\ UNCHANGED <<backup, primary, area, lost, crashes>>
  BY DEF Reveal
<1>2. area = End /\ backup = Here(End) /\ Placed(Here(area)) /\ (Clean => lost = {})
  BY <1>1 DEF Inv, DataInv
<1>3. CASE disk' = ConcealNTFS /\ pc' = "erase" /\ UNCHANGED faults
  <2>1. \A k \in Fs \ lost : disk'[k] = Sector(k)
    BY <1>2, <1>3, ConcealAt, FoundAtEnds, Forms, FsPositions DEF Placed, Inv
  <2>2. DataInv'
    BY <1>1, <1>2, <1>3, <2>1 DEF DataInv, InClear, Clean, Here, End, Fs
  <2>3. ~primary
    BY <1>2, Sizes DEF Inv, PrimaryInv, Here
  <2> QED BY <1>1, <1>3, <2>2, <2>3 DEF ConcealInv, PrimaryInv
<1>4. CASE Fault /\ pc' = "close" /\ UNCHANGED disk
  BY <1>1, <1>4, FailStep
<1> QED BY <1>3, <1>4 DEF Reveal

LEMMA EraseStep ==
    ASSUME Inv, Erase
    PROVE  DataInv' /\ ConcealInv' /\ PrimaryInv'
<1>1. pc = "erase" /\ disk' = Overwrite(JunkAt(FsSize .. End - 1)) /\ Forget /\ UNCHANGED <<primary, crashes>>
  BY DEF Erase
<1>2. \/ backup' = NoBackup /\ UNCHANGED faults
      \/ backup' \in {backup, NoBackup} /\ Fault
  BY DEF Erase
<1>3. backup = Here(End) /\ InClear /\ (Clean => lost = {})
  BY <1>1 DEF Inv, DataInv
<1>4. \A k \in Fs \ lost : disk'[k] = Sector(k)
  <2> TAKE k \in Fs \ lost
  <2>1. disk[k] = Sector(k) /\ k \in Positions /\ k \notin FsSize .. End - 1
    BY <1>3, FsPositions, Sizes DEF InClear
  <2> QED BY <1>1, <2>1 DEF Overwrite, JunkAt
<1>5. Clean' => lost = {} /\ \A k \in Fs : Found(disk', backup', k)
  <2> HAVE Clean'
  <2>1. backup' = NoBackup /\ lost = {}
    BY <1>1, <1>2, <1>3, NotClean DEF Inv, Clean
  <2> QED BY <1>4, <2>1, FoundAtEnds
<1>6. DataInv' /\ lost \subseteq lost'
  BY <1>1, <1>5, ForgetData
<1>7. ConcealInv'
  <2> SUFFICES ASSUME lost' = {}, backup'.present PROVE FALSE
    BY DEF ConcealInv
  <2>1. backup' = Here(End)
    BY <1>2, <1>3 DEF NoBackup
  <2>2. disk'[0] = Sector(0)
    BY <1>4, <1>6, Sizes DEF Fs
  <2> QED BY <1>1, <2>1, <2>2, ForgetHidden
<1>8. ~primary
  BY <1>3, Sizes DEF Inv, PrimaryInv, Here
<1> QED BY <1>1, <1>6, <1>7, <1>8 DEF PrimaryInv

LEMMA CloseStep ==
    ASSUME Inv, Close
    PROVE  DataInv' /\ ConcealInv' /\ PrimaryInv'
<1>1. pc = "close" /\ Forget /\ UNCHANGED <<disk, primary, session, crashes>> /\ backup.present
  BY DEF Close, Inv, TypeOK
<1>2. \/ (UpdateHeader \/ UNCHANGED backup) /\ UNCHANGED faults
      \/ Fault /\ UNCHANGED backup
  BY DEF Close
<1>3. backup' = Here(area) \/ backup' = backup
  BY <1>1, <1>2, HereOf DEF Inv
<1>4. Clean' => lost = {} /\ \A k \in Fs : Found(disk', backup', k)
  <2> HAVE Clean'
  <2>1. Clean
    BY <1>1, <1>2, NotClean DEF Inv, Clean
  <2>2. Placed(Here(area)) /\ backup = Here(area) /\ lost = {}
    BY <1>1, <2>1 DEF Inv, DataInv
  <2> QED BY <1>1, <1>3, <2>2 DEF Placed
<1>5. DataInv' /\ lost \subseteq lost' /\ pc' = "idle"
  BY <1>1, <1>4, ForgetData DEF Forget
<1>6. ConcealInv'
  BY <1>1, <1>5 DEF Inv, ConcealInv, Hidden
<1>7. PrimaryInv'
  <2>1. \A k \in Fs \ lost' : k \in Fs \ lost
    BY <1>5
  <2> QED BY <1>1, <1>3, <1>5, <2>1 DEF Inv, PrimaryInv, Here, Fs
<1> QED BY <1>5, <1>6, <1>7

LEMMA CrashStep ==
    ASSUME Inv, Crash
    PROVE  DataInv' /\ ConcealInv' /\ PrimaryInv'
<1>1. pc # "idle" /\ crashes' = crashes + 1 /\ Forget /\ UNCHANGED backup /\ backup.present /\ ~Clean'
  BY NotClean DEF Crash, Inv, TypeOK
<1>2. CASE pc \in {"wipe", "write"} /\ \E n \in 0 .. ChunkSize : Interrupted(n)
  <2>1. PICK n \in 0 .. ChunkSize : Interrupted(n)
    BY <1>2
  <2>2. (lost = {} => Hidden') /\ (primary' => primary /\ disk' = disk)
    BY <1>2, <2>1, InterruptedStep
  <2>3. DataInv' /\ lost \subseteq lost' /\ pc' = "idle"
    BY <1>1, ForgetData DEF Forget
  <2>4. ConcealInv'
    BY <2>2, <2>3 DEF ConcealInv
  <2>5. PrimaryInv'
    <3>1. \A k \in Fs \ lost' : k \in Fs \ lost
      BY <2>3
    <3> QED BY <1>1, <2>2, <2>3, <3>1 DEF Inv, PrimaryInv, Here, Fs
  <2> QED BY <2>3, <2>4, <2>5
<1>3. CASE pc \notin {"wipe", "write"} /\ UNCHANGED <<disk, primary>>
  <2>1. pc \in {"conceal", "erase"} => InClear /\ backup = Here(End)
    BY DEF Inv, DataInv
  <2> QED BY <1>1, <1>3, <2>1, GivenUp
<1> QED BY <1>2, <1>3 DEF Crash

LEMMA InvStep == AlignedSize /\ Inv /\ [Next]_vars => Inv'
<1> SUFFICES ASSUME AlignedSize, Inv, [Next]_vars PROVE DataInv' /\ ConcealInv' /\ PrimaryInv'
  BY StepType, BoundsStep DEF Inv
<1>1. ASSUME NEW w \in BOOLEAN, Begin(w) PROVE DataInv' /\ ConcealInv' /\ PrimaryInv'
  BY <1>1, BeginStep
<1>2. ASSUME NEW mode \in {"encrypt", "decrypt"}, NEW w \in BOOLEAN, Resume(mode, w)
      PROVE  DataInv' /\ ConcealInv' /\ PrimaryInv'
  BY <1>2, ResumeStep
<1>3. CASE Pause \/ Exit \/ UNCHANGED vars
  <2>1. UNCHANGED <<disk, backup, primary, pc, area, buf, lost, faults, crashes>> /\ (session' = session \/ pc = "idle")
    BY <1>3 DEF Pause, Exit, vars
  <2> QED BY <2>1, Kept
<1>4. CASE Crash
  BY <1>4, CrashStep
<1>5. CASE Work
  BY <1>5, BeginConcealStep, BeginFailsStep, OpenStep, ReadChunkStep, ReadFailsStep, WipeBufferStep,
     WriteChunkStep, WriteFailsStep, UndoStep, SaveHeaderStep, LastSaveStep, WritePrimaryStep,
     RevealStep, EraseStep, CloseStep DEF Work
<1> QED BY <1>1, <1>2, <1>3, <1>4, <1>5 DEF Next

----------------------------------------------------------------------------
(* Where a concealed sector can be *)

(* A chunk that begins inside the portion is concealed from its own start:    *)
(* at most as many sectors, less one, behind the portion as are in it.        *)
Near == 2 * Conceal - 1

(* A concealed sector lies before Near, or is encrypted as a data unit of     *)
(* such a place.                                                              *)
HiddenRight(c, p) == c.hidden => IF c.at = Clear THEN p < Near ELSE c.at < Near + Offset
HiddenInv ==
    /\ \A p \in Positions : HiddenRight(disk[p], p)
    /\ pc \in {"wipe", "write", "undo"} => \A p \in Target : HiddenRight(buf[p], p)

LEMMA NearSize == Near \in Int /\ Conceal \in Int /\ Conceal <= Near
BY Sizes DEF Near

LEMMA JunkRight ==
    ASSUME NEW p
    PROVE  HiddenRight(Junk, p)
BY DEF HiddenRight, Junk

LEMMA UnitParts ==
    ASSUME NEW c \in Cells, NEW q \in Positions
    PROVE  /\ q \in Int /\ q # Clear
           /\ \/ EncryptUnit(c, q) = Junk
              \/ c.at = Clear /\ EncryptUnit(c, q).at = q /\ EncryptUnit(c, q).hidden = c.hidden
           /\ \/ DecryptUnit(c, q) = Junk
              \/ c.at = q /\ DecryptUnit(c, q).at = Clear /\ DecryptUnit(c, q).hidden = c.hidden
           /\ Toggle(c) = Junk \/ (c.at = Clear /\ Toggle(c).at = Clear)
<1>1. q \in Int /\ q # Clear
  BY Sizes DEF Positions, Clear
<1>2. CASE c # Junk
  <2>1. c \in [fs : Fs, hidden : BOOLEAN, at : Positions \cup {Clear}]
    BY <1>2, CellForms
  <2>2. [c EXCEPT !.at = q].at = q /\ [c EXCEPT !.at = q].hidden = c.hidden
    BY <2>1
  <2>3. [c EXCEPT !.at = Clear].at = Clear /\ [c EXCEPT !.at = Clear].hidden = c.hidden
    BY <2>1
  <2>4. [c EXCEPT !.hidden = ~@].at = c.at
    BY <2>1
  <2> QED BY <1>1, <2>2, <2>3, <2>4 DEF EncryptUnit, DecryptUnit, Toggle
<1>3. CASE c = Junk
  BY <1>1, <1>3 DEF EncryptUnit, DecryptUnit, Toggle
<1> QED BY <1>2, <1>3

(* Each transformation keeps a concealed sector before Near.                  *)
LEMMA UnitsRight ==
    ASSUME NEW c \in Cells, NEW p \in Positions
    PROVE  /\ HiddenRight(c, p) /\ p + Offset \in Positions => HiddenRight(EncryptUnit(c, p + Offset), p + Offset)
           /\ p < Near /\ p + Offset \in Positions => HiddenRight(EncryptUnit(Toggle(c), p + Offset), p + Offset)
           /\ \A q : HiddenRight(c, q) /\ p + Offset \in Positions => HiddenRight(DecryptUnit(c, p + Offset), p)
           /\ p < Near => HiddenRight(Toggle(c), p)
<1>1. Offset \in Int /\ Near \in Int /\ p \in Int
  BY Sizes, NearSize DEF Positions
<1>2. ASSUME HiddenRight(c, p), p + Offset \in Positions
      PROVE  HiddenRight(EncryptUnit(c, p + Offset), p + Offset)
  <2> DEFINE e == EncryptUnit(c, p + Offset)
  <2>1. p + Offset # Clear /\ (e = Junk \/ (c.at = Clear /\ e.at = p + Offset /\ e.hidden = c.hidden))
    BY <1>2, UnitParts
  <2>2. c.at = Clear /\ c.hidden => p + Offset < Near + Offset
    BY <1>1, <1>2 DEF HiddenRight
  <2> HIDE DEF e
  <2>3. HiddenRight(e, p + Offset)
    BY <2>1, <2>2, JunkRight DEF HiddenRight
  <2> QED BY <2>3 DEF e
<1>3. ASSUME p < Near, p + Offset \in Positions
      PROVE  HiddenRight(EncryptUnit(Toggle(c), p + Offset), p + Offset)
  <2> DEFINE t == Toggle(c)
             e == EncryptUnit(t, p + Offset)
  <2>1. t \in Cells
    BY EncryptType
  <2> HIDE DEF t
  <2>2. p + Offset # Clear /\ (e = Junk \/ e.at = p + Offset)
    BY <1>3, <2>1, UnitParts
  <2>3. p + Offset < Near + Offset
    BY <1>1, <1>3
  <2> HIDE DEF e
  <2>4. HiddenRight(e, p + Offset)
    BY <2>2, <2>3, JunkRight DEF HiddenRight
  <2> QED BY <2>4 DEF e, t
<1>4. ASSUME NEW q, HiddenRight(c, q), p + Offset \in Positions
      PROVE  HiddenRight(DecryptUnit(c, p + Offset), p)
  <2> DEFINE e == DecryptUnit(c, p + Offset)
  <2>1. p + Offset # Clear /\ (e = Junk \/ (c.at = p + Offset /\ e.at = Clear /\ e.hidden = c.hidden))
    BY <1>4, UnitParts
  <2>2. c.at = p + Offset /\ c.hidden => p < Near
    <3> SUFFICES ASSUME c.at = p + Offset, c.hidden PROVE p < Near
      OBVIOUS
    <3>1. p + Offset < Near + Offset
      BY <1>4, <2>1 DEF HiddenRight
    <3> QED BY <1>1, <3>1
  <2> HIDE DEF e
  <2>3. HiddenRight(e, p)
    BY <2>1, <2>2, JunkRight DEF HiddenRight
  <2> QED BY <2>3 DEF e
<1>5. p < Near => HiddenRight(Toggle(c), p)
  BY UnitParts, JunkRight DEF HiddenRight
<1> QED BY <1>2, <1>3, <1>4, <1>5

LEMMA OverwriteRight ==
    ASSUME HiddenInv, NEW S, NEW new, new \in [S -> Cells], disk' = Overwrite(new),
           \A p \in S : HiddenRight(new[p], p)
    PROVE  \A p \in Positions : HiddenRight(disk'[p], p)
BY OverwriteAt DEF HiddenInv

LEMMA TransformedHidden ==
    ASSUME TypeOK, Stepping, pc = "chunk", NEW d, d \in [Positions -> Cells], Transformed(d),
           \A p \in Positions : HiddenRight(d[p], p)
    PROVE  \A p \in Target : HiddenRight(buf'[p], p)
<1> SUFFICES ASSUME NEW p \in Target PROVE HiddenRight(buf'[p], p)
  OBVIOUS
<1>1. /\ session \in {"encrypt", "decrypt"} /\ 0 < Remaining /\ session # "none"
      /\ p \in Positions /\ p \in Int /\ Offset \in Int
  BY ChunkBounds, Sizes DEF TypeOK, Stepping, Positions
<1>2. CASE session = "encrypt"
  <2> DEFINE k == p - Offset
  <2>1. k \in Positions /\ k + Offset = p
    <3>1. Offset <= First /\ First \in Int /\ ChunkSize \in Nat
      BY <1>1, <1>2, ChunkBounds DEF TypeOK
    <3> QED BY <1>1, <3>1, Sizes DEF Target, Positions
  <2>2. buf'[p] = EncryptUnit(IF k < Conceal THEN Toggle(d[k]) ELSE d[k], p)
    BY <1>2 DEF Transformed, Encrypted
  <2> HIDE DEF k
  <2>3. d[k] \in Cells /\ HiddenRight(d[k], k) /\ k + Offset \in Positions
    BY <1>1, <2>1
  <2>4. HiddenRight(EncryptUnit(d[k], k + Offset), k + Offset)
    BY <2>1, <2>3, UnitsRight
  <2>5. k < Conceal => HiddenRight(EncryptUnit(Toggle(d[k]), k + Offset), k + Offset)
    BY <1>1, <2>1, <2>3, NearSize, Sizes, UnitsRight
  <2> QED BY <2>1, <2>2, <2>4, <2>5
<1>3. CASE session = "decrypt"
  <2> DEFINE c == DecryptUnit(d[p + Offset], p + Offset)
  <2>1. p + Offset \in Positions
    <3>1. First = area - Offset /\ area + ChunkSize <= End /\ First \in Int /\ 0 <= First /\ ChunkSize \in Nat /\ area \in Int
      BY <1>1, <1>3, ChunkBounds, Sizes DEF TypeOK
    <3> QED BY <1>1, <3>1, Sizes DEF Target, Positions
  <2>2. c \in Cells /\ HiddenRight(c, p)
    <3>1. d[p + Offset] \in Cells /\ HiddenRight(d[p + Offset], p + Offset)
      BY <2>1
    <3> QED BY <1>1, <2>1, <3>1, EncryptType, UnitsRight
  <2>3. buf'[p] = IF InitialPortion(p) THEN Toggle(c) ELSE c
    BY <1>3 DEF Transformed, Decrypted
  <2>4. InitialPortion(p) => p < Near
    <3>1. area \in Int
      BY Sizes DEF TypeOK
    <3> QED BY <1>1, <3>1, NearSize DEF InitialPortion, Near
  <2> HIDE DEF c
  <2>5. p < Near => HiddenRight(Toggle(c), p)
    BY <1>1, <2>2, UnitsRight
  <2> QED BY <2>2, <2>3, <2>4, <2>5
<1> QED BY <1>1, <1>2, <1>3

LEMMA HiddenStep == TypeOK /\ Stepping /\ HiddenInv /\ [Next]_vars => HiddenInv'
<1> SUFFICES ASSUME TypeOK, Stepping, HiddenInv, [Next]_vars PROVE HiddenInv'
  OBVIOUS
<1> DEFINE OnDisk == \A p \in Positions : HiddenRight(disk'[p], p)
           InRAM  == \A p \in Target : HiddenRight(buf'[p], p)
           InChunk == pc \in {"wipe", "write", "undo"}
<1>1. ASSUME OnDisk, pc' \notin {"wipe", "write", "undo"}
      PROVE  HiddenInv'
  BY <1>1 DEF HiddenInv, Positions, End, HiddenRight
<1>2. ASSUME OnDisk, InRAM, UNCHANGED <<session, area>>
      PROVE  HiddenInv'
  <2>1. Target' = Target
    BY <1>2 DEF Target, First, ChunkSize, Remaining, End
  <2> QED BY <1>2, <2>1 DEF HiddenInv, Positions, End, HiddenRight
<1>3. disk' = disk => OnDisk
  BY DEF HiddenInv
<1>4. InChunk /\ buf' = buf => InRAM
  BY DEF HiddenInv
<1>5. ASSUME NEW S, disk' = Overwrite(JunkAt(S)) PROVE OnDisk
  <2>1. JunkAt(S) \in [S -> Cells] /\ \A p \in S : HiddenRight(JunkAt(S)[p], p)
    BY CellTypes, JunkRight DEF JunkAt
  <2> QED BY <1>5, <2>1, OverwriteRight
<1>6. disk' = ConcealNTFS => OnDisk
  <2> SUFFICES ASSUME disk' = ConcealNTFS, NEW p \in Positions PROVE HiddenRight(disk'[p], p)
    OBVIOUS
  <2>1. disk'[p] = IF p < Conceal THEN Toggle(disk[p]) ELSE disk[p]
    BY ConcealAt
  <2>2. disk[p] \in Cells /\ HiddenRight(disk[p], p)
    BY DEF TypeOK, HiddenInv
  <2>3. p < Conceal => HiddenRight(Toggle(disk[p]), p)
    <3>1. p \in Int /\ (p < Conceal => p < Near)
      BY Sizes, NearSize DEF Positions
    <3> QED BY <2>2, <3>1, UnitsRight
  <2> QED BY <2>1, <2>2, <2>3
<1>7. ASSUME pc \in {"wipe", "write"}, NEW n \in 0 .. ChunkSize, Interrupted(n) PROVE OnDisk
  <2>1. PICK S \in SUBSET Target : \E new \in [S -> Cells] :
            disk' = Overwrite(new) /\ \A p \in S : new[p] = IF pc = "wipe" THEN Junk ELSE buf[p]
    BY <1>7, InterruptedWrite
  <2>2. PICK new \in [S -> Cells] :
            disk' = Overwrite(new) /\ \A p \in S : new[p] = IF pc = "wipe" THEN Junk ELSE buf[p]
    BY <2>1
  <2>3. \A p \in S : HiddenRight(new[p], p)
    BY <1>7, <2>2, JunkRight DEF HiddenInv
  <2> QED BY <2>2, <2>3, OverwriteRight
<1> HIDE DEF OnDisk, InRAM
<1>8. ASSUME NEW w \in BOOLEAN, Begin(w) PROVE HiddenInv'
  <2>1. pc' = "conceal" /\ disk' = [p \in Positions |-> IF disk[p].at = Clear THEN disk[p] ELSE Junk]
    BY <1>8 DEF Begin
  <2>2. OnDisk
    BY <2>1, JunkRight DEF OnDisk, HiddenInv
  <2> QED BY <1>1, <2>1, <2>2
<1>9. ASSUME NEW mode \in {"encrypt", "decrypt"}, NEW w \in BOOLEAN, Resume(mode, w) PROVE HiddenInv'
  BY <1>1, <1>3, <1>9 DEF Resume
<1>10. CASE Pause \/ UNCHANGED vars
  <2>1. UNCHANGED <<disk, buf, session, area, pc>>
    BY <1>10 DEF Pause, vars
  <2>2. CASE InChunk
    BY <1>2, <1>3, <1>4, <2>1, <2>2
  <2>3. CASE ~InChunk
    BY <1>1, <1>3, <2>1, <2>3
  <2> QED BY <2>2, <2>3
<1>11. CASE Exit
  <2>1. pc' = "idle" /\ disk' = disk
    BY <1>11 DEF Exit
  <2> QED BY <1>1, <1>3, <2>1
<1>12. CASE Crash
  <2>1. pc' = "idle"
    BY <1>12 DEF Crash, Forget
  <2>2. OnDisk
    BY <1>3, <1>7, <1>12 DEF Crash
  <2> QED BY <1>1, <2>1, <2>2
<1>13. CASE BeginConceal \/ Reveal
  <2>1. pc' \in {"open", "erase", "close"} /\ (disk' = ConcealNTFS \/ disk' = disk)
    BY <1>13 DEF BeginConceal, Reveal
  <2> QED BY <1>1, <1>3, <1>6, <2>1
<1>14. CASE BeginFails \/ Open \/ SaveHeader \/ LastSave \/ Close
  <2>1. disk' = disk
    BY <1>14 DEF BeginFails, Open, SaveHeader, LastSave, Close
  <2>2. pc' \notin {"wipe", "write", "undo"}
    BY <1>14 DEF BeginFails, Open, SaveHeader, LastSave, Close, Forget, AfterSave
  <2> QED BY <1>1, <1>3, <2>1, <2>2
<1>15. CASE ReadChunk
  <2>1. pc = "chunk" /\ Transformed(disk) /\ UNCHANGED <<disk, session, area>> /\ disk \in [Positions -> Cells]
    BY <1>15 DEF ReadChunk, TypeOK
  <2>2. InRAM
    BY <2>1, TransformedHidden DEF InRAM, HiddenInv
  <2> QED BY <1>2, <1>3, <2>1, <2>2
<1>16. CASE ReadFails
  <2>1. pc = "chunk" /\ UNCHANGED <<session, area>>
    BY <1>16 DEF ReadFails
  <2>2. CASE pc' = "close" /\ disk' = disk
    BY <1>1, <1>3, <2>2
  <2>3. ASSUME NEW q \in Source, Transformed([disk EXCEPT ![q] = Junk]),
               disk' = IF session = "encrypt" THEN [disk EXCEPT ![q] = Junk] ELSE disk
        PROVE  HiddenInv'
    <3> DEFINE d == [disk EXCEPT ![q] = Junk]
    <3>1. d \in [Positions -> Cells] /\ \A p \in Positions : HiddenRight(d[p], p)
      BY CellTypes, JunkRight DEF TypeOK, HiddenInv
    <3>2. disk' = d \/ disk' = disk
      BY <2>3
    <3>3. Transformed(d)
      BY <2>3
    <3> HIDE DEF d
    <3>4. InRAM
      BY <2>1, <3>1, <3>3, TransformedHidden DEF InRAM
    <3>5. OnDisk
      BY <1>3, <3>1, <3>2 DEF OnDisk
    <3> QED BY <1>2, <2>1, <3>4, <3>5
  <2> QED BY <1>16, <2>2, <2>3 DEF ReadFails
<1>17. CASE WipeBuffer
  <2>1. pc = "wipe" /\ disk' = Overwrite(JunkAt(Target)) /\ UNCHANGED <<buf, session, area>>
    BY <1>17 DEF WipeBuffer
  <2> QED BY <1>2, <1>4, <1>5, <2>1
<1>18. CASE WritePrimary \/ Erase
  <2>1. pc' \in {"close", "idle"} /\ \E S : disk' = Overwrite(JunkAt(S))
    BY <1>18 DEF WritePrimary, Erase, Forget
  <2>2. OnDisk
    BY <1>5, <2>1
  <2> QED BY <1>1, <2>1, <2>2
<1>19. CASE WriteChunk
  <2>1. pc = "write" /\ disk' = Overwrite(buf) /\ pc' \in {"save", "stop", "last", "chunk"}
    BY <1>19 DEF WriteChunk, AfterSave
  <2>2. buf \in [Target -> Cells] /\ \A p \in Target : HiddenRight(buf[p], p)
    BY <2>1 DEF TypeOK, HiddenInv
  <2>3. OnDisk
    BY <2>1, <2>2, OverwriteRight DEF OnDisk
  <2> QED BY <1>1, <2>1, <2>3
<1>20. CASE WriteFails
  <2>1. pc \in {"wipe", "write"} /\ UNCHANGED <<buf, session, area>> /\ \E n \in 0 .. ChunkSize : Interrupted(n)
    BY <1>20 DEF WriteFails
  <2>2. OnDisk
    BY <1>7, <2>1
  <2> QED BY <1>2, <1>4, <2>1, <2>2
<1>21. CASE Undo
  <2> DEFINE back == Target \ (area - Offset .. area - 1)
             restored == [p \in back |-> DecryptUnit(buf[p + Offset], p + Offset)]
  <2>1. pc = "undo" /\ pc' = "close" /\ (disk' = Overwrite(restored) \/ disk' = disk)
    BY <1>21 DEF Undo
  <2>2. /\ session = "encrypt" /\ First \in Int /\ 0 <= First /\ First + ChunkSize = area
        /\ area \in Int /\ ChunkSize \in Nat /\ Target = First .. First + ChunkSize - 1 /\ Target \subseteq Positions
        /\ buf \in [Target -> Cells]
    BY <2>1, ChunkShape, ChunkBounds, Sizes DEF TypeOK, Stepping
  <2>3. \A p \in back : p \in Positions /\ p + Offset \in Target
    BY <2>2, Sizes
  <2>4. \A p \in back : buf[p + Offset] \in Cells /\ HiddenRight(buf[p + Offset], p + Offset) /\ p + Offset \in Positions
    <3> HIDE DEF back
    <3> QED BY <2>1, <2>2, <2>3 DEF HiddenInv
  <2>5. \A p \in back : DecryptUnit(buf[p + Offset], p + Offset) \in Cells
                       /\ HiddenRight(DecryptUnit(buf[p + Offset], p + Offset), p)
    <3> HIDE DEF back
    <3> QED BY <2>3, <2>4, EncryptType, UnitsRight
  <2>6. restored \in [back -> Cells] /\ \A p \in back : HiddenRight(restored[p], p)
    <3> HIDE DEF back
    <3> QED BY <2>5
  <2>7. OnDisk
    <3> HIDE DEF restored, back
    <3>1. disk' = Overwrite(restored) => OnDisk
      BY <2>6, OverwriteRight DEF OnDisk
    <3> QED BY <1>3, <2>1, <3>1
  <2> QED BY <1>1, <2>1, <2>7
<1> QED BY <1>8, <1>9, <1>10, <1>11, <1>12, <1>13, <1>14, <1>15, <1>16, <1>17, <1>18, <1>19, <1>20, <1>21 DEF Next, Work

----------------------------------------------------------------------------
(* The theorems *)

LEMMA Invariance == AlignedSize /\ Spec => []Inv
<1>1. AlignedSize /\ Init => AlignedSize /\ Inv
  BY InitInv
<1>2. AlignedSize /\ Inv /\ [Next]_vars => (AlignedSize /\ Inv)'
  BY InvStep DEF AlignedSize
<1> QED BY <1>1, <1>2, PTL DEF Spec

(* On a partition of any suitable size, whatever the sizes of chunk, offset   *)
(* and header interval: without a failure no order of pauses, exits, resumes  *)
(* and changes of direction loses a sector (EncryptPartitionInPlaceResume,    *)
(* DecryptPartitionInPlace).                                                  *)
THEOREM NothingLost == AlignedSize /\ Spec => []CleanRunsLoseNothing
<1>1. Inv => CleanRunsLoseNothing
  BY DEF Inv, DataInv, Clean, CleanRunsLoseNothing
<1> QED BY <1>1, Invariance, PTL

(* A file system that Windows can recognise is all there, at every step and   *)
(* with failures anywhere (ConcealNTFS).                                      *)
THEOREM RecognisedIsWhole == AlignedSize /\ Spec => []RecognisedMeansWhole
<1>1. Inv => RecognisedMeansWhole
  BY RecognisedWhole DEF RecognisedMeansWhole
<1> QED BY <1>1, Invariance, PTL

(* A primary header stands only before a file system that is entirely         *)
(* encrypted, and the backup header says so, with failures anywhere           *)
(* (EncryptPartitionInPlaceResume: the primary header is written last).       *)
THEOREM PrimaryIsWhole == AlignedSize /\ Spec => []PrimaryMeansWhole
<1>1. Inv => PrimaryMeansWhole
  BY DEF Inv, PrimaryInv, PrimaryMeansWhole, Here
<1> QED BY <1>1, Invariance, PTL

(* "We will conceal this portion" (DecryptPartitionInPlace): the loop that    *)
(* conceals counts from the start of the chunk.  On a partition of any size,  *)
(* with chunks that begin inside the portion and failures anywhere, it        *)
(* conceals fewer sectors behind the portion than the portion has.            *)
ConcealedNear == \A p \in Near .. End - 1 : disk[p].at = Clear => ~disk[p].hidden

THEOREM ConcealmentIsNear == Spec => []ConcealedNear
<1>1. Init => HiddenInv
  <2> SUFFICES ASSUME Init PROVE HiddenInv
    OBVIOUS
  <2>1. pc = "idle" /\ \A p \in Positions : ~disk[p].hidden
    BY FsPositions DEF Init, Sector, Junk
  <2> QED BY <2>1 DEF HiddenInv, HiddenRight
<1>2. TypeOK /\ Stepping /\ HiddenInv /\ [Next]_vars => HiddenInv'
  BY HiddenStep
<1>3. HiddenInv => ConcealedNear
  <2> SUFFICES ASSUME HiddenInv, NEW p \in Near .. End - 1, disk[p].at = Clear
               PROVE  ~disk[p].hidden
    BY DEF ConcealedNear
  <2>1. p \in Positions /\ ~(p < Near)
    BY Sizes, NearSize DEF Positions
  <2> QED BY <2>1 DEF HiddenInv, HiddenRight
<1> QED BY <1>1, <1>2, <1>3, InitType, StepType, PTL DEF Spec

----------------------------------------------------------------------------
(* What a run that ends early costs                                           *)

(* Where sectors may be missing if the area has moved by n since header b was *)
(* written: behind the last of them that has been overwritten.  They are      *)
(* Offset fewer than n, because the last Offset of what moved is still there. *)
Gap(mode, b, n) == IF mode = "encrypt" THEN b.start - n .. b.start - Offset - 1
                   ELSE b.start - Offset .. b.start - Offset + n - Offset - 1
Intact(gone, d, b) == \A k \in Fs \ gone : Found(d, b, k)
Behind(mode, gone, d, b, n) == \A k \in Fs \ gone : Found(d, b, k) \/ k \in Gap(mode, b, n)

Running == {"chunk", "wipe", "write", "undo", "save", "stop", "last"}
Pending == IF pc \in {"wipe", "write", "undo"} THEN ChunkSize ELSE 0
Most    == Interval - 1 + Chunk

(* since says how far the area is from the header, and the header is never    *)
(* further behind than Most.                                                  *)
Trailing ==
    /\ pc \in {"idle", "conceal", "open"} => since = 0
    /\ pc \in Running =>
          /\ area = IF session = "encrypt" THEN backup.start - since ELSE backup.start + since
          /\ since <= (IF pc = "save" THEN Most ELSE Interval - 1)
          /\ Behind(session, lost, disk, backup, since + Pending)
          /\ Behind(session, lost, disk, Here(area), Pending)
    /\ pc = "close" => Behind(session, lost, disk, backup, Most) /\ Behind(session, lost, disk, Here(area), Most)

(* What is needed to make up for one fault of the device.                     *)
Mendable ==
    /\ pc \in Running /\ session = "encrypt" => dirty \/ backup = Here(area)
    /\ pc = "undo" => 0 < faults /\ \A k \in Moving \ lost : Moved(k)
    /\ pc = "close" /\ session = "encrypt" /\ faults <= 1 =>
          Intact(lost, disk, Here(area)) /\ (backup = Here(area) \/ (dirty /\ faults = 1))

LEMMA BehindMore ==
    ASSUME NEW mode, NEW gone, NEW d, NEW b, b.start \in Int, NEW m \in Int, NEW n \in Int, m <= n,
           Behind(mode, gone, d, b, m)
    PROVE  Behind(mode, gone, d, b, n)
<1>1. \A k \in Fs : k \in Gap(mode, b, m) => k \in Gap(mode, b, n)
  BY Sizes DEF Gap, Fs
<1> QED BY <1>1 DEF Behind

LEMMA IntactBehind ==
    ASSUME NEW mode, NEW gone, NEW d, NEW b, NEW n, Intact(gone, d, b)
    PROVE  Behind(mode, gone, d, b, n)
BY DEF Intact, Behind

LEMMA IntactHere ==
    ASSUME Inv, pc \in {"chunk", "save", "stop", "last", "primary", "reveal"}
    PROVE  Intact(lost, disk, Here(area))
BY DEF Inv, DataInv, Placed, Intact

LEMMA IntactNext ==
    ASSUME Inv', pc' \in {"chunk", "save", "stop", "last", "primary", "reveal"}
    PROVE  Intact(lost', disk', Here(area'))
BY DEF Inv, DataInv, Placed, Intact, Fs, Here

(* What a chunk overwrites, or a part of it, is missing for a header that was *)
(* written m before: in the gap of what has moved and of the chunk.           *)
LEMMA OverwriteBehind ==
    ASSUME TypeOK, session # "none", 0 < Remaining, NEW s \in Int, NEW m \in Nat,
           area = IF session = "encrypt" THEN s - m ELSE s + m,
           NEW S \in SUBSET Target, NEW new, new \in [S -> Cells], disk' = Overwrite(new),
           Behind(session, lost, disk, Here(s), m + ChunkSize)
    PROVE  Behind(session, lost, disk', Here(s), m + ChunkSize)
<1>1. /\ area \in Int /\ First \in Int /\ ChunkSize \in Nat /\ Offset \in Nat
      /\ Target = First .. First + ChunkSize - 1 /\ session \in {"encrypt", "decrypt"}
      /\ session = "encrypt" => First + ChunkSize = area
      /\ session = "decrypt" => First = area - Offset
  BY ChunkShape, Sizes
<1> SUFFICES ASSUME NEW k \in Fs, k \notin lost, k \notin Gap(session, Here(s), m + ChunkSize)
             PROVE  Found(disk', Here(s), k)
  BY DEF Behind
<1>2. k \in Nat /\ k \in Positions /\ k + Offset \in Positions
  BY FsPositions
<1>3. Found(disk, Here(s), k)
  BY DEF Behind
<1>4. k \notin IF session = "encrypt" THEN s - (m + ChunkSize) .. s - Offset - 1
               ELSE s - Offset .. s - Offset + (m + ChunkSize) - Offset - 1
  BY DEF Gap, Here
<1>5. PlaceOf(Here(s), k) \notin Target /\ PlaceOf(Here(s), k) \in Positions
  <2>1. CASE s <= k + Offset
    <3>1. k + Offset \notin Target
      BY <1>1, <1>2, <1>4, <2>1
    <3> QED BY <1>2, <2>1, <3>1, FoundForms
  <2>2. CASE ~(s <= k + Offset)
    <3>1. k \notin Target
      BY <1>1, <1>2, <1>4, <2>2
    <3> QED BY <1>2, <2>2, <3>1, FoundForms
  <2> QED BY <2>1, <2>2
<1>6. disk'[PlaceOf(Here(s), k)] = disk[PlaceOf(Here(s), k)]
  BY <1>5, OverwriteAt
<1> QED BY <1>3, <1>6 DEF Found

(* A run has ended: nothing is trailing.                                      *)
LEMMA ForgetTrails == ASSUME Forget PROVE Trailing' /\ Mendable'
BY DEF Forget, Trailing, Mendable, Running

LEMMA RestTrails ==
    ASSUME Inv, Trailing, Mendable,
           (\E w \in BOOLEAN : Begin(w) \/ \E mode \in {"encrypt", "decrypt"} : Resume(mode, w)) \/ BeginConceal \/ Exit
    PROVE  Trailing' /\ Mendable'
<1>1. pc \in {"idle", "conceal"} /\ pc' \in {"idle", "conceal", "open"} /\ since' = since
  BY DEF Begin, Resume, BeginConceal, Exit
<1> QED BY <1>1 DEF Trailing, Mendable, Running

LEMMA StillTrails ==
    ASSUME Trailing, Mendable, UNCHANGED <<disk, backup, primary, session, pc, area, buf, wipe, since, dirty, lost, faults>>
    PROVE  Trailing' /\ Mendable'
<1>1. Trailing'
  <2>1. Pending' = Pending
    BY DEF Pending, ChunkSize, Remaining, End
  <2> QED BY <2>1 DEF Trailing, Here
<1>2. Mendable'
  <2>1. Moving' = Moving /\ NextArea' = NextArea
    BY DEF Moving, NextArea, Target, First, ChunkSize, Remaining, End, Fs
  <2> QED BY <2>1 DEF Mendable, Moved, Here, PlaceOf, Expected
<1> QED BY <1>1, <1>2

LEMMA HereStart == \A a : Here(a).start = a
BY DEF Here

LEMMA OpenTrails ==
    ASSUME Inv, Inv', Trailing, Mendable, Open
    PROVE  Trailing' /\ Mendable'
<1>1. CASE Forget
  BY <1>1, ForgetTrails
<1>2. CASE /\ area' = backup.start
           /\ pc' = IF area' = (IF session = "encrypt" THEN Offset ELSE End) THEN "last" ELSE "chunk"
           /\ UNCHANGED <<buf, wipe, since, dirty, cancel, lost, faults>>
  <2>1. pc = "open" /\ UNCHANGED <<disk, backup, session>> /\ pc' \in {"last", "chunk"} /\ since' = 0
    BY <1>2 DEF Open, Trailing
  <2>2. backup' = Here(area') /\ area' \in Int
    BY <1>2, <2>1, HereOf, Sizes DEF Inv, TypeOK
  <2>3. Intact(lost', disk', Here(area')) /\ Intact(lost', disk', backup')
    BY <2>1, <2>2, IntactNext
  <2>4. backup'.start = area' /\ area' - 0 = area' /\ area' + 0 = area' /\ 0 <= Interval - 1 /\ 0 <= Most
    <3>1. Interval \in Nat /\ Chunk \in Nat /\ 0 < Interval
      BY SizesAssumption
    <3>2. backup'.start = area'
      BY <2>2, HereStart
    <3>3. 0 <= Interval - 1 /\ 0 <= Interval - 1 + Chunk
      BY <3>1
    <3>4. area' - 0 = area' /\ area' + 0 = area'
      <4>1. \A a \in Int : a - 0 = a /\ a + 0 = a
        OBVIOUS
      <4>2. area' \in Int
        BY <2>2
      <4> QED BY <4>1, <4>2
    <3> QED BY <3>2, <3>3, <3>4 DEF Most
  <2>5. Pending' = 0
    BY <2>1 DEF Pending
  <2>6. Trailing'
    <3>1. area' = IF session' = "encrypt" THEN backup'.start - since' ELSE backup'.start + since'
      BY <2>1, <2>4
    <3>2. since' <= (IF pc' = "save" THEN Most ELSE Interval - 1)
      BY <2>1, <2>4
    <3>3. /\ Behind(session', lost', disk', backup', since' + Pending')
          /\ Behind(session', lost', disk', Here(area'), Pending')
      BY <2>3, IntactBehind
    <3> QED BY <2>1, <3>1, <3>2, <3>3 DEF Trailing, Here, Most
  <2> QED BY <2>1, <2>2, <2>6 DEF Mendable
<1> QED BY <1>1, <1>2 DEF Open

(* Where the area is with respect to the header, in numbers.                  *)
LEMMA TrailNumbers ==
    ASSUME Inv, Trailing, pc \in Running
    PROVE  /\ area \in Int /\ since \in Nat /\ backup = Here(backup.start) /\ backup.start \in Int
           /\ area = IF session = "encrypt" THEN backup.start - since ELSE backup.start + since
           /\ session \in {"encrypt", "decrypt"} /\ Interval \in Nat /\ Chunk \in Nat /\ Most = Interval - 1 + Chunk
           /\ 0 < Interval /\ 0 < Chunk /\ Most \in Nat
<1>1. backup.present /\ session # "none"
  BY DEF Inv, TypeOK, Running
<1> QED BY <1>1, HereOf, Sizes, SizesAssumption DEF Inv, TypeOK, Trailing, Most

(* A chunk is read: from now on its place may be overwritten.                 *)
LEMMA ReadTrails ==
    ASSUME Inv, Inv', Trailing, Mendable, pc = "chunk", pc' \in {"wipe", "write"},
           UNCHANGED <<backup, session, area, since, dirty>>,
           Behind(session, lost', disk', backup, since), Intact(lost', disk', Here(area))
    PROVE  Trailing' /\ Mendable'
<1>1. Pending = 0 /\ 0 < Remaining /\ session # "none"
  BY DEF Pending, Inv, TypeOK, Stepping
<1>2. Pending' = ChunkSize /\ ChunkSize \in Nat
  BY <1>1, ChunkBounds DEF Pending, ChunkSize, Remaining, End, Inv
<1>3. Behind(session, lost', disk', backup, since + ChunkSize)
  <2>1. since <= since + ChunkSize /\ since \in Int /\ since + ChunkSize \in Int /\ backup.start \in Int
    BY <1>2, TrailNumbers DEF Running
  <2> QED BY <2>1, BehindMore
<1>4. Behind(session, lost', disk', Here(area), ChunkSize)
  BY IntactBehind
<1>5. Trailing'
  BY <1>2, <1>3, <1>4 DEF Trailing, Running, Here, Most
<1> QED BY <1>5 DEF Mendable, Running, Here

LEMMA ReadChunkTrails ==
    ASSUME Inv, Inv', Trailing, Mendable, ReadChunk
    PROVE  Trailing' /\ Mendable'
<1>1. pc = "chunk" /\ pc' \in {"wipe", "write"} /\ UNCHANGED <<disk, backup, session, area, since, dirty, lost>>
  BY DEF ReadChunk, Transformed
<1>2. Behind(session, lost, disk, backup, since) /\ Intact(lost, disk, Here(area))
  <2>1. since + Pending = since
    BY <1>1, TrailNumbers DEF Pending, Running
  <2> QED BY <1>1, <2>1, IntactHere DEF Trailing, Running
<1> QED BY <1>1, <1>2, ReadTrails

LEMMA ReadFailsTrails ==
    ASSUME Inv, Inv', Trailing, Mendable, ReadFails
    PROVE  Trailing' /\ Mendable'
<1>1. pc = "chunk" /\ Fault /\ UNCHANGED <<backup, session, area, since, dirty>>
  BY DEF ReadFails
<1>2. /\ Behind(session, lost, disk, backup, since) /\ Intact(lost, disk, Here(area))
      /\ session # "none" /\ 0 < Remaining
  <2>1. since + Pending = since
    BY <1>1, TrailNumbers DEF Pending, Running
  <2> QED BY <1>1, <2>1, IntactHere DEF Trailing, Running, Inv, TypeOK, Stepping
<1>3. CASE pc' = "close" /\ UNCHANGED <<disk, lost>>
  <2>1. since <= Most /\ since \in Int /\ Most \in Int /\ backup.start \in Int
    BY <1>1, TrailNumbers DEF Trailing, Running
  <2>2. Behind(session, lost, disk, backup, Most) /\ Behind(session, lost, disk, Here(area), Most)
    BY <1>2, <2>1, BehindMore, IntactBehind
  <2>3. Trailing'
    BY <1>1, <1>3, <2>2 DEF Trailing, Running, Here, Most
  <2>4. faults \in Nat /\ faults' = faults + 1
    BY <1>1 DEF Inv, TypeOK, Fault
  <2>5. faults' <= 1 => faults' = 1
    BY <2>4
  <2>6. session = "encrypt" => dirty \/ backup = Here(area)
    BY <1>1 DEF Mendable, Running
  <2> QED BY <1>1, <1>2, <1>3, <2>3, <2>5, <2>6 DEF Mendable, Running, Here
<1>4. ASSUME NEW q \in Source, Transformed([disk EXCEPT ![q] = Junk]),
             lost' = lost \cup {IF session = "encrypt" THEN q ELSE q - Offset},
             disk' = IF session = "encrypt" THEN [disk EXCEPT ![q] = Junk] ELSE disk
      PROVE  Trailing' /\ Mendable'
  <2>1. pc' \in {"wipe", "write"}
    BY <1>4 DEF Transformed
  <2>2. ASSUME NEW b, NEW k \in Fs \ lost', Found(disk, b, k), session = "encrypt" => PlaceOf(b, k) # q
        PROVE  Found(disk', b, k)
    BY <1>4, <2>2 DEF Found, Inv, TypeOK
  <2>3. session = "encrypt" => /\ q < area /\ q \in Int
                               /\ backup.start \in Int /\ area <= backup.start /\ area \in Int
    <3> HAVE session = "encrypt"
    <3>1. q \in First - Offset .. First - Offset + ChunkSize - 1
      BY DEF Source
    <3>2. First \in Int /\ ChunkSize \in Nat /\ First + ChunkSize = area /\ Offset \in Nat
      BY <1>2, ChunkShape, Sizes DEF Inv
    <3>3. area = backup.start - since /\ since \in Nat /\ backup.start \in Int
      BY <1>1, TrailNumbers DEF Running
    <3> QED BY <3>1, <3>2, <3>3
  <2>4. \A k \in Fs \ lost' : k \in Fs \ lost /\ (session = "encrypt" => k # q)
    BY <1>4
  <2>5. \A k \in Fs \ lost' : session = "encrypt" => PlaceOf(Here(area), k) # q /\ PlaceOf(backup, k) # q
    <3> SUFFICES ASSUME NEW k \in Fs, k # q, session = "encrypt"
                 PROVE  PlaceOf(Here(area), k) # q /\ PlaceOf(backup, k) # q
      BY <2>4
    <3>1. k \in Nat /\ Offset \in Nat
      BY FsPositions, Sizes
    <3> QED BY <2>3, <3>1 DEF PlaceOf, Here
  <2>6. Intact(lost', disk', Here(area))
    BY <1>2, <2>2, <2>4, <2>5 DEF Intact
  <2>7. Behind(session, lost', disk', backup, since)
    BY <1>2, <2>2, <2>4, <2>5 DEF Behind
  <2> QED BY <1>1, <2>1, <2>6, <2>7, ReadTrails
<1> QED BY <1>3, <1>4 DEF ReadFails

(* A chunk in progress, or a part of it, reaches the disk.                    *)
LEMMA PartTrails ==
    ASSUME Inv, Trailing, pc \in {"wipe", "write", "undo"},
           NEW S \in SUBSET Target, NEW new, new \in [S -> Cells], disk' = Overwrite(new)
    PROVE  /\ Behind(session, lost, disk', backup, since + ChunkSize)
           /\ Behind(session, lost, disk', Here(area), ChunkSize)
<1>1. /\ TypeOK /\ session # "none" /\ 0 < Remaining /\ Pending = ChunkSize
      /\ area \in Int /\ since \in Nat /\ backup = Here(backup.start) /\ backup.start \in Int
      /\ area = IF session = "encrypt" THEN backup.start - since ELSE backup.start + since
  BY TrailNumbers DEF Inv, TypeOK, Stepping, Pending, Running
<1>2. Behind(session, lost, disk, Here(backup.start), since + ChunkSize) /\ Behind(session, lost, disk, Here(area), ChunkSize)
  BY <1>1 DEF Trailing, Running
<1>3. Behind(session, lost, disk', Here(backup.start), since + ChunkSize)
  <2>1. PICK s : s = backup.start
    OBVIOUS
  <2>2. s \in Int /\ area = IF session = "encrypt" THEN s - since ELSE s + since
    BY <1>1, <2>1
  <2>3. Behind(session, lost, disk, Here(s), since + ChunkSize)
    BY <1>2, <2>1
  <2>4. Behind(session, lost, disk', Here(s), since + ChunkSize)
    BY <1>1, <2>2, <2>3, OverwriteBehind
  <2> QED BY <2>1, <2>4
<1>4. Behind(session, lost, disk', Here(area), ChunkSize)
  <2>1. PICK s, m : s = area /\ m = 0
    OBVIOUS
  <2>2. s \in Int /\ m \in Nat /\ area = (IF session = "encrypt" THEN s - m ELSE s + m)
    BY <1>1, <2>1
  <2>3. ChunkSize \in Nat
    BY <1>1, ChunkBounds
  <2>4. m + ChunkSize = ChunkSize
    BY <2>1, <2>3
  <2>5. Behind(session, lost, disk, Here(s), m + ChunkSize)
    BY <1>2, <2>1, <2>4
  <2>6. Behind(session, lost, disk', Here(s), m + ChunkSize)
    BY <1>1, <2>2, <2>5, OverwriteBehind
  <2> QED BY <2>1, <2>4, <2>6
<1> QED BY <1>1, <1>3, <1>4

(* No further than a chunk beyond what since may count.                       *)
LEMMA PartMost ==
    ASSUME Inv, Trailing, pc \in {"wipe", "write", "undo"}
    PROVE  since + ChunkSize \in Int /\ since + ChunkSize <= Most /\ ChunkSize \in Int /\ ChunkSize <= Most /\ Most \in Int
<1>1. /\ since \in Nat /\ since <= Interval - 1 /\ Interval \in Nat /\ Chunk \in Nat /\ Most = Interval - 1 + Chunk
      /\ 0 < Interval /\ session # "none" /\ 0 < Remaining /\ TypeOK
  BY TrailNumbers DEF Trailing, Running, Inv, TypeOK, Stepping
<1>2. ChunkSize \in Nat /\ ChunkSize <= Chunk
  BY <1>1, ChunkBounds
<1> QED BY <1>1, <1>2

LEMMA WipeBufferTrails ==
    ASSUME Inv, Trailing, Mendable, WipeBuffer
    PROVE  Trailing' /\ Mendable'
<1>1. /\ pc = "wipe" /\ disk' = Overwrite(JunkAt(Target)) /\ pc' = "write"
      /\ UNCHANGED <<backup, session, area, since, dirty, lost>>
  BY DEF WipeBuffer
<1>2. JunkAt(Target) \in [Target -> Cells]
  BY CellTypes DEF JunkAt
<1>3. Behind(session, lost, disk', backup, since + ChunkSize) /\ Behind(session, lost, disk', Here(area), ChunkSize)
  BY <1>1, <1>2, PartTrails
<1>4. Pending' = ChunkSize
  BY <1>1 DEF Pending, ChunkSize, Remaining, End
<1>5. Trailing'
  BY <1>1, <1>3, <1>4 DEF Trailing, Running, Here, Most
<1> QED BY <1>1, <1>5 DEF Mendable, Running, Here

LEMMA WriteChunkTrails ==
    ASSUME Inv, Inv', Trailing, Mendable, WriteChunk
    PROVE  Trailing' /\ Mendable'
<1>1. /\ pc = "write" /\ disk' = Overwrite(buf) /\ area' = NextArea /\ since' = since + ChunkSize /\ dirty'
      /\ UNCHANGED <<backup, session, lost>>
      /\ pc' = IF since' >= Interval THEN "save" ELSE AfterSave(Remaining <= Chunk)
  BY DEF WriteChunk, NextArea
<1>2. buf \in [Target -> Cells]
  BY <1>1 DEF Inv, TypeOK
<1>3. Behind(session, lost, disk', backup, since + ChunkSize)
  BY <1>1, <1>2, PartTrails
<1>4. /\ area \in Int /\ since \in Nat /\ backup.start \in Int /\ ChunkSize \in Int /\ since + ChunkSize <= Most
      /\ area = IF session = "encrypt" THEN backup.start - since ELSE backup.start + since
      /\ Interval \in Nat /\ since + ChunkSize \in Int
  BY <1>1, TrailNumbers, PartMost DEF Running
<1>5. area' = IF session = "encrypt" THEN backup.start - (since + ChunkSize) ELSE backup.start + (since + ChunkSize)
  BY <1>1, <1>4 DEF NextArea
<1>6. pc' \in {"save", "stop", "last", "chunk"} /\ (pc' = "save" \/ since' <= Interval - 1)
  <2>1. CASE since' >= Interval
    BY <1>1, <2>1
  <2>2. CASE ~(since' >= Interval)
    <3>1. since' <= Interval - 1
      BY <1>1, <1>4, <2>2
    <3> QED BY <1>1, <2>2, <3>1 DEF AfterSave
  <2> QED BY <2>1, <2>2
<1>7. Intact(lost', disk', Here(area'))
  BY <1>6, IntactNext
<1>8. Pending' = 0 /\ since' + 0 = since'
  BY <1>1, <1>4, <1>6 DEF Pending
<1>9. Trailing'
  <2>1. area' = IF session' = "encrypt" THEN backup'.start - since' ELSE backup'.start + since'
    BY <1>1, <1>5
  <2>2. since' <= (IF pc' = "save" THEN Most ELSE Interval - 1)
    BY <1>1, <1>4, <1>6
  <2>3. Behind(session', lost', disk', backup', since' + Pending') /\ Behind(session', lost', disk', Here(area'), Pending')
    <3>1. since' + Pending' = since + ChunkSize
      BY <1>1, <1>8
    <3> QED BY <1>1, <1>3, <1>7, <3>1, IntactBehind
  <2> QED BY <1>6, <2>1, <2>2, <2>3 DEF Trailing, Here, Most
<1> QED BY <1>1, <1>6, <1>9 DEF Mendable

(* What an interrupted write leaves.                                          *)
LEMMA InterruptedTrails ==
    ASSUME Inv, Trailing, pc \in {"wipe", "write"}, NEW n \in 0 .. ChunkSize, Interrupted(n)
    PROVE  /\ Behind(session, lost, disk', backup, since + ChunkSize)
           /\ Behind(session, lost, disk', Here(area), ChunkSize)
<1>1. PICK S \in SUBSET Target : \E new \in [S -> Cells] : disk' = Overwrite(new)
  BY InterruptedWrite DEF Inv
<1>2. PICK new \in [S -> Cells] : disk' = Overwrite(new)
  BY <1>1
<1> QED BY <1>2, PartTrails

(* The run of an encryption goes on to undo the write.                        *)
LEMMA WriteFailsTrails ==
    ASSUME Inv, Trailing, Mendable, WriteFails
    PROVE  Trailing' /\ Mendable'
<1>1. /\ pc \in {"wipe", "write"} /\ faults' = faults + 1 /\ pc' = IF session = "encrypt" THEN "undo" ELSE "close"
      /\ UNCHANGED <<backup, session, area, buf, since, dirty, lost>>
  BY DEF WriteFails, Fault
<1>2. PICK n \in 0 .. ChunkSize : Interrupted(n)
  BY DEF WriteFails
<1>3. Behind(session, lost, disk', backup, since + ChunkSize) /\ Behind(session, lost, disk', Here(area), ChunkSize)
  BY <1>1, <1>2, InterruptedTrails
<1>4. CASE session = "encrypt"
  <2>1. pc' = "undo" /\ Pending' = ChunkSize
    BY <1>1, <1>4 DEF Pending, ChunkSize, Remaining, End
  <2>2. Trailing'
    BY <1>1, <1>3, <2>1 DEF Trailing, Running, Here, Most
  <2>3. \A k \in Moving \ lost : Moved(k)
    BY <1>1, <1>4 DEF Inv, DataInv, InBuffer, Moving
  <2>4. Moving' = Moving /\ NextArea' = NextArea
    BY <1>1 DEF Moving, NextArea, Target, First, ChunkSize, Remaining, End, Fs
  <2>5. \A k \in Moving' \ lost' : Moved(k)'
    BY <1>1, <2>3, <2>4 DEF Moved, PlaceOf, Expected, Here
  <2>6. 0 < faults'
    BY <1>1 DEF Inv, TypeOK
  <2> QED BY <1>1, <2>1, <2>2, <2>5, <2>6 DEF Mendable, Running, Here
<1>5. CASE session # "encrypt"
  <2>1. Behind(session, lost, disk', backup, Most) /\ Behind(session, lost, disk', Here(area), Most)
    <3>1. backup.start \in Int /\ area \in Int
      BY <1>1, TrailNumbers DEF Running
    <3> QED BY <1>1, <1>3, <3>1, HereStart, PartMost, BehindMore
  <2>2. Trailing'
    BY <1>1, <1>5, <2>1 DEF Trailing, Running, Here, Most
  <2> QED BY <1>1, <1>5, <2>2 DEF Mendable, Running
<1> QED BY <1>4, <1>5

(* A run comes to its closing sequence.                                       *)
LEMMA CloseTrails ==
    ASSUME pc' = "close", UNCHANGED <<session, area, lost>>,
           Behind(session, lost, disk', backup', Most), Behind(session, lost, disk', Here(area), Most),
           session = "encrypt" /\ faults' <= 1 =>
              Intact(lost, disk', Here(area)) /\ (backup' = Here(area) \/ (dirty' /\ faults' = 1))
    PROVE  Trailing' /\ Mendable'
<1>1. Trailing'
  BY DEF Trailing, Running, Here, Most
<1>2. Mendable'
  BY DEF Mendable, Running, Here
<1> QED BY <1>1, <1>2

(* A request that is not a part of a chunk has failed.                        *)
LEMMA FailTrails ==
    ASSUME Inv, Trailing, Mendable, pc \in {"save", "stop", "last", "primary", "reveal"}, Fault, pc' = "close",
           UNCHANGED <<backup, session, area, lost, dirty>>, Intact(lost, disk', Here(area)),
           disk' = disk \/ backup = Here(area), pc \in {"primary", "reveal"} => backup = Here(area)
    PROVE  Trailing' /\ Mendable'
<1>1. Behind(session, lost, disk', Here(area), Most)
  BY IntactBehind
<1>2. Behind(session, lost, disk', backup, Most)
  <2>1. CASE backup = Here(area)
    BY <1>1, <2>1
  <2>2. CASE backup # Here(area)
    <3>1. pc \in {"save", "stop", "last"} /\ disk' = disk
      BY <2>2
    <3>2. /\ since \in Int /\ since <= Most /\ Most \in Int /\ backup.start \in Int /\ since + 0 = since
          /\ Behind(session, lost, disk, backup, since)
      <4>1. /\ since \in Nat /\ Most \in Nat /\ backup.start \in Int /\ Interval \in Nat /\ Chunk \in Nat
            /\ Most = Interval - 1 + Chunk
        BY <3>1, TrailNumbers DEF Running
      <4>2. since <= (IF pc = "save" THEN Most ELSE Interval - 1) /\ Behind(session, lost, disk, backup, since + Pending)
        BY <3>1 DEF Trailing, Running
      <4>3. since <= Most
        BY <4>1, <4>2
      <4>4. Pending = 0 /\ since + 0 = since
        BY <3>1, <4>1 DEF Pending
      <4> QED BY <4>1, <4>2, <4>3, <4>4
    <3> QED BY <3>1, <3>2, BehindMore
  <2> QED BY <2>1, <2>2
<1>3. faults' <= 1 => faults' = 1
  BY DEF Inv, TypeOK, Fault
<1>4. session = "encrypt" => dirty \/ backup = Here(area)
  BY DEF Mendable, Running
<1> QED BY <1>1, <1>2, <1>3, <1>4, CloseTrails

(* The undo of a failed write puts back what the header looks for.            *)
LEMMA UndoRight ==
    ASSUME Inv, Trailing, Mendable, pc = "undo", NEW back, back = Target \ (area - Offset .. area - 1),
           NEW restored, restored = [p \in back |-> DecryptUnit(buf[p + Offset], p + Offset)],
           disk' = Overwrite(restored)
    PROVE  Intact(lost, disk', Here(area))
<1>1. /\ session = "encrypt" /\ 0 < Remaining /\ area \in Int /\ First \in Int /\ ChunkSize \in Nat /\ Offset \in Nat
      /\ Target = First .. First + ChunkSize - 1 /\ First + ChunkSize = area /\ Offset <= First
      /\ Moving = {k \in Fs : First <= k + Offset /\ k + Offset < area} /\ NextArea = First
      /\ Conceal \in Nat /\ Conceal <= Offset
  BY ChunkShape, Sizes DEF Inv, Stepping
<1>2. Behind(session, lost, disk, Here(area), ChunkSize)
  BY DEF Trailing, Running, Pending
<1> SUFFICES ASSUME NEW k \in Fs, k \notin lost PROVE Found(disk', Here(area), k)
  BY DEF Intact
<1>3. k \in Nat /\ k \in Positions /\ k + Offset \in Positions
  BY FsPositions
<1>4. \A p \in Positions : disk'[p] = IF p \in back THEN restored[p] ELSE disk[p]
  <2>1. DOMAIN restored = back
    OBVIOUS
  <2> QED BY <2>1 DEF Overwrite
<1>5. CASE area <= k + Offset
  <2>1. PlaceOf(Here(area), k) = k + Offset
    BY <1>5, FoundForms
  <2>2. k + Offset \notin back /\ k \notin area - ChunkSize .. area - Offset - 1
    BY <1>1, <1>3, <1>5
  <2>3. Found(disk, Here(area), k)
    BY <1>1, <1>2, <2>2, HereStart DEF Behind, Gap
  <2> QED BY <1>3, <1>4, <2>1, <2>2, <2>3 DEF Found
<1>6. CASE ~(area <= k + Offset) /\ First <= k
  <2>1. PlaceOf(Here(area), k) = k /\ Expected(Here(area), k) = Sector(k)
    <3>1. ~(k < Conceal)
      BY <1>1, <1>3, <1>6
    <3> QED BY <1>6, <3>1, FoundForms
  <2>2. k \in back
    BY <1>1, <1>3, <1>6
  <2>3. k \in Moving /\ First <= k + Offset
    BY <1>1, <1>3, <1>6
  <2>4. buf[k + Offset] = Cipher(k)
    <3>1. Moved(k)
      BY <2>3 DEF Mendable
    <3>2. PlaceOf(Here(NextArea), k) = k + Offset /\ Expected(Here(NextArea), k) = Cipher(k)
      BY <1>1, <2>3, FoundForms
    <3> QED BY <3>1, <3>2 DEF Moved
  <2>5. restored[k] = Sector(k)
    BY <2>2, <2>4, Forms
  <2> QED BY <1>3, <1>4, <2>1, <2>2, <2>5 DEF Found
<1>7. CASE ~(area <= k + Offset) /\ ~(First <= k)
  <2>1. PlaceOf(Here(area), k) = k
    BY <1>7, FoundForms
  <2>2. k \notin back /\ k \notin area - ChunkSize .. area - Offset - 1
    BY <1>1, <1>3, <1>7
  <2>3. Found(disk, Here(area), k)
    BY <1>1, <1>2, <2>2, HereStart DEF Behind, Gap
  <2> QED BY <1>3, <1>4, <2>1, <2>2, <2>3 DEF Found
<1> QED BY <1>5, <1>6, <1>7

LEMMA UndoTrails ==
    ASSUME Inv, Inv', Trailing, Mendable, Undo
    PROVE  Trailing' /\ Mendable'
<1>1. PICK back : back = Target \ (area - Offset .. area - 1)
  OBVIOUS
<1>2. PICK restored : restored = [p \in back |-> DecryptUnit(buf[p + Offset], p + Offset)]
  OBVIOUS
<1>3. /\ pc = "undo" /\ pc' = "close" /\ session = "encrypt" /\ UNCHANGED <<backup, session, area, lost, dirty>>
      /\ (disk' = Overwrite(restored) /\ UNCHANGED faults) \/ (Fault /\ UNCHANGED disk)
  BY <1>1, <1>2 DEF Undo, Inv, Stepping
<1>4. /\ dirty \/ backup = Here(area)
      /\ 0 < faults /\ faults \in Nat
      /\ backup.start \in Int /\ Here(area).start \in Int
  BY <1>3, TrailNumbers, HereStart DEF Mendable, Running, Inv, TypeOK
<1>5. CASE disk' = Overwrite(restored) /\ UNCHANGED faults
  <2>1. back \in SUBSET Target /\ back \subseteq Positions
    BY <1>1, <1>3, ChunkBounds DEF Inv, TypeOK, Stepping
  <2>2. restored \in [back -> Cells]
    <3>1. \A p \in back : restored[p] = disk'[p] /\ p \in Positions
      BY <1>2, <1>5, <2>1 DEF Overwrite
    <3>2. disk' \in [Positions -> Cells]
      BY DEF Inv, TypeOK
    <3>3. \A p \in back : restored[p] \in Cells
      BY <3>1, <3>2
    <3> QED BY <1>2, <3>3
  <2>3. Behind(session, lost, disk', backup, since + ChunkSize) /\ Behind(session, lost, disk', Here(area), ChunkSize)
    BY <1>3, <1>5, <2>1, <2>2, PartTrails
  <2>4. Behind(session, lost, disk', backup, Most) /\ Behind(session, lost, disk', Here(area), Most)
    BY <1>3, <1>4, <2>3, PartMost, BehindMore
  <2>5. Intact(lost, disk', Here(area))
    BY <1>1, <1>2, <1>3, <1>5, UndoRight
  <2>6. faults' <= 1 => faults' = 1
    BY <1>4, <1>5
  <2> QED BY <1>3, <1>4, <2>4, <2>5, <2>6, CloseTrails
<1>6. CASE Fault /\ UNCHANGED disk
  <2>1. Behind(session, lost, disk, backup, since + ChunkSize) /\ Behind(session, lost, disk, Here(area), ChunkSize)
    BY <1>3 DEF Trailing, Running, Pending
  <2>2. Behind(session, lost, disk, backup, Most) /\ Behind(session, lost, disk, Here(area), Most)
    BY <1>3, <1>4, <2>1, PartMost, BehindMore
  <2>3. ~(faults' <= 1)
    BY <1>4, <1>6 DEF Fault
  <2> QED BY <1>3, <1>6, <2>2, <2>3, CloseTrails
<1> QED BY <1>3, <1>5, <1>6

LEMMA SaveHeaderTrails ==
    ASSUME Inv, Inv', Trailing, Mendable, SaveHeader
    PROVE  Trailing' /\ Mendable'
<1>1. pc = "save" /\ UNCHANGED <<disk, session, area, dirty, lost>> /\ backup.present
  BY DEF SaveHeader, Inv, TypeOK
<1>2. CASE UpdateHeader /\ since' = 0 /\ pc' = AfterSave(Remaining = 0)
  <2>1. pc' \in {"stop", "last", "chunk"} /\ backup' = Here(area) /\ Intact(lost, disk, Here(area))
    BY <1>1, <1>2, HereOf, IntactHere DEF AfterSave, Inv
  <2>2. Pending' = 0 /\ backup'.start = area
    BY <2>1, HereStart DEF Pending
  <2>3. area \in Int /\ 0 <= Interval - 1
    BY <1>1, TrailNumbers DEF Running
  <2>4. Trailing'
    <3>1. area' = IF session' = "encrypt" THEN backup'.start - since' ELSE backup'.start + since'
      <4>1. \A a \in Int : a - 0 = a /\ a + 0 = a
        OBVIOUS
      <4> QED BY <1>1, <1>2, <2>2, <2>3, <4>1
    <3>2. since' <= (IF pc' = "save" THEN Most ELSE Interval - 1)
      BY <1>2, <2>1, <2>3
    <3>3. Behind(session', lost', disk', backup', since' + Pending') /\ Behind(session', lost', disk', Here(area'), Pending')
      BY <1>1, <2>1, IntactBehind
    <3> QED BY <2>1, <3>1, <3>2, <3>3 DEF Trailing, Here, Most
  <2> QED BY <1>1, <2>1, <2>4 DEF Mendable, Here
<1>3. CASE Fault /\ pc' = "close" /\ UNCHANGED <<backup, since>>
  BY <1>1, <1>3, IntactHere, FailTrails
<1> QED BY <1>2, <1>3 DEF SaveHeader

LEMMA LastSaveTrails ==
    ASSUME Inv, Inv', Trailing, Mendable, LastSave
    PROVE  Trailing' /\ Mendable'
<1>1. pc \in {"stop", "last"} /\ UNCHANGED <<disk, session, area, lost>> /\ backup.present
  BY DEF LastSave, Inv, TypeOK
<1>2. CASE /\ UpdateHeader
           /\ pc' = IF pc = "last" /\ session = "encrypt" THEN "primary"
                    ELSE IF pc = "last" THEN "reveal" ELSE "close"
  <2>1. pc' \in {"primary", "reveal", "close"} /\ backup' = Here(area) /\ Intact(lost, disk, Here(area))
    BY <1>1, <1>2, HereOf, IntactHere DEF Inv
  <2>2. CASE pc' = "close"
    BY <1>1, <2>1, <2>2, IntactBehind, CloseTrails
  <2>3. CASE pc' # "close"
    BY <2>1, <2>3 DEF Trailing, Mendable, Running
  <2> QED BY <2>2, <2>3
<1>3. CASE Fault /\ pc' = "close" /\ UNCHANGED <<backup, dirty>>
  BY <1>1, <1>3, IntactHere, FailTrails
<1> QED BY <1>2, <1>3 DEF LastSave

LEMMA WritePrimaryTrails ==
    ASSUME Inv, Trailing, Mendable, WritePrimary
    PROVE  Trailing' /\ Mendable'
<1>1. /\ pc = "primary" /\ pc' = "close" /\ disk' = Overwrite(JunkAt(0 .. Offset - 1))
      /\ UNCHANGED <<backup, session, area, lost, dirty>> /\ (UNCHANGED faults \/ Fault)
  BY DEF WritePrimary
<1>2. area = Offset /\ backup = Here(area) /\ Intact(lost, disk, Here(area))
  BY <1>1, IntactHere DEF Inv, DataInv
<1>3. Intact(lost, disk', Here(area))
  <2> SUFFICES ASSUME NEW k \in Fs, k \notin lost PROVE Found(disk', Here(area), k)
    BY DEF Intact
  <2>1. disk[k + Offset] = Cipher(k) /\ k + Offset \in Positions /\ k + Offset \notin 0 .. Offset - 1
    BY <1>2, FoundAtEnds, FsPositions, Sizes DEF Intact
  <2>2. disk'[k + Offset] = disk[k + Offset]
    BY <1>1, <2>1 DEF Overwrite, JunkAt
  <2> QED BY <1>2, <2>1, <2>2, FoundAtEnds
<1> QED BY <1>1, <1>2, <1>3, IntactBehind, CloseTrails

LEMMA RevealTrails ==
    ASSUME Inv, Trailing, Mendable, Reveal
    PROVE  Trailing' /\ Mendable'
<1>1. pc = "reveal" /\ UNCHANGED <<backup, session, area, lost, dirty>>
  BY DEF Reveal
<1>2. backup = Here(area) /\ Intact(lost, disk, Here(area))
  BY <1>1, IntactHere DEF Inv, DataInv
<1>3. CASE pc' = "erase"
  BY <1>3 DEF Trailing, Mendable, Running
<1>4. CASE Fault /\ pc' = "close" /\ UNCHANGED disk
  BY <1>1, <1>2, <1>4, FailTrails
<1> QED BY <1>3, <1>4 DEF Reveal

LEMMA TrailStep ==
    ASSUME Inv, Inv', Trailing, Mendable, [Next]_vars
    PROVE  Trailing' /\ Mendable'
<1>1. CASE (\E w \in BOOLEAN : Begin(w) \/ \E mode \in {"encrypt", "decrypt"} : Resume(mode, w)) \/ BeginConceal \/ Exit
  BY <1>1, RestTrails
<1>2. CASE Pause \/ UNCHANGED vars
  BY <1>2, StillTrails DEF Pause, vars
<1>3. CASE Crash \/ BeginFails \/ Erase \/ Close
  BY <1>3, ForgetTrails DEF Crash, BeginFails, Erase, Close
<1>4. CASE Open
  BY <1>4, OpenTrails
<1>5. CASE ReadChunk \/ ReadFails
  BY <1>5, ReadChunkTrails, ReadFailsTrails
<1>6. CASE WipeBuffer \/ WriteChunk \/ WriteFails
  BY <1>6, WipeBufferTrails, WriteChunkTrails, WriteFailsTrails
<1>7. CASE Undo \/ SaveHeader \/ LastSave \/ WritePrimary \/ Reveal
  BY <1>7, UndoTrails, SaveHeaderTrails, LastSaveTrails, WritePrimaryTrails, RevealTrails
<1> QED BY <1>1, <1>2, <1>3, <1>4, <1>5, <1>6, <1>7 DEF Next, Work

LEMMA TrailInvariance == AlignedSize /\ Spec => [](Inv /\ Trailing /\ Mendable)
<1>1. Init => Trailing /\ Mendable
  BY DEF Init, Trailing, Mendable, Running
<1>2. Inv /\ Inv' /\ Trailing /\ Mendable /\ [Next]_vars => Trailing' /\ Mendable'
  BY TrailStep
<1> QED BY <1>1, <1>2, Invariance, PTL DEF Spec

----------------------------------------------------------------------------
(* Counting what is lost *)

Loss == (lost' \ lost) \ (0 .. Conceal - 1)

LEMMA LossInRange ==
    ASSUME NEW x \in Int, NEW y \in Int, y + 1 - x <= Most - Offset, Loss \subseteq x .. y
    PROVE  Cardinality(Loss) <= Interval - 1 + Chunk - Offset
<1>1. IsFiniteSet(x .. y) /\ Cardinality(x .. y) = IF x > y THEN 0 ELSE y - x + 1
  BY FS_Interval
<1>2. IsFiniteSet(Loss) /\ Cardinality(Loss) <= Cardinality(x .. y)
  <2>1. Loss \in SUBSET (x .. y)
    OBVIOUS
  <2> QED BY <1>1, <2>1, FS_Subset
<1>3. Cardinality(Loss) \in Nat
  BY <1>2, FS_CardinalityType
<1>4. /\ Interval \in Nat /\ Chunk \in Nat /\ Offset \in Nat /\ Offset < Chunk /\ 0 < Interval
      /\ Most - Offset = Interval - 1 + Chunk - Offset /\ 0 <= Most - Offset
  BY SizesAssumption DEF Most
<1>5. Cardinality(x .. y) <= Most - Offset
  BY <1>1, <1>4
<1> QED BY <1>1, <1>2, <1>3, <1>4, <1>5

LEMMA NoLoss == ASSUME lost' = lost PROVE Cardinality(Loss) <= Interval - 1 + Chunk - Offset
<1>1. Loss \subseteq 1 .. 0
  BY DEF Loss
<1>2. 0 + 1 - 1 <= Most - Offset
  BY SizesAssumption DEF Most
<1> QED BY <1>1, <1>2, LossInRange

(* What is in the gap when a run ends is what it costs.                       *)
LEMMA ForgetLoss ==
    ASSUME Inv', Forget,
           \A k \in Fs \ lost : k < Conceal \/ Found(disk', backup', k) \/ k \in Gap(session, backup', Most)
    PROVE  Cardinality(Loss) <= Interval - 1 + Chunk - Offset
<1>1. \A k \in Loss : k \in Gap(session, backup', Most)
  <2> SUFFICES ASSUME NEW k \in Loss PROVE k \in Gap(session, backup', Most)
    OBVIOUS
  <2>1. k \in Fs \ lost /\ ~Found(disk', backup', k) /\ k \notin 0 .. Conceal - 1
    BY DEF Loss, Forget
  <2>2. ~(k < Conceal)
    BY <2>1, FsPositions, Sizes
  <2> QED BY <2>1, <2>2
<1>2. PICK s : s = backup'.start
  OBVIOUS
<1>3. s \in Int /\ Offset \in Nat /\ Most \in Int
  BY <1>2, SizesAssumption DEF Inv, TypeOK, Most, End
<1>4. CASE session = "encrypt"
  <2>1. Loss \subseteq s - Most .. s - Offset - 1
    BY <1>1, <1>2, <1>4 DEF Gap
  <2>2. s - Offset - 1 + 1 - (s - Most) <= Most - Offset /\ s - Most \in Int /\ s - Offset - 1 \in Int
    BY <1>3
  <2> QED BY <2>1, <2>2, LossInRange
<1>5. CASE session # "encrypt"
  <2>1. Loss \subseteq s - Offset .. s - Offset + Most - Offset - 1
    BY <1>1, <1>2, <1>5 DEF Gap
  <2>2. /\ s - Offset + Most - Offset - 1 + 1 - (s - Offset) <= Most - Offset
        /\ s - Offset \in Int /\ s - Offset + Most - Offset - 1 \in Int
    BY <1>3
  <2> QED BY <2>1, <2>2, LossInRange
<1> QED BY <1>4, <1>5

(* With nothing to be done about it, a run may end at any step.               *)
LEMMA CrashBehind ==
    ASSUME Inv, Trailing, Crash
    PROVE  \A k \in Fs \ lost : k < Conceal \/ Found(disk', backup', k) \/ k \in Gap(session, backup', Most)
<1>1. backup' = backup
  BY DEF Crash
<1>2. CASE pc \in {"wipe", "write"}
  <2>1. PICK n \in 0 .. ChunkSize : Interrupted(n)
    BY <1>2 DEF Crash
  <2>2. Behind(session, lost, disk', backup, since + ChunkSize)
    BY <1>2, <2>1, InterruptedTrails
  <2>3. backup.start \in Int
    BY <1>2, TrailNumbers DEF Running
  <2>4. Behind(session, lost, disk', backup, Most)
    BY <1>2, <2>2, <2>3, PartMost, BehindMore
  <2> QED BY <1>1, <2>4 DEF Behind
<1>3. CASE pc = "undo"
  <2>1. disk' = disk /\ backup.start \in Int /\ Behind(session, lost, disk, backup, since + ChunkSize)
    BY <1>3, TrailNumbers DEF Crash, Trailing, Running, Pending
  <2>2. Behind(session, lost, disk', backup, Most)
    BY <1>3, <2>1, PartMost, BehindMore
  <2> QED BY <1>1, <2>2 DEF Behind
<1>4. CASE pc \in {"chunk", "save", "stop", "last"}
  <2>1. disk' = disk /\ Behind(session, lost, disk, backup, since + Pending) /\ Pending = 0
    BY <1>4 DEF Crash, Trailing, Running, Pending
  <2>2. /\ since \in Nat /\ Most \in Nat /\ backup.start \in Int /\ Interval \in Nat /\ Chunk \in Nat
        /\ Most = Interval - 1 + Chunk
    BY <1>4, TrailNumbers DEF Running
  <2>3. since <= (IF pc = "save" THEN Most ELSE Interval - 1)
    BY <1>4 DEF Trailing, Running
  <2>4. since + Pending <= Most /\ since + Pending \in Int
    BY <2>1, <2>2, <2>3
  <2>5. Behind(session, lost, disk', backup, Most)
    BY <2>1, <2>2, <2>4, BehindMore
  <2> QED BY <1>1, <2>5 DEF Behind
<1>5. CASE pc \in {"open", "primary", "reveal"}
  <2>1. disk' = disk /\ Placed(backup)
    BY <1>5 DEF Crash, Inv, DataInv
  <2> QED BY <1>1, <2>1 DEF Placed
<1>6. CASE pc \in {"conceal", "erase"}
  <2>1. disk' = disk /\ backup = Here(End) /\ InClear
    BY <1>6 DEF Crash, Inv, DataInv
  <2> QED BY <1>1, <2>1, FoundAtEnds DEF InClear
<1>7. CASE pc = "close"
  <2>1. disk' = disk /\ Behind(session, lost, disk, backup, Most)
    BY <1>7 DEF Crash, Trailing
  <2> QED BY <1>1, <2>1 DEF Behind
<1> QED BY <1>2, <1>3, <1>4, <1>5, <1>6, <1>7 DEF Crash, Inv, TypeOK, Steps

LEMMA LossStep ==
    ASSUME Inv, Inv', Trailing, Next, pc # "idle"
    PROVE  Cardinality(Loss) <= Interval - 1 + Chunk - Offset
<1>1. CASE Crash
  BY <1>1, CrashBehind, ForgetLoss DEF Crash
<1>2. CASE BeginFails
  <2>1. Forget /\ disk' = disk /\ backup' = Here(End) /\ InClear
    BY <1>2 DEF BeginFails, Inv, DataInv
  <2> QED BY <2>1, FoundAtEnds, ForgetLoss DEF InClear
<1>3. CASE Open /\ Forget
  <2>1. disk' = disk /\ backup' = backup /\ Placed(backup)
    BY <1>3 DEF Open, Inv, DataInv
  <2> QED BY <1>3, <2>1, ForgetLoss DEF Placed
<1>4. CASE Erase
  <2>1. /\ pc = "erase" /\ disk' = Overwrite(JunkAt(FsSize .. End - 1)) /\ Forget
        /\ backup = Here(End) /\ InClear /\ backup' \in {backup, NoBackup}
    BY <1>4 DEF Erase, Inv, DataInv
  <2>2. \A k \in Fs \ lost : disk'[k] = Sector(k)
    <3> TAKE k \in Fs \ lost
    <3>1. disk[k] = Sector(k) /\ k \in Positions /\ k \notin FsSize .. End - 1
      BY <2>1, FsPositions, Sizes DEF InClear
    <3> QED BY <2>1, <3>1 DEF Overwrite, JunkAt
  <2> QED BY <2>1, <2>2, FoundAtEnds, ForgetLoss
<1>5. CASE Close
  <2>1. pc = "close" /\ Forget /\ disk' = disk /\ backup.present /\ (UpdateHeader \/ UNCHANGED backup)
    BY <1>5 DEF Close, Inv, TypeOK
  <2>2. backup' = Here(area) \/ backup' = backup
    BY <2>1, HereOf DEF Inv
  <2>3. Behind(session, lost, disk, backup, Most) /\ Behind(session, lost, disk, Here(area), Most)
    BY <2>1 DEF Trailing
  <2> QED BY <2>1, <2>2, <2>3, ForgetLoss DEF Behind
<1>6. CASE ReadFails
  <2>1. CASE lost' = lost
    BY <2>1, NoLoss
  <2>2. ASSUME NEW q \in Source, lost' = lost \cup {IF session = "encrypt" THEN q ELSE q - Offset}
        PROVE  Cardinality(Loss) <= Interval - 1 + Chunk - Offset
    <3>1. PICK bad : bad = IF session = "encrypt" THEN q ELSE q - Offset
      OBVIOUS
    <3>2. bad \in Int
      <4>1. session # "none" /\ 0 < Remaining
        BY <1>6 DEF ReadFails, Inv, TypeOK, Stepping
      <4> QED BY <3>1, <4>1, SourceBounds, FsPositions DEF Inv
    <3>3. Loss \subseteq bad .. bad
      BY <2>2, <3>1, <3>2 DEF Loss
    <3>4. bad + 1 - bad <= Most - Offset
      BY <3>2, SizesAssumption DEF Most
    <3> QED BY <3>2, <3>3, <3>4, LossInRange
  <2> QED BY <1>6, <2>1, <2>2 DEF ReadFails
<1>7. CASE \/ BeginConceal \/ (Open /\ ~Forget) \/ ReadChunk \/ WipeBuffer \/ WriteChunk \/ WriteFails
           \/ Undo \/ SaveHeader \/ LastSave \/ WritePrimary \/ Reveal \/ Pause
  <2>1. lost' = lost
    BY <1>7 DEF BeginConceal, Open, ReadChunk, WipeBuffer, WriteChunk, WriteFails, Undo, SaveHeader, LastSave,
                WritePrimary, Reveal, Pause
  <2> QED BY <2>1, NoLoss
<1> QED BY <1>1, <1>2, <1>3, <1>4, <1>5, <1>6, <1>7 DEF Next, Work, Begin, Resume, Exit

(* A run that ends early, whatever fails, costs no more than what was moved   *)
(* since the header was last written and the chunk in progress, less the      *)
(* distance by which it is moved: FastVolumeHeaderUpdate is called when       *)
(* lastHeaderUpdateDistance reaches                                           *)
(* TC_NONSYS_INPLACE_ENC_HEADER_UPDATE_INTERVAL.                              *)
THEOREM LossIsBounded == AlignedSize /\ Spec => LossBounded
<1>1. Inv /\ Inv' /\ Trailing /\ [Next]_vars =>
          [pc # "idle" => Cardinality((lost' \ lost) \ (0 .. Conceal - 1)) <= Interval - 1 + Chunk - Offset]_vars
  BY LossStep DEF Loss
<1> QED BY <1>1, TrailInvariance, PTL DEF Spec, LossBounded

(* One fault of the device during an encryption costs nothing but the sector  *)
(* that could not be read: a failed write is undone from the buffer, a header *)
(* update that failed is repeated in the closing sequence of                  *)
(* EncryptPartitionInPlaceResume.                                             *)
THEOREM FaultIsUndone == AlignedSize /\ Spec => EncryptionUndoesFault
<1>1. ASSUME Inv, Mendable, Next, pc = "close", pc' = "idle", session = "encrypt", faults' <= 1, crashes' = crashes
      PROVE  lost' \subseteq lost
  <2>1. Close
    <3>1. ~Crash
      BY <1>1 DEF Crash, Inv, TypeOK
    <3> QED BY <1>1, <3>1 DEF Next, Work, Begin, Resume, Pause, Exit, BeginConceal, BeginFails, Open, ReadChunk, ReadFails,
               WipeBuffer, WriteChunk, WriteFails, Undo, SaveHeader, LastSave, WritePrimary, Reveal, Erase
  <2>2. /\ Forget /\ disk' = disk /\ backup.present /\ faults \in Nat
        /\ \/ (IF dirty THEN UpdateHeader ELSE UNCHANGED backup) /\ UNCHANGED faults
           \/ dirty /\ faults' = faults + 1 /\ UNCHANGED backup
    BY <1>1, <2>1 DEF Close, Fault, Inv, TypeOK
  <2>3. Intact(lost, disk, Here(area)) /\ (backup = Here(area) \/ (dirty /\ faults = 1))
    BY <1>1, <2>2 DEF Mendable
  <2>4. backup' = Here(area)
    <3>1. CASE (IF dirty THEN UpdateHeader ELSE UNCHANGED backup) /\ UNCHANGED faults
      BY <1>1, <2>2, <2>3, <3>1, HereOf DEF Inv
    <3>2. CASE dirty /\ faults' = faults + 1 /\ UNCHANGED backup
      BY <1>1, <2>2, <2>3, <3>2
    <3> QED BY <2>2, <3>1, <3>2
  <2> QED BY <1>1, <2>2, <2>3, <2>4 DEF Intact, Forget, Inv, TypeOK
<1>2. Inv /\ Mendable /\ [Next]_vars =>
          [pc = "close" /\ pc' = "idle" /\ session = "encrypt" /\ faults' <= 1 /\ crashes' = crashes => lost' \subseteq lost]_vars
  BY <1>1
<1> QED BY <1>2, TrailInvariance, PTL DEF Spec, EncryptionUndoesFault
=============================================================================
