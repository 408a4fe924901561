----------------------- MODULE SystemEncryption_proof -----------------------
(* The inductive invariant of SystemEncryption: what the disk and the buffer  *)
(* hold at each step of the setup thread, where its offset is with respect to *)
(* EncryptedAreaEnd, and when the header describes the area.  It implies      *)
(* SeesItsData, CleanRestartLosesNothing and SuccessIsRecorded.  A second     *)
(* part, Lagging, says how far the header may be behind the area; with it a   *)
(* count of the sectors a power failure costs gives CrashLossBounded.         *)
EXTENDS SystemEncryption, FiniteSetTheorems, TLAPS

Modes   == {"encrypt", "decrypt"}
Results == {"none", "success", "failed"}
Keys    == {"open", "closed", "erased"}

DriveFields ==
    [mounted : BOOLEAN, start : {-1, ConfiguredStart}, end : -1 .. ConfiguredEnd, confStart : {-1, ConfiguredStart},
     confEnd : {-1, ConfiguredEnd}, headerKey : Keys, dataKey : Keys, suspended : BOOLEAN, blocked : BOOLEAN]

SetupFields(buf) ==
    [pc : Steps, thread : BOOLEAN, mode : Modes, wipe : Nat, skip : BOOLEAN, offset : Nat, size : Nat,
     buf : {buf}, pass : Nat, dirty : BOOLEAN, since : Nat, result : Results, abort : BOOLEAN]

CountFields == [faults : Nat, crashes : Nat, starts : Nat, writes : Nat, saveFailed : BOOLEAN]

Fields ==
    /\ disk \in [Sectors -> Cells] /\ stored \in [Sectors -> Nat] /\ lost \in [Sectors -> Reasons]
    /\ header \in [present : BOOLEAN, length : 0 .. (ConfiguredEnd + 1 - ConfiguredStart)]
    /\ drive \in DriveFields /\ setup \in SetupFields(setup.buf)
    /\ system \in [power : {"on", "shutdown"}, busy : BOOLEAN, request : {"none", "abort"}]
    /\ count \in CountFields

(* The thread is known to the request that waits for it, and a shutdown waits. *)
Control ==
    /\ InProgress => setup.thread
    /\ system.power = "shutdown" /\ system.request = "none" => ~InProgress
    /\ InProgress /\ setup.pc # "ret" => drive.mounted

(* Between two blocks, and within one. *)
Between == {"loop", "save"}
Within  == {"hold", "read", "wipe", "write", "undo", "moveEnd"}
Held    == {"read", "wipe", "write", "undo", "moveEnd"}

(* The first sector after the encrypted area. *)
AreaNext == IF drive.end = -1 THEN ConfiguredStart ELSE drive.end + 1

Positions ==
    /\ drive.end = -1 \/ (drive.start = ConfiguredStart /\ ConfiguredStart - 1 <= drive.end)
    /\ setup.pc \in Between \cup Within => drive.start = ConfiguredStart
    /\ setup.pc \in Between \cup Within \cup {"begin", "firstHold"} => setup.size > 0
    /\ setup.pc \in Between => setup.offset = AreaNext
    /\ setup.pc \in Within =>
          IF setup.mode = "encrypt"
          THEN setup.offset = AreaNext /\ setup.offset + setup.size - 1 <= ConfiguredEnd
          ELSE drive.end # -1 /\ setup.offset + setup.size = drive.end + 1 /\ ConfiguredStart <= setup.offset
    /\ setup.pc \in Held => drive.suspended

(* The configured area, until a decryption forgets it. *)
Configured ==
    \/ drive.confStart = ConfiguredStart /\ drive.confEnd = ConfiguredEnd
    \/ /\ drive.confStart = -1 /\ drive.confEnd = -1
       /\ drive.mounted => setup.pc \in {"lastSave", "dismount"} /\ setup.mode = "decrypt"

(* A sector that is not given up holds its data as the area says, but for the *)
(* block that is being transformed: that one is in the buffer.                *)
Kept(s)     == disk[s] = Form(s, Area)
New(s)      == Cell(stored[s], IF setup.mode = "encrypt" THEN 1 ELSE 0)
Old(s)      == Cell(stored[s], IF setup.mode = "encrypt" THEN 0 ELSE 1)
Busy        == {"wipe", "write", "undo", "moveEnd"}
Data ==
    \A s \in Sectors : lost[s] = "no" =>
        /\ (setup.pc \in Busy /\ s \in Block) \/ Kept(s)
        /\ setup.pc \in {"wipe", "write"} /\ s \in Block => setup.buf[s] \in {Junk, New(s)}
        /\ setup.pc = "undo" /\ s \in Block => setup.buf[s] \in {Junk, Old(s)}
        /\ setup.pc = "moveEnd" /\ s \in Block => disk[s] = New(s)
Buffer == setup.pc \in Busy => setup.buf \in [Block -> Cells]

(* What the header says, unless there is something to save or a save failed. *)
Synced == AreaOf(StartDrive(header)) = Area
Recorded ==
    /\ setup.pc \in {"begin"} => ~setup.dirty
    /\ setup.pc = "save" => setup.dirty
    /\ setup.dirty /\ setup.mode = "encrypt" => ~AreaEmpty
    /\ setup.pc = "lastHold" => setup.mode = "decrypt" /\ AreaEmpty
    /\ setup.pc \in {"lastSave", "dismount"} /\ setup.mode = "decrypt" => ~AreaEmpty \/ drive.confEnd = -1
    /\ ~count.saveFailed /\ (~setup.dirty \/ setup.pc \in {"dismount", "ret", "exited"}) => Synced
    /\ ~count.saveFailed /\ ~drive.mounted => ~header.present
    /\ ~count.saveFailed /\ ~header.present /\ drive.mounted =>
          /\ setup.mode = "decrypt" /\ AreaEmpty
          /\ setup.pc \in {"loop", "finish", "lastHold", "lastSave", "dismount"}
    /\ drive.mounted /\ drive.confEnd = -1 =>
          /\ AreaEmpty
          /\ setup.pc = "lastSave" => setup.dirty
          /\ setup.pc = "dismount" /\ ~count.saveFailed => ~header.present

Inv == Fields /\ Control /\ Positions /\ Configured /\ Data /\ Buffer /\ Recorded /\ CleanRestartLosesNothing

----------------------------------------------------------------------------
(* Lemmas about the operators *)

LEMMA Sizes ==
    /\ DiskLength \in Nat /\ ConfiguredStart \in Nat /\ ConfiguredEnd \in Nat /\ BlockSize \in Nat
    /\ 0 < BlockSize /\ ConfiguredStart <= ConfiguredEnd /\ ConfiguredEnd < DiskLength
    /\ WrittenSectors \subseteq Sectors /\ WipePasses \subseteq Nat /\ UpdateThreshold \in Nat
    /\ InitialLengths \subseteq 0 .. (ConfiguredEnd + 1 - ConfiguredStart)
    /\ MaxFaults \in Nat /\ MaxCrashes \in Nat /\ MaxStarts \in Nat /\ MaxWrites \in Nat
BY SetupAssumption DEF Sectors

LEMMA CellTypes ==
    /\ Junk \in Cells
    /\ \A v, n \in Int : Cell(v, n) \in Cells /\ Cell(v, n).data = v /\ Cell(v, n).layers = n
    /\ \A v \in Nat, n \in Int : Cell(v, n) # Junk
BY DEF Cell, Junk, Cells

LEMMA StartFields ==
    ASSUME NEW h \in [present : BOOLEAN, length : 0 .. (ConfiguredEnd + 1 - ConfiguredStart)]
    PROVE  LET d == StartDrive(h)
           IN /\ d \in DriveFields /\ (d.mounted <=> h.present) /\ d.suspended = FALSE
              /\ \/ d.start = -1 /\ d.end = -1
                 \/ d.start = ConfiguredStart /\ d.end = ConfiguredStart + h.length - 1 /\ ConfiguredStart <= d.end
              /\ IF h.present THEN d.confStart = ConfiguredStart /\ d.confEnd = ConfiguredEnd
                 ELSE d.confStart = -1 /\ d.confEnd = -1
              /\ h.present /\ h.length # 0 => d.start = ConfiguredStart
<1>1. CASE h.present
  <2>1. h.length \in Nat /\ h.length <= ConfiguredEnd + 1 - ConfiguredStart
    BY Sizes
  <2>2. CASE h.length = 0
    BY <1>1, <2>2, Sizes DEF StartDrive, MountDrive, DriveFields, Keys
  <2>3. CASE h.length # 0
    <3>1. ConfiguredStart + h.length - 1 \in -1 .. ConfiguredEnd /\ ConfiguredStart <= ConfiguredStart + h.length - 1
      BY <2>1, <2>3, Sizes
    <3>. QED  BY <1>1, <2>3, <3>1, Sizes DEF StartDrive, MountDrive, DriveFields, Keys
  <2>. QED  BY <2>2, <2>3
<1>2. CASE ~h.present
  <2>1. h.present = FALSE /\ -1 \in -1 .. ConfiguredEnd
    BY <1>2, Sizes
  <2>2. StartDrive(h) = Unmounted
    BY <2>1 DEF StartDrive
  <2>3. Unmounted \in DriveFields
    BY <2>1, Sizes DEF Unmounted, DriveFields, Keys
  <2>. QED  BY <2>1, <2>2, <2>3 DEF Unmounted
<1>. QED  BY <1>1, <1>2

LEMMA TransformCells ==
    ASSUME NEW S, NEW b \in [S -> Cells], NEW n \in Int
    PROVE  /\ Transform(b, n) \in [S -> Cells]
           /\ \A s \in S : Transform(b, n)[s] \in {Junk, Cell(b[s].data, b[s].layers + n)}
           /\ \A s \in S : b[s] = Junk => Transform(b, n)[s] = Junk
<1>1. \A s \in S : b[s] \in Cells /\ b[s].data \in Int /\ b[s].layers + n \in Int
  BY DEF Cells
<1>2. DOMAIN b = S
  OBVIOUS
<1>. QED  BY <1>1, <1>2, CellTypes DEF Transform

LEMMA OverwriteCells ==
    ASSUME disk \in [Sectors -> Cells], NEW W, NEW new, \A s \in W : new[s] \in Cells
    PROVE  /\ Overwrite(W, new) \in [Sectors -> Cells]
           /\ \A s \in Sectors : Overwrite(W, new)[s] = IF s \in W THEN new[s] ELSE disk[s]
BY DEF Overwrite

(* What is given up stays so, and only what is given up changes.              *)
LEMMA GiveUpReasons ==
    ASSUME lost \in [Sectors -> Reasons], NEW S, NEW why \in Reasons, lost' = GiveUp(S, why)
    PROVE  /\ lost' \in [Sectors -> Reasons]
           /\ \A s \in Sectors : lost'[s] = "no" => lost[s] = "no" /\ (s \notin S \/ why = "no")
           /\ \A s \in Sectors : lost'[s] = why \/ lost'[s] = lost[s]
           /\ \A s \in Sectors : lost[s] # "no" \/ s \notin S => lost'[s] = lost[s]
BY DEF GiveUp, Reasons

(* The block in progress is in the configured area, and on one side of        *)
(* EncryptedAreaEnd.                                                          *)
LEMMA BlockPlace ==
    ASSUME Fields, Positions, setup.pc \in Within
    PROVE  /\ setup.size > 0 /\ Block \subseteq ConfiguredStart .. ConfiguredEnd /\ Block \subseteq Sectors
           /\ \A s \in Block : s \in Area <=> setup.mode = "decrypt"
<1>1. /\ setup.offset \in Nat /\ setup.size \in Nat /\ setup.mode \in Modes /\ drive.end \in -1 .. ConfiguredEnd
      /\ drive.start \in {-1, ConfiguredStart}
  BY DEF Fields, SetupFields, DriveFields
<1>2. /\ drive.start = ConfiguredStart /\ setup.size > 0
      /\ drive.end = -1 \/ ConfiguredStart - 1 <= drive.end
      /\ IF setup.mode = "encrypt"
         THEN setup.offset = AreaNext /\ setup.offset + setup.size - 1 <= ConfiguredEnd
         ELSE drive.end # -1 /\ setup.offset + setup.size = drive.end + 1 /\ ConfiguredStart <= setup.offset
  BY DEF Positions
<1>3. CASE setup.mode = "encrypt"
  BY <1>1, <1>2, <1>3, Sizes DEF Block, Area, AreaNext, Sectors
<1>4. CASE setup.mode = "decrypt"
  BY <1>1, <1>2, <1>4, Sizes DEF Block, Area, Sectors
<1>. QED  BY <1>1, <1>3, <1>4 DEF Modes

LEMMA AreaOfStart ==
    ASSUME Fields, drive' = StartDrive(header)
    PROVE  AreaOf(StartDrive(header)) = Area'
<1>1. header \in [present : BOOLEAN, length : 0 .. (ConfiguredEnd + 1 - ConfiguredStart)]
  BY DEF Fields
<1>. DEFINE d == StartDrive(header)
<1>2. /\ d.start \in {-1, ConfiguredStart} /\ d.end \in -1 .. ConfiguredEnd
      /\ (d.start = -1 /\ d.end = -1) \/ (d.start = ConfiguredStart /\ ConfiguredStart <= d.end)
  BY <1>1, StartFields DEF DriveFields
<1>3. d.start = -1 \/ d.end # -1
  BY <1>2, Sizes
<1>4. Area' = IF d.start = -1 \/ d.end = -1 THEN {} ELSE d.start .. d.end
  BY DEF Area
<1>. QED  BY <1>3, <1>4 DEF AreaOf

LEMMA CountUpdate ==
    ASSUME NEW c \in CountFields
    PROVE  /\ [c EXCEPT !.saveFailed = FALSE] \in CountFields /\ [c EXCEPT !.saveFailed = FALSE].saveFailed = FALSE
           /\ [c EXCEPT !.crashes = @ + 1, !.saveFailed = FALSE] \in CountFields
           /\ [c EXCEPT !.crashes = @ + 1, !.saveFailed = FALSE].saveFailed = FALSE
           /\ [c EXCEPT !.saveFailed = TRUE] \in CountFields /\ [c EXCEPT !.saveFailed = TRUE].saveFailed = TRUE
           /\ [c EXCEPT !.saveFailed = TRUE, !.faults = @ + 1] \in CountFields
           /\ [c EXCEPT !.saveFailed = TRUE, !.faults = @ + 1].saveFailed = TRUE
           /\ [c EXCEPT !.faults = @ + 1] \in CountFields /\ [c EXCEPT !.faults = @ + 1].saveFailed = c.saveFailed
           /\ [c EXCEPT !.starts = @ + 1] \in CountFields /\ [c EXCEPT !.starts = @ + 1].saveFailed = c.saveFailed
           /\ [c EXCEPT !.writes = @ + 1] \in CountFields /\ [c EXCEPT !.writes = @ + 1].saveFailed = c.saveFailed
<1>1. /\ c.faults + 1 \in Nat /\ c.crashes + 1 \in Nat /\ c.starts + 1 \in Nat /\ c.writes + 1 \in Nat
  BY DEF CountFields
<1>. QED  BY <1>1 DEF CountFields

----------------------------------------------------------------------------
(* The start of the system, and the other users of the drive *)

LEMMA NoSetupFields ==
    /\ NoSetup \in SetupFields(NoSetup.buf) /\ NoSetup.pc = "exited" /\ NoSetup.thread = FALSE /\ NoSetup.dirty = FALSE
BY DEF NoSetup, SetupFields, Steps, Modes, Results

LEMMA InitInv == Init => Inv
<1>. SUFFICES ASSUME NEW n \in InitialLengths,
                     header = [present |-> TRUE, length |-> n],
                     drive = MountDrive(header),
                     stored = [s \in Sectors |-> 0],
                     disk = [s \in Sectors |-> Form(s, Area)],
                     lost = [s \in Sectors |-> "no"],
                     setup = NoSetup, system = Idle,
                     count = [faults |-> 0, crashes |-> 0, starts |-> 0, writes |-> 0, saveFailed |-> FALSE]
              PROVE  Inv
  BY DEF Init
<1>. DEFINE H == [present : BOOLEAN, length : 0 .. (ConfiguredEnd + 1 - ConfiguredStart)]
<1>1. header \in H /\ header.present = TRUE /\ drive = StartDrive(header)
  BY Sizes DEF StartDrive
<1>2. /\ drive \in DriveFields /\ drive.mounted /\ drive.suspended = FALSE
      /\ (drive.start = -1 /\ drive.end = -1) \/ (drive.start = ConfiguredStart /\ ConfiguredStart <= drive.end)
      /\ drive.confStart = ConfiguredStart /\ drive.confEnd = ConfiguredEnd
  BY <1>1, StartFields
<1>3. \A s \in Sectors : stored[s] = 0 /\ disk[s] = Form(s, Area) /\ lost[s] = "no" /\ disk[s] \in Cells
  BY CellTypes DEF Form
<1>4. setup.pc = "exited" /\ setup.thread = FALSE /\ setup.dirty = FALSE /\ setup \in SetupFields(setup.buf)
  BY NoSetupFields
<1>5. Fields
  BY <1>1, <1>2, <1>3, <1>4 DEF Fields, CountFields, Idle, Reasons
<1>6. Control
  BY <1>4 DEF Control, InProgress, Idle
<1>7. Positions
  BY <1>2, <1>4, Sizes DEF Positions, Between, Within, Held, DriveFields
<1>8. Configured /\ Data /\ Buffer /\ CleanRestartLosesNothing
  BY <1>2, <1>3, <1>4 DEF Configured, Data, Kept, Buffer, Busy, CleanRestartLosesNothing
<1>9. Recorded
  <2>1. drive.start = -1 \/ (drive.end # -1 /\ drive.start # -1)
    BY <1>2, Sizes DEF DriveFields
  <2>2. Synced
    BY <1>1, <2>1 DEF Synced, AreaOf, Area
  <2>. QED  BY <1>1, <1>2, <1>4, <2>2, Sizes DEF Recorded
<1>. QED  BY <1>5, <1>6, <1>7, <1>8, <1>9 DEF Inv

(* After a restart the header says what there is, and what it does not        *)
(* describe is given up.                                                      *)
LEMMA RestartInv ==
    ASSUME Inv, NEW d \in [Sectors -> Cells], NEW why \in Reasons \ {"no"}, Restart(d, why), count.saveFailed' = FALSE,
           count' \in CountFields,
           CleanRestartLosesNothing'
    PROVE  Inv'
<1>. DEFINE H == [present : BOOLEAN, length : 0 .. (ConfiguredEnd + 1 - ConfiguredStart)]
<1>1. header' = header /\ header \in H /\ drive' = StartDrive(header) /\ disk' = d /\ stored' = stored /\ Fields
  BY DEF Restart, Inv, Fields
<1>2. /\ drive' \in DriveFields /\ (drive'.mounted <=> header'.present) /\ drive'.suspended = FALSE
      /\ (drive'.start = -1 /\ drive'.end = -1) \/ (drive'.start = ConfiguredStart /\ ConfiguredStart <= drive'.end)
      /\ IF header'.present THEN drive'.confStart = ConfiguredStart /\ drive'.confEnd = ConfiguredEnd
         ELSE drive'.confStart = -1 /\ drive'.confEnd = -1
  BY <1>1, StartFields
<1>3. setup'.pc = "exited" /\ setup'.thread = FALSE /\ setup'.dirty = FALSE /\ setup' \in SetupFields(setup'.buf)
  BY NoSetupFields DEF Restart
<1>4. AreaOf(StartDrive(header)) = Area'
  BY <1>1, AreaOfStart
<1>5. lost' \in [Sectors -> Reasons] /\ \A s \in Sectors : lost'[s] = "no" => disk'[s] = Form(s, Area)'
  <2>. DEFINE gone == {s \in Sectors : d[s] # Form(s, AreaOf(StartDrive(header)))}
              reason == IF count.saveFailed THEN "unsaved" ELSE why
  <2>1. lost' = GiveUp(gone, reason) /\ reason \in Reasons /\ reason # "no" /\ lost \in [Sectors -> Reasons]
    BY <1>1 DEF Restart, Reasons, Fields
  <2>2. lost' \in [Sectors -> Reasons] /\ \A s \in Sectors : lost'[s] = "no" => s \notin gone
    <3>. HIDE DEF gone, reason
    <3>. QED  BY <2>1, GiveUpReasons
  <2>. QED  BY <1>1, <1>4, <2>2 DEF Form
<1>6. Fields'
  BY <1>1, <1>2, <1>3, <1>5 DEF Fields, Restart, Idle
<1>7. Control'
  BY <1>3 DEF Control, InProgress, Restart, Idle
<1>8. Positions'
  BY <1>2, <1>3, Sizes DEF Positions, Between, Within, Held, DriveFields
<1>9. Configured' /\ Data' /\ Buffer'
  BY <1>2, <1>3, <1>5 DEF Configured, Data, Kept, Buffer, Busy
<1>10. Recorded'
  BY <1>1, <1>2, <1>3, <1>4, Sizes DEF Recorded, Synced
<1>. QED  BY <1>6, <1>7, <1>8, <1>9, <1>10 DEF Inv

(* A shutdown finds the header up to date, unless it could not be written.    *)
LEMMA PowerOffInv == ASSUME Inv, PowerOff PROVE Inv'
<1>1. /\ disk \in [Sectors -> Cells] /\ lost \in [Sectors -> Reasons] /\ setup.pc = "exited" /\ Restart(disk, "clean")
      /\ count \in CountFields
      /\ \A s \in Sectors : lost[s] # "clean"
  BY DEF Inv, PowerOff, Fields, Control, InProgress, CleanRestartLosesNothing
<1>2. /\ count'.saveFailed = FALSE
      /\ count' \in CountFields
  BY <1>1, CountUpdate DEF PowerOff
<1>3. CleanRestartLosesNothing'
  <2>1. CASE count.saveFailed
    BY <1>1, <2>1 DEF Restart, GiveUp, CleanRestartLosesNothing
  <2>2. CASE ~count.saveFailed
    <3>1. AreaOf(StartDrive(header)) = Area
      BY <1>1, <2>2 DEF Inv, Recorded, Synced
    <3>2. \A s \in Sectors : lost[s] = "no" => disk[s] = Form(s, Area)
      BY <1>1 DEF Inv, Data, Busy, Kept
    <3>. QED  BY <1>1, <2>2, <3>1, <3>2 DEF Restart, GiveUp, CleanRestartLosesNothing
  <2>. QED  BY <2>1, <2>2
<1>. QED  BY <1>1, <1>2, <1>3, RestartInv DEF Reasons

LEMMA CrashInv == ASSUME Inv, Crash PROVE Inv'
<1>1. PICK W \in SUBSET Block : (W # {} => Writing) /\ Restart(Written(setup.pc, W), "crash")
  BY DEF Crash
<1>2. /\ disk \in [Sectors -> Cells] /\ lost \in [Sectors -> Reasons]
      /\ count \in CountFields
      /\ \A s \in Sectors : lost[s] # "clean"
  BY DEF Inv, Fields, CleanRestartLosesNothing
<1>3. Written(setup.pc, W) \in [Sectors -> Cells]
  <2>1. CASE setup.pc = "wipe"
    BY <1>2, <2>1, OverwriteCells, CellTypes DEF Written
  <2>2. CASE setup.pc # "wipe"
    <3>1. \A s \in W : setup.buf[s] \in Cells
      BY <1>1 DEF Writing, Inv, Buffer, Busy
    <3>. QED  BY <1>2, <2>2, <3>1, OverwriteCells DEF Written
  <2>. QED  BY <2>1, <2>2
<1>4. /\ count'.saveFailed = FALSE
      /\ count' \in CountFields
  <2>1. count' = [count EXCEPT !.crashes = @ + 1, !.saveFailed = FALSE]
    BY <1>2 DEF Crash
  <2>. QED  BY <1>2, <2>1, CountUpdate
<1>5. CleanRestartLosesNothing'
  BY <1>1, <1>2 DEF Restart, GiveUp, CleanRestartLosesNothing
<1>. QED  BY <1>1, <1>3, <1>4, <1>5, RestartInv DEF Reasons

----------------------------------------------------------------------------
(* What a step of the setup thread changes, field by field *)

LEMMA PcUpdate ==
    ASSUME Fields, NEW p \in Steps, setup' = [setup EXCEPT !.pc = p]
    PROVE  /\ setup' \in SetupFields(setup'.buf) /\ setup'.pc = p /\ setup'.thread = setup.thread /\ setup'.mode = setup.mode
           /\ setup'.offset = setup.offset /\ setup'.size = setup.size /\ setup'.buf = setup.buf /\ setup'.dirty = setup.dirty /\ setup'.result = setup.result
BY DEF SetupFields, Fields

LEMMA ResultUpdate ==
    ASSUME Fields, NEW p \in Steps, NEW r \in Results,
           setup' = [setup EXCEPT !.pc = p, !.result = r]
    PROVE  /\ setup' \in SetupFields(setup'.buf) /\ setup'.pc = p /\ setup'.thread = setup.thread /\ setup'.mode = setup.mode
           /\ setup'.offset = setup.offset /\ setup'.size = setup.size /\ setup'.buf = setup.buf /\ setup'.dirty = setup.dirty
BY DEF SetupFields, Fields

LEMMA LeaveUpdate ==
    ASSUME NEW p \in Steps, NEW r \in Results, Fields, Leave(p, r)
    PROVE  /\ setup' \in SetupFields(setup'.buf) /\ setup'.pc = p /\ setup'.thread = setup.thread
           /\ setup'.mode = setup.mode /\ setup'.dirty = setup.dirty
BY DEF SetupFields, Leave, Fields

LEMMA OffsetUpdate ==
    ASSUME Fields, NEW p \in Steps, NEW o \in Nat, NEW n \in Nat,
           setup' = [setup EXCEPT !.pc = p, !.size = n, !.offset = o]
    PROVE  /\ setup' \in SetupFields(setup'.buf) /\ setup'.pc = p /\ setup'.thread = setup.thread /\ setup'.mode = setup.mode
           /\ setup'.offset = o /\ setup'.size = n /\ setup'.buf = setup.buf /\ setup'.dirty = setup.dirty
BY DEF SetupFields, Fields

Loaded(p, n, r, b) == setup' = [setup EXCEPT !.pc = p, !.pass = n, !.result = r, !.buf = b]

LEMMA BufferUpdate ==
    ASSUME Fields, NEW p \in Steps, NEW n \in Nat, NEW r \in Results, NEW b, Loaded(p, n, r, b)
    PROVE  /\ setup' \in SetupFields(setup'.buf) /\ setup'.pc = p /\ setup'.thread = setup.thread /\ setup'.mode = setup.mode
           /\ setup'.offset = setup.offset /\ setup'.size = setup.size /\ setup'.buf = b /\ setup'.dirty = setup.dirty
BY DEF SetupFields, Fields, Loaded

LEMMA SavedUpdate ==
    ASSUME Fields, NEW p \in Steps, NEW d \in BOOLEAN, NEW n \in Nat,
           setup' = [setup EXCEPT !.pc = p, !.dirty = d, !.since = n]
    PROVE  /\ setup' \in SetupFields(setup'.buf) /\ setup'.pc = p /\ setup'.thread = setup.thread /\ setup'.mode = setup.mode
           /\ setup'.offset = setup.offset /\ setup'.size = setup.size /\ setup'.buf = setup.buf /\ setup'.dirty = d
BY DEF SetupFields, Fields

----------------------------------------------------------------------------
(* Steps beside the thread *)

LEMMA CalmFrame ==
    ASSUME Data, UNCHANGED <<disk, stored, lost>>, Area' = Area, setup.pc \notin Busy, setup'.pc \notin Busy
    PROVE  Data' /\ Buffer'
BY DEF Data, Buffer, Kept, Form, Busy

(* A step that leaves alone what the thread and the header know of the area.  *)
LEMMA BesideFrame ==
    ASSUME Inv, UNCHANGED <<disk, header, stored, lost>>, count'.saveFailed = count.saveFailed,
           drive'.mounted = drive.mounted, drive'.start = drive.start, drive'.end = drive.end,
           drive'.confStart = drive.confStart, drive'.confEnd = drive.confEnd, drive'.suspended = drive.suspended,
           setup'.pc = setup.pc, setup'.mode = setup.mode, setup'.offset = setup.offset, setup'.size = setup.size,
           setup'.buf = setup.buf, setup'.dirty = setup.dirty
    PROVE  Positions' /\ Configured' /\ Data' /\ Buffer' /\ Recorded' /\ CleanRestartLosesNothing'
<1>1. Area' = Area /\ Block' = Block /\ AreaEmpty' = AreaEmpty /\ AreaNext' = AreaNext
  BY DEF Area, Block, AreaEmpty, Encrypted, AreaNext
<1>2. Positions' /\ Configured'
  BY <1>1 DEF Inv, Positions, Configured
<1>3. Data' /\ Buffer'
  BY <1>1 DEF Inv, Data, Buffer, Kept, New, Old, Form
<1>4. Recorded'
  BY <1>1 DEF Inv, Recorded, Synced
<1>. QED  BY <1>2, <1>3, <1>4 DEF Inv, CleanRestartLosesNothing

LEMMA WriteInv == ASSUME Inv, NEW s \in WrittenSectors, Write(s) PROVE Inv'
<1>1. /\ s \in Sectors /\ disk \in [Sectors -> Cells] /\ stored \in [Sectors -> Nat] /\ lost \in [Sectors -> Reasons]
      /\ stored[s] + 1 \in Nat /\ count \in CountFields
  BY Sizes DEF Inv, Fields
<1>2. /\ stored' = [stored EXCEPT ![s] = stored[s] + 1] /\ lost' = [lost EXCEPT ![s] = "no"]
      /\ disk' = [disk EXCEPT ![s] = Cell(stored[s] + 1, IF s \in Area THEN 1 ELSE 0)]
      /\ count' = [count EXCEPT !.writes = @ + 1]
  BY DEF Write
<1>3. count' \in CountFields /\ count'.saveFailed = count.saveFailed
  BY <1>1, <1>2, CountUpdate
<1>4. UNCHANGED <<header, drive, setup, system>> /\ Area' = Area /\ setup.pc \notin Busy
  BY DEF Write, Area, Inv, Positions, Busy, Held
<1>5. Fields'
  BY <1>1, <1>2, <1>3, <1>4, CellTypes DEF Inv, Fields, Reasons
<1>6. Data' /\ Buffer' /\ CleanRestartLosesNothing'
  BY <1>1, <1>2, <1>4 DEF Inv, Data, Buffer, Busy, Kept, Form, CleanRestartLosesNothing
<1>7. Control' /\ Positions' /\ Configured'
  BY <1>4 DEF Inv, Control, InProgress, Positions, AreaNext, Configured
<1>8. Recorded'
  BY <1>3, <1>4 DEF Inv, Recorded, Synced, AreaEmpty, Encrypted, Area
<1>. QED  BY <1>5, <1>6, <1>7, <1>8 DEF Inv

LEMMA LoadInv == ASSUME Inv, Load PROVE Inv'
<1>1. UNCHANGED <<disk, header, drive, setup, stored, lost, count>> /\ system' = [system EXCEPT !.busy = ~system.busy]
  BY DEF Load
<1>2. Fields' /\ Control'
  BY <1>1 DEF Inv, Fields, Control, InProgress
<1>. QED  BY <1>1, <1>2, BesideFrame DEF Inv

LEMMA StartInv ==
    ASSUME Inv, NEW mode \in Modes, NEW wipe \in Nat, NEW skip \in BOOLEAN, StartBootEncryptionSetup(mode, wipe, skip)
    PROVE  Inv'
<1>1. /\ setup' = [NoSetup EXCEPT !.pc = "begin", !.thread = TRUE, !.mode = mode, !.wipe = wipe, !.skip = skip, !.size = BlockSize]
      /\ count' = [count EXCEPT !.starts = @ + 1] /\ UNCHANGED <<disk, header, drive, system, stored, lost>>
      /\ system.power = "on" /\ system.request = "none" /\ drive.mounted /\ setup.pc = "exited"
  BY DEF StartBootEncryptionSetup, InProgress
<1>2. /\ setup' \in SetupFields(setup'.buf) /\ setup'.pc = "begin" /\ setup'.thread /\ setup'.mode = mode
      /\ setup'.size = BlockSize /\ ~setup'.dirty
  BY ZenonT(60), <1>1, Sizes DEF NoSetup, SetupFields, Steps, Results
<1>3. count' \in CountFields /\ count'.saveFailed = count.saveFailed
  BY <1>1, CountUpdate DEF Inv, Fields
<1>4. Fields' /\ Control'
  BY <1>1, <1>2, <1>3 DEF Inv, Fields, Control
<1>5. Area' = Area
  BY <1>1 DEF Area
<1>6. Positions' /\ Configured'
  BY <1>1, <1>2, Sizes DEF Inv, Positions, Between, Within, Held, Configured
<1>7. Data' /\ Buffer' /\ CleanRestartLosesNothing'
  <2>1. setup.pc \notin Busy /\ setup'.pc \notin Busy
    BY <1>1, <1>2 DEF Busy
  <2>. QED  BY <1>1, <1>5, <2>1, CalmFrame DEF Inv, CleanRestartLosesNothing
<1>8. Recorded'
  BY <1>1, <1>2, <1>3, <1>5, Sizes DEF Inv, Recorded, Configured, Synced
<1>. QED  BY <1>4, <1>6, <1>7, <1>8 DEF Inv

LEMMA AbortBeginInv == ASSUME Inv, NEW power \in {"on", "shutdown"}, AbortBegin(power) PROVE Inv'
<1>1. /\ setup' = [setup EXCEPT !.abort = TRUE] /\ system' = [system EXCEPT !.request = "abort", !.power = power]
      /\ UNCHANGED <<disk, header, drive, stored, lost, count>> /\ setup.thread
  BY DEF AbortBegin
<1>2. /\ setup' \in SetupFields(setup'.buf) /\ setup'.pc = setup.pc /\ setup'.mode = setup.mode
      /\ setup'.offset = setup.offset /\ setup'.size = setup.size /\ setup'.buf = setup.buf
      /\ setup'.dirty = setup.dirty /\ setup'.thread = setup.thread
  BY <1>1 DEF Inv, Fields, SetupFields
<1>3. Fields' /\ Control'
  BY <1>1, <1>2 DEF Inv, Fields, Control, InProgress
<1>. QED  BY <1>1, <1>2, <1>3, BesideFrame DEF Inv

LEMMA AbortEndInv == ASSUME Inv, AbortEnd PROVE Inv'
<1>1. /\ setup' = [setup EXCEPT !.thread = FALSE] /\ system' = [system EXCEPT !.request = "none"]
      /\ UNCHANGED <<disk, header, drive, stored, lost, count>> /\ setup.pc = "exited"
  BY DEF AbortEnd, InProgress
<1>2. /\ setup' \in SetupFields(setup'.buf) /\ setup'.pc = setup.pc /\ setup'.mode = setup.mode
      /\ setup'.offset = setup.offset /\ setup'.size = setup.size /\ setup'.buf = setup.buf
      /\ setup'.dirty = setup.dirty
  BY <1>1 DEF Inv, Fields, SetupFields
<1>3. Fields' /\ Control'
  BY <1>1, <1>2 DEF Inv, Fields, Control, InProgress
<1>. QED  BY <1>1, <1>2, <1>3, BesideFrame DEF Inv

LEMMA KeysInv == ASSUME Inv, ReopenBootVolumeHeader \/ EmergencyClearAllKeys PROVE Inv'
<1>1. UNCHANGED <<disk, header, setup, system, stored, lost, count>>
  BY DEF ReopenBootVolumeHeader, EmergencyClearAllKeys
<1>2. /\ drive' \in DriveFields /\ drive'.mounted = drive.mounted /\ drive'.start = drive.start
      /\ drive'.end = drive.end /\ drive'.confStart = drive.confStart /\ drive'.confEnd = drive.confEnd
      /\ drive'.suspended = drive.suspended
  <2>1. drive \in DriveFields
    BY DEF Inv, Fields
  <2>2. CASE ReopenBootVolumeHeader
    BY <2>1, <2>2 DEF ReopenBootVolumeHeader, DriveFields, Keys
  <2>3. CASE EmergencyClearAllKeys
    BY <2>1, <2>3 DEF EmergencyClearAllKeys, DriveFields, Keys
  <2>. QED  BY <2>2, <2>3
<1>3. Fields' /\ Control'
  BY <1>1, <1>2 DEF Inv, Fields, Control, InProgress
<1>. QED  BY <1>1, <1>2, <1>3, BesideFrame DEF Inv

LEMMA ShutdownInv == ASSUME Inv, Shutdown PROVE Inv'
<1>1. CASE AbortBegin("shutdown")
  BY <1>1, AbortBeginInv
<1>2. CASE ~AbortBegin("shutdown")
  <2>1. /\ UNCHANGED <<disk, header, drive, setup, stored, lost, count>> /\ ~setup.thread
        /\ system' = [system EXCEPT !.power = "shutdown"]
    BY <1>2 DEF Shutdown
  <2>2. Fields' /\ Control'
    BY <2>1 DEF Inv, Fields, Control, InProgress
  <2>. QED  BY <2>1, <2>2, BesideFrame DEF Inv
<1>. QED  BY <1>1, <1>2

----------------------------------------------------------------------------
(* Steps of the thread that leave the data alone *)

LEMMA CalmStep ==
    ASSUME Inv, UNCHANGED <<disk, stored, lost>>, Area' = Area, setup.pc \notin Busy, setup'.pc \notin Busy,
           header' \in [present : BOOLEAN, length : 0 .. (ConfiguredEnd + 1 - ConfiguredStart)],
           drive' \in DriveFields, count' \in CountFields,
           system' \in [power : {"on", "shutdown"}, busy : BOOLEAN, request : {"none", "abort"}],
           system'.power = system.power, system'.request = system.request,
           setup' \in SetupFields(setup'.buf), setup.pc # "exited", setup'.thread = setup.thread,
           setup'.pc \notin {"ret", "exited"} => setup.pc # "ret" /\ drive'.mounted = drive.mounted
    PROVE  Fields' /\ Control' /\ Data' /\ Buffer' /\ CleanRestartLosesNothing'
<1>1. Data' /\ Buffer'
  BY CalmFrame DEF Inv
<1>. QED  BY <1>1 DEF Inv, Fields, Control, InProgress, CleanRestartLosesNothing

(* Steps that leave the extension and the header alone too.                   *)
LEMMA PrivateStep ==
    ASSUME Inv, UNCHANGED <<disk, stored, lost, header, drive, count>>, setup.pc \notin Busy, setup'.pc \notin Busy,
           system' \in [power : {"on", "shutdown"}, busy : BOOLEAN, request : {"none", "abort"}],
           system'.power = system.power, system'.request = system.request,
           setup' \in SetupFields(setup'.buf), setup.pc # "exited", setup'.thread = setup.thread,
           setup'.pc \notin {"ret", "exited"} => setup.pc # "ret"
    PROVE  /\ Fields' /\ Control' /\ Data' /\ Buffer' /\ CleanRestartLosesNothing'
           /\ Area' = Area /\ AreaNext' = AreaNext /\ AreaEmpty' = AreaEmpty /\ Synced' = Synced
<1>1. /\ Area' = Area /\ AreaNext' = AreaNext /\ AreaEmpty' = AreaEmpty /\ Synced' = Synced
      /\ drive' \in DriveFields /\ count' \in CountFields /\ drive'.mounted = drive.mounted
      /\ header' \in [present : BOOLEAN, length : 0 .. (ConfiguredEnd + 1 - ConfiguredStart)]
  BY DEF Area, AreaNext, AreaEmpty, Encrypted, Synced, Inv, Fields
<1>2. Fields' /\ Control' /\ Data' /\ Buffer' /\ CleanRestartLosesNothing'
  BY <1>1, CalmStep
<1>. QED  BY <1>1, <1>2

LEMMA BeginInv == ASSUME Inv, Begin PROVE Inv'
<1>1. /\ UNCHANGED <<disk, header, drive, system, stored, lost, count>> /\ setup.pc = "begin"
      /\ setup' = [setup EXCEPT !.pc = "ret", !.result = "failed"] \/ setup' = [setup EXCEPT !.pc = "firstHold", !.result = "failed"]
  BY DEF Begin, At, Fail
<1>2. setup \in SetupFields(setup.buf) /\ "ret" \in Steps /\ "firstHold" \in Steps /\ "failed" \in Results
  BY DEF Inv, Fields, Steps, Results
<1>3. /\ setup' \in SetupFields(setup'.buf) /\ setup'.pc \in {"ret", "firstHold"} /\ setup'.thread = setup.thread
      /\ setup'.mode = setup.mode /\ setup'.size = setup.size /\ setup'.dirty = setup.dirty
  <2>1. CASE setup' = [setup EXCEPT !.pc = "ret", !.result = "failed"]
    BY <1>2, <2>1, ResultUpdate DEF Inv
  <2>2. CASE setup' = [setup EXCEPT !.pc = "firstHold", !.result = "failed"]
    BY <1>2, <2>2, ResultUpdate DEF Inv
  <2>. QED  BY <1>1, <2>1, <2>2
<1>4. setup.pc \notin Busy /\ setup'.pc \notin Busy /\ UNCHANGED <<disk, stored, lost, header, drive, count>>
  BY <1>1, <1>3 DEF Busy
<1>5. /\ Fields' /\ Control' /\ Data' /\ Buffer' /\ CleanRestartLosesNothing'
      /\ Area' = Area /\ AreaNext' = AreaNext /\ AreaEmpty' = AreaEmpty /\ Synced' = Synced
  BY <1>1, <1>3, <1>4, PrivateStep DEF Inv, Fields
<1>6. Positions' /\ Configured'
  BY <1>1, <1>3, <1>5 DEF Inv, Positions, Between, Within, Held, Configured
<1>7. Recorded'
  BY <1>1, <1>3, <1>5 DEF Inv, Recorded
<1>. QED  BY <1>5, <1>6, <1>7 DEF Inv

LEMMA HoldGiveUpInv == ASSUME Inv, HoldGiveUp PROVE Inv'
<1>1. /\ UNCHANGED <<disk, stored, lost, header, drive, count>> /\ setup.pc \in {"firstHold", "hold"} /\ Leave("finish", "success")
      /\ system' = [system EXCEPT !.busy = FALSE]
  BY DEF HoldGiveUp, Finish
<1>2. /\ setup' \in SetupFields(setup'.buf) /\ setup'.pc = "finish" /\ setup'.thread = setup.thread
      /\ setup'.mode = setup.mode /\ setup'.dirty = setup.dirty
  BY <1>1, LeaveUpdate DEF Inv, Steps, Results
<1>3. /\ setup.pc \notin Busy /\ setup'.pc \notin Busy
      /\ system' \in [power : {"on", "shutdown"}, busy : BOOLEAN, request : {"none", "abort"}]
      /\ system'.power = system.power /\ system'.request = system.request
  BY <1>1, <1>2 DEF Busy, Inv, Fields
<1>4. /\ Fields' /\ Control' /\ Data' /\ Buffer' /\ CleanRestartLosesNothing'
      /\ Area' = Area /\ AreaNext' = AreaNext /\ AreaEmpty' = AreaEmpty /\ Synced' = Synced
  BY <1>1, <1>2, <1>3, PrivateStep
<1>5. Positions' /\ Configured'
  BY <1>1, <1>2, <1>4 DEF Inv, Positions, Between, Within, Held, Configured
<1>6. Recorded'
  BY <1>1, <1>2, <1>4 DEF Inv, Recorded
<1>. QED  BY <1>4, <1>5, <1>6 DEF Inv

(* What the drive is while the thread runs.                                   *)
LEMMA RunningDrive ==
    ASSUME Inv, setup.pc \in Between \cup Within \cup {"begin", "firstHold", "finish", "lastHold"}
    PROVE  /\ drive \in DriveFields /\ drive.mounted /\ setup \in SetupFields(setup.buf)
           /\ drive.confStart = ConfiguredStart /\ drive.confEnd = ConfiguredEnd
           /\ drive.end \in Int /\ (drive.end = -1 \/ (drive.start = ConfiguredStart /\ ConfiguredStart - 1 <= drive.end))
           /\ drive.end <= ConfiguredEnd /\ ConfiguredStart <= AreaNext /\ AreaNext <= ConfiguredEnd + 1 /\ AreaNext \in Nat
<1>1. drive \in DriveFields /\ setup \in SetupFields(setup.buf) /\ drive.end \in -1 .. ConfiguredEnd
  BY DEF Inv, Fields, DriveFields
<1>2. drive.mounted
  BY DEF Inv, Control, InProgress, Between, Within
<1>3. drive.confStart = ConfiguredStart /\ drive.confEnd = ConfiguredEnd
  BY <1>2 DEF Inv, Configured, Between, Within
<1>4. drive.end = -1 \/ (drive.start = ConfiguredStart /\ ConfiguredStart - 1 <= drive.end)
  BY DEF Inv, Positions
<1>5. ConfiguredStart <= AreaNext /\ AreaNext <= ConfiguredEnd + 1 /\ AreaNext \in Nat
  BY <1>1, <1>4, Sizes DEF AreaNext
<1>. QED  BY <1>1, <1>2, <1>3, <1>4, <1>5, Sizes

LEMMA FirstHoldInv == ASSUME Inv, FirstHold PROVE Inv'
<1>1. /\ UNCHANGED <<disk, stored, lost>> /\ UNCHANGED <<header, system, count>> /\ setup.pc = "firstHold"
      /\ setup.pc \notin Busy
  BY DEF FirstHold, Hold, At, Busy
<1>2. /\ drive \in DriveFields /\ drive.mounted /\ setup \in SetupFields(setup.buf)
      /\ drive.confStart = ConfiguredStart /\ drive.confEnd = ConfiguredEnd /\ drive.end \in Int
      /\ drive.end = -1 \/ (drive.start = ConfiguredStart /\ ConfiguredStart - 1 <= drive.end)
      /\ drive.end <= ConfiguredEnd /\ setup.size > 0 /\ setup.size \in Nat /\ drive.start \in {-1, ConfiguredStart}
  BY <1>1, RunningDrive DEF Inv, Positions, SetupFields, DriveFields
<1>3. CASE /\ setup.mode = "encrypt" /\ ~Encrypted
           /\ drive' = [drive EXCEPT !.start = drive.confStart, !.end = -1]
           /\ setup' = [setup EXCEPT !.pc = "loop", !.offset = drive.confStart]
  <2>1. /\ setup' \in SetupFields(setup'.buf) /\ setup'.pc = "loop" /\ setup'.thread = setup.thread /\ setup'.mode = setup.mode
        /\ setup'.offset = ConfiguredStart /\ setup'.size = setup.size /\ setup'.dirty = setup.dirty
    BY <1>2, <1>3, Sizes DEF SetupFields, Steps
  <2>2. /\ drive' \in DriveFields /\ drive'.mounted /\ drive'.start = ConfiguredStart /\ drive'.end = -1
        /\ drive'.confStart = ConfiguredStart /\ drive'.confEnd = ConfiguredEnd
    <3>1. -1 \in -1 .. ConfiguredEnd
      BY Sizes
    <3>2. drive' = [drive EXCEPT !.start = ConfiguredStart, !.end = -1]
      BY <1>2, <1>3
    <3>. QED  BY <1>2, <3>1, <3>2 DEF DriveFields
  <2>3. Area' = Area /\ setup'.pc \notin Busy
    BY <1>3, <2>1, <2>2 DEF Area, Encrypted, Busy
  <2>4. Fields' /\ Control' /\ Data' /\ Buffer' /\ CleanRestartLosesNothing'
    BY <1>1, <1>2, <2>1, <2>2, <2>3, CalmStep DEF Inv, Fields
  <2>5. Positions' /\ Configured'
    BY <1>2, <2>1, <2>2 DEF Inv, Positions, Between, Within, Held, AreaNext, Configured
  <2>6. ~setup.dirty
    BY <1>3 DEF Inv, Recorded, AreaEmpty
  <2>7. Recorded'
    BY <1>1, <1>2, <1>3, <2>1, <2>2, <2>3, <2>6, Sizes DEF Inv, Recorded, Synced
  <2>. QED  BY <2>4, <2>5, <2>7 DEF Inv
<1>4. CASE drive' = [drive EXCEPT !.suspended = TRUE] /\ \E result \in {"failed", "success"} : Leave("finish", result)
  <2>1. /\ setup' \in SetupFields(setup'.buf) /\ setup'.pc = "finish" /\ setup'.thread = setup.thread
        /\ setup'.mode = setup.mode /\ setup'.dirty = setup.dirty
    BY <1>4, LeaveUpdate DEF Inv, Steps, Results
  <2>2. /\ drive' \in DriveFields /\ drive'.mounted = drive.mounted /\ drive'.start = drive.start /\ drive'.end = drive.end
        /\ drive'.confStart = drive.confStart /\ drive'.confEnd = drive.confEnd
    BY <1>2, <1>4 DEF DriveFields
  <2>3. Area' = Area /\ setup'.pc \notin Busy /\ AreaEmpty' = AreaEmpty
    BY <2>1, <2>2 DEF Area, Busy, AreaEmpty, Encrypted
  <2>4. Fields' /\ Control' /\ Data' /\ Buffer' /\ CleanRestartLosesNothing'
    BY <1>1, <2>1, <2>2, <2>3, CalmStep DEF Inv, Fields
  <2>5. Positions' /\ Configured'
    BY <1>2, <2>1, <2>2 DEF Inv, Positions, Between, Within, Held, Configured
  <2>6. Recorded'
    BY <1>1, <2>1, <2>2, <2>3 DEF Inv, Recorded, Synced
  <2>. QED  BY <2>4, <2>5, <2>6 DEF Inv
<1>5. CASE /\ Encrypted /\ setup' = [setup EXCEPT !.pc = "loop", !.offset = drive.end + 1] /\ UNCHANGED drive
  <2>1. drive.end + 1 \in Nat /\ drive.end # -1 /\ drive.start = ConfiguredStart
    BY <1>2, <1>5, Sizes DEF Encrypted
  <2>2. /\ setup' \in SetupFields(setup'.buf) /\ setup'.pc = "loop" /\ setup'.thread = setup.thread /\ setup'.mode = setup.mode
        /\ setup'.offset = drive.end + 1 /\ setup'.size = setup.size /\ setup'.dirty = setup.dirty
    BY <1>2, <1>5, <2>1 DEF SetupFields, Steps
  <2>3. setup'.pc \notin Busy /\ UNCHANGED <<disk, stored, lost, header, drive, count>>
    BY <1>1, <1>5, <2>2 DEF Busy
  <2>4. /\ Fields' /\ Control' /\ Data' /\ Buffer' /\ CleanRestartLosesNothing'
        /\ Area' = Area /\ AreaNext' = AreaNext /\ AreaEmpty' = AreaEmpty /\ Synced' = Synced
    BY <1>1, <2>2, <2>3, PrivateStep DEF Inv, Fields
  <2>5. Positions' /\ Configured'
    BY <1>2, <1>5, <2>1, <2>2, <2>4 DEF Inv, Positions, Between, Within, Held, AreaNext, Configured
  <2>6. Recorded'
    BY <1>1, <1>5, <2>2, <2>4 DEF Inv, Recorded
  <2>. QED  BY <2>4, <2>5, <2>6 DEF Inv
<1>. QED  BY <1>3, <1>4, <1>5 DEF FirstHold, Finish

LEMMA NextBlockInv == ASSUME Inv, NextBlock PROVE Inv'
<1>1. /\ UNCHANGED <<disk, stored, lost, header, drive, count>> /\ UNCHANGED system /\ setup.pc = "loop" /\ setup.pc \notin Busy
  BY DEF NextBlock, At, Busy
<1>2. /\ drive \in DriveFields /\ drive.mounted /\ setup \in SetupFields(setup.buf)
      /\ drive.confStart = ConfiguredStart /\ drive.confEnd = ConfiguredEnd /\ drive.end \in Int
      /\ drive.end = -1 \/ (drive.start = ConfiguredStart /\ ConfiguredStart - 1 <= drive.end)
      /\ drive.end <= ConfiguredEnd /\ setup.size > 0 /\ setup.size \in Nat /\ drive.start = ConfiguredStart
      /\ setup.offset = AreaNext /\ ConfiguredStart <= AreaNext /\ AreaNext <= ConfiguredEnd + 1 /\ AreaNext \in Nat
      /\ setup.mode \in Modes
  BY <1>1, RunningDrive DEF Inv, Positions, SetupFields, DriveFields, Between
<1>3. CASE Leave("finish", "success")
  <2>1. /\ setup' \in SetupFields(setup'.buf) /\ setup'.pc = "finish" /\ setup'.thread = setup.thread
        /\ setup'.mode = setup.mode /\ setup'.dirty = setup.dirty
    BY <1>3, LeaveUpdate DEF Inv, Steps, Results
  <2>2. setup'.pc \notin Busy
    BY <2>1 DEF Busy
  <2>3. /\ Fields' /\ Control' /\ Data' /\ Buffer' /\ CleanRestartLosesNothing'
        /\ Area' = Area /\ AreaNext' = AreaNext /\ AreaEmpty' = AreaEmpty /\ Synced' = Synced
    BY <1>1, <2>1, <2>2, PrivateStep DEF Inv, Fields
  <2>4. Positions' /\ Configured'
    BY <1>1, <1>2, <2>1, <2>3 DEF Inv, Positions, Between, Within, Held, Configured
  <2>5. Recorded'
    BY <1>1, <2>1, <2>3 DEF Inv, Recorded
  <2>. QED  BY <2>3, <2>4, <2>5 DEF Inv
<1>4. ASSUME NEW n \in Nat, NEW o \in Nat, setup' = [setup EXCEPT !.pc = "hold", !.size = n, !.offset = o], n > 0,
             IF setup.mode = "encrypt" THEN o = AreaNext /\ o + n - 1 <= ConfiguredEnd
             ELSE o + n = AreaNext /\ ConfiguredStart <= o
      PROVE  Inv'
  <2>1. /\ setup' \in SetupFields(setup'.buf) /\ setup'.pc = "hold" /\ setup'.thread = setup.thread /\ setup'.mode = setup.mode
        /\ setup'.offset = o /\ setup'.size = n /\ setup'.dirty = setup.dirty
    <3>1. "hold" \in Steps
      BY DEF Steps
    <3>. QED  BY <1>2, <1>4, <3>1, OffsetUpdate DEF Inv
  <2>2. setup'.pc \notin Busy
    BY <2>1 DEF Busy
  <2>3. /\ Fields' /\ Control' /\ Data' /\ Buffer' /\ CleanRestartLosesNothing'
        /\ Area' = Area /\ AreaNext' = AreaNext /\ AreaEmpty' = AreaEmpty /\ Synced' = Synced
    BY <1>1, <2>1, <2>2, PrivateStep DEF Inv, Fields
  <2>4. setup.mode = "decrypt" => drive.end # -1 /\ o + n = drive.end + 1
    BY <1>2, <1>4, Sizes DEF AreaNext
  <2>5. Positions' /\ Configured'
    <3>1. UNCHANGED drive
      BY <1>1
    <3>. QED  BY <1>2, <1>4, <2>1, <2>3, <2>4, <3>1 DEF Modes, Positions, Between, Within, Held, Configured
  <2>6. setup.mode = "decrypt" => ~AreaEmpty
    BY <1>2, <1>4, <2>4, Sizes DEF AreaEmpty, Encrypted
  <2>7. Recorded'
    BY <1>1, <1>2, <2>1, <2>3, <2>6 DEF Inv, Recorded
  <2>. QED  BY <2>3, <2>5, <2>7 DEF Inv
<1>5. CASE setup.mode = "encrypt"
  <2>. DEFINE size == Smaller(setup.size, drive.confEnd + 1 - setup.offset)
  <2>1. CASE setup.abort \/ setup.offset > drive.confEnd
    BY <1>3, <1>5, <2>1 DEF NextBlock, Finish
  <2>2. CASE ~(setup.abort \/ setup.offset > drive.confEnd)
    <3>1. setup' = [setup EXCEPT !.pc = "hold", !.size = size]
      BY <1>5, <2>2 DEF NextBlock
    <3>2. setup' = [setup EXCEPT !.pc = "hold", !.size = size, !.offset = setup.offset]
      BY <1>2, <3>1 DEF SetupFields
    <3>3. size \in Nat /\ size > 0 /\ setup.offset + size - 1 <= ConfiguredEnd /\ setup.offset \in Nat
      BY <1>2, <2>2, Sizes DEF Smaller
    <3>. QED  BY <1>2, <1>4, <1>5, <3>2, <3>3
  <2>. QED  BY <2>1, <2>2
<1>6. CASE setup.mode = "decrypt"
  <2>. DEFINE size == Smaller(setup.size, setup.offset - drive.start)
  <2>1. CASE setup.abort \/ size <= 0
    BY <1>3, <1>6, <2>1 DEF NextBlock, Finish
  <2>2. CASE ~(setup.abort \/ size <= 0)
    <3>1. setup' = [setup EXCEPT !.pc = "hold", !.size = size, !.offset = setup.offset - size]
      BY <1>6, <2>2 DEF NextBlock
    <3>2. size \in Nat /\ size > 0 /\ setup.offset - size \in Nat /\ ConfiguredStart <= setup.offset - size
          /\ setup.offset - size + size = AreaNext
      BY <1>2, <2>2, Sizes DEF Smaller
    <3>. QED  BY <1>4, <1>6, <3>1, <3>2
  <2>. QED  BY <2>1, <2>2
<1>. QED  BY <1>2, <1>5, <1>6 DEF Modes

LEMMA HoldBlockInv == ASSUME Inv, HoldBlock PROVE Inv'
<1>1. /\ UNCHANGED <<disk, stored, lost>> /\ UNCHANGED <<header, system, count>> /\ setup.pc = "hold"
      /\ drive' = [drive EXCEPT !.suspended = TRUE] /\ setup' = [setup EXCEPT !.pc = "read"]
  BY DEF HoldBlock, Hold, At, Goto
<1>2. drive \in DriveFields /\ setup \in SetupFields(setup.buf) /\ "read" \in Steps
  BY DEF Inv, Fields, Steps
<1>3. /\ setup' \in SetupFields(setup'.buf) /\ setup'.pc = "read" /\ setup'.thread = setup.thread /\ setup'.mode = setup.mode
      /\ setup'.offset = setup.offset /\ setup'.size = setup.size /\ setup'.buf = setup.buf /\ setup'.dirty = setup.dirty
  BY <1>1, <1>2, PcUpdate DEF Inv
<1>4. /\ drive' \in DriveFields /\ drive'.mounted = drive.mounted /\ drive'.start = drive.start /\ drive'.end = drive.end
      /\ drive'.confStart = drive.confStart /\ drive'.confEnd = drive.confEnd /\ drive'.suspended
  BY <1>1, <1>2 DEF DriveFields
<1>5. Area' = Area /\ AreaNext' = AreaNext /\ setup.pc \notin Busy /\ setup'.pc \notin Busy
  BY <1>1, <1>3, <1>4 DEF Area, AreaNext, Busy
<1>6. Fields' /\ Control' /\ Data' /\ Buffer' /\ CleanRestartLosesNothing'
  BY <1>1, <1>3, <1>4, <1>5, CalmStep DEF Inv, Fields
<1>7. Positions' /\ Configured'
  BY <1>1, <1>3, <1>4, <1>5 DEF Inv, Positions, Between, Within, Held, Configured
<1>8. Recorded'
  BY <1>1, <1>3, <1>4, <1>5 DEF Inv, Recorded, Synced, AreaEmpty, Encrypted
<1>. QED  BY <1>6, <1>7, <1>8 DEF Inv

----------------------------------------------------------------------------
(* Steps of the thread within a block *)

LEMMA WithinStep ==
    ASSUME Inv, UNCHANGED <<header, drive, system>>, count'.saveFailed = count.saveFailed,
           setup.pc \in Held, setup'.pc \in Held, setup'.thread = setup.thread, setup'.mode = setup.mode,
           setup'.offset = setup.offset, setup'.size = setup.size, setup'.dirty = setup.dirty
    PROVE  /\ Control' /\ Positions' /\ Configured' /\ Recorded'
           /\ Area' = Area /\ Block' = Block
<1>1. Area' = Area /\ Block' = Block /\ AreaEmpty' = AreaEmpty /\ AreaNext' = AreaNext /\ Synced' = Synced
  BY DEF Area, Block, AreaEmpty, Encrypted, AreaNext, Synced
<1>2. Control' /\ Configured'
  BY DEF Inv, Control, InProgress, Configured, Held
<1>3. Positions'
  BY <1>1 DEF Inv, Positions, Between, Within, Held
<1>4. Recorded'
  BY <1>1 DEF Inv, Recorded, Held
<1>. QED  BY <1>1, <1>2, <1>3, <1>4

LEMMA FinishStep ==
    ASSUME Inv, UNCHANGED <<header, drive, system>>, count'.saveFailed = count.saveFailed,
           setup.pc \in Held, Leave("finish", "failed")
    PROVE  /\ Control' /\ Positions' /\ Configured' /\ Recorded'
           /\ Area' = Area /\ setup'.pc = "finish" /\ setup' \in SetupFields(setup'.buf)
<1>1. Area' = Area /\ AreaEmpty' = AreaEmpty /\ AreaNext' = AreaNext /\ Synced' = Synced
  BY DEF Area, AreaEmpty, Encrypted, AreaNext, Synced
<1>2. /\ setup' \in SetupFields(setup'.buf) /\ setup'.pc = "finish" /\ setup'.thread = setup.thread
      /\ setup'.mode = setup.mode /\ setup'.dirty = setup.dirty
  BY LeaveUpdate DEF Inv, Steps, Results
<1>3. Control' /\ Configured'
  BY <1>2 DEF Inv, Control, InProgress, Configured, Held
<1>4. Positions'
  BY <1>1, <1>2 DEF Inv, Positions, Between, Within, Held
<1>5. Recorded'
  BY <1>1, <1>2 DEF Inv, Recorded, Held
<1>. QED  BY <1>1, <1>2, <1>3, <1>4, <1>5

(* A read leaves in the buffer what the block will be.                        *)
LEMMA ReadStep ==
    ASSUME Inv, setup.pc = "read", UNCHANGED <<header, drive, system, stored>>,
           count' \in CountFields, count'.saveFailed = count.saveFailed,
           NEW data \in [Sectors -> Cells], Transformed(data),
           disk' \in [Sectors -> Cells], \A s \in Sectors \ Block : disk'[s] = disk[s],
           lost' \in [Sectors -> Reasons], CleanRestartLosesNothing',
           \A s \in Sectors : lost'[s] = "no" => lost[s] = "no" /\ (s \in Block => data[s] = disk[s])
    PROVE  Inv'
<1>1. /\ Fields /\ setup.mode \in Modes /\ Direction \in Int /\ setup.result \in Results /\ stored \in [Sectors -> Nat]
      /\ Block \subseteq Sectors /\ \A s \in Block : s \in Area <=> setup.mode = "decrypt"
      /\ setup.pc \in Held /\ setup.pc \notin Busy
  BY BlockPlace DEF Inv, Fields, SetupFields, Direction, Within, Held, Busy
<1>. DEFINE read == [s \in Block |-> data[s]]
            new == Transform(read, Direction)
            pc == IF setup.mode = "encrypt" /\ setup.wipe > 0 THEN "wipe" ELSE "write"
<1>2. read \in [Block -> Cells] /\ \A s \in Block : read[s] = data[s]
  BY <1>1
<1>3. new \in [Block -> Cells] /\ \A s \in Block : new[s] \in {Junk, Cell(data[s].data, data[s].layers + Direction)}
  <2>. HIDE DEF read
  <2>. QED  BY <1>1, <1>2, TransformCells
<1>4. /\ setup' \in SetupFields(setup'.buf) /\ setup'.pc = pc /\ setup'.thread = setup.thread /\ setup'.mode = setup.mode
      /\ setup'.offset = setup.offset /\ setup'.size = setup.size /\ setup'.buf = new /\ setup'.dirty = setup.dirty
  <2>1. Loaded(pc, 1, setup.result, new)
    BY <1>1 DEF Transformed, Fields, SetupFields, Loaded
  <2>2. pc \in Steps
    BY DEF Steps
  <2>. HIDE DEF pc, new
  <2>. QED  BY <1>1, <2>1, <2>2, BufferUpdate
<1>5. setup'.pc \in {"wipe", "write"}
  BY <1>4
<1>. HIDE DEF pc, new, read
<1>6. Control' /\ Positions' /\ Configured' /\ Recorded' /\ Area' = Area /\ Block' = Block
  BY <1>1, <1>4, <1>5, WithinStep DEF Held
<1>7. Fields' /\ Buffer'
  BY <1>1, <1>3, <1>4, <1>6 DEF Fields, Buffer
<1>8. ASSUME NEW s \in Sectors, lost'[s] = "no", s \in Block PROVE new[s] \in {Junk, New(s)'}
  <2>1. data[s] = Cell(stored[s], IF s \in Area THEN 1 ELSE 0)
    BY <1>1, <1>8 DEF Inv, Data, Kept, Form
  <2>2. data[s].data = stored[s] /\ data[s].layers + Direction = IF setup.mode = "encrypt" THEN 1 ELSE 0
    BY <1>1, <1>8, <2>1 DEF Cell, Direction, Modes
  <2>. QED  BY <1>3, <1>4, <1>8, <2>2 DEF New
<1>9. ASSUME NEW s \in Sectors, lost'[s] = "no", s \notin Block PROVE Kept(s)'
  BY <1>1, <1>6, <1>9 DEF Inv, Data, Kept, Form
<1>10. Data'
  BY <1>4, <1>5, <1>6, <1>8, <1>9 DEF Data, Busy
<1>. QED  BY <1>6, <1>7, <1>10 DEF Inv

LEMMA ReadBlockInv == ASSUME Inv, ReadBlock PROVE Inv'
<1>1. UNCHANGED <<disk, header, drive, system, stored, lost, count>> /\ setup.pc = "read" /\ Transformed(disk)
  BY DEF ReadBlock, At
<1>2. CleanRestartLosesNothing'
  BY <1>1 DEF Inv, CleanRestartLosesNothing
<1>. QED  BY <1>1, <1>2, ReadStep DEF Inv, Fields

LEMMA ReadFailsInv == ASSUME Inv, ReadFails PROVE Inv'
<1>1. /\ UNCHANGED <<header, drive, system, stored>> /\ setup.pc = "read" /\ count' = [count EXCEPT !.faults = @ + 1]
      /\ disk \in [Sectors -> Cells] /\ lost \in [Sectors -> Reasons] /\ Junk \in Cells /\ setup.pc \in Held
  BY CellTypes DEF ReadFails, At, Fault, Inv, Fields, Held
<1>2. count' \in CountFields /\ count'.saveFailed = count.saveFailed
  BY <1>1, CountUpdate DEF Inv, Fields
<1>3. \A s \in Block : s \in Sectors
  BY <1>1, BlockPlace DEF Inv, Within
<1>4. CASE ReadError
  <2>1. Leave("finish", "failed") /\ UNCHANGED <<disk, lost>>
    BY <1>4 DEF ReadError, Finish
  <2>2. /\ Control' /\ Positions' /\ Configured' /\ Recorded'
        /\ Area' = Area /\ setup'.pc = "finish" /\ setup' \in SetupFields(setup'.buf)
    BY <1>1, <1>2, <2>1, FinishStep
  <2>3. Fields' /\ CleanRestartLosesNothing'
    BY <1>1, <1>2, <2>1, <2>2 DEF Inv, Fields, CleanRestartLosesNothing
  <2>4. setup.pc \notin Busy /\ setup'.pc \notin Busy
    BY <1>1, <2>2 DEF Busy
  <2>5. Data' /\ Buffer'
    BY <1>1, <2>1, <2>2, <2>4, CalmFrame DEF Inv
  <2>. QED  BY <2>2, <2>3, <2>5 DEF Inv
<1>5. ASSUME NEW bad \in Block, lost' = GiveUp({bad}, "discarded")
      PROVE  /\ lost' \in [Sectors -> Reasons] /\ CleanRestartLosesNothing'
             /\ \A s \in Sectors : lost'[s] = "no" => lost[s] = "no" /\ s # bad
  BY <1>1, <1>5 DEF GiveUp, Reasons, Inv, CleanRestartLosesNothing
<1>6. ASSUME NEW bad \in Block, ReadZeroed(bad) PROVE Inv'
  <2>1. disk' = Overwrite({bad}, [s \in {bad} |-> Junk]) /\ lost' = GiveUp({bad}, "discarded") /\ Transformed(disk')
    BY <1>6 DEF ReadZeroed
  <2>2. disk' \in [Sectors -> Cells] /\ \A s \in Sectors : s # bad => disk'[s] = disk[s]
    BY <1>1, <2>1, OverwriteCells
  <2>. QED  BY <1>1, <1>2, <1>5, <2>1, <2>2, ReadStep
<1>7. ASSUME NEW bad \in Block, ReadSkipped(bad) PROVE Inv'
  <2>1. UNCHANGED disk /\ lost' = GiveUp({bad}, "discarded") /\ Transformed([disk EXCEPT ![bad] = Junk])
    BY <1>7 DEF ReadSkipped
  <2>2. /\ [disk EXCEPT ![bad] = Junk] \in [Sectors -> Cells]
        /\ \A s \in Sectors : s # bad => [disk EXCEPT ![bad] = Junk][s] = disk[s]
    BY <1>1
  <2>. QED  BY <1>1, <1>2, <1>5, <2>1, <2>2, ReadStep
<1>. QED  BY <1>4, <1>6, <1>7 DEF ReadFails

(* What a write or an undo leaves on the disk.                                *)
LEMMA WrittenCells ==
    ASSUME Inv, setup.pc \in {"wipe", "write", "undo"}, NEW W \in SUBSET Block
    PROVE  /\ Written(setup.pc, W) \in [Sectors -> Cells]
           /\ \A s \in Sectors \ W : Written(setup.pc, W)[s] = disk[s]
           /\ setup.pc # "wipe" => \A s \in Sectors \cap W : Written(setup.pc, W)[s] = setup.buf[s]
<1>1. disk \in [Sectors -> Cells] /\ \A s \in W : setup.buf[s] \in Cells
  BY DEF Inv, Fields, Buffer, Busy
<1>2. CASE setup.pc = "wipe"
  <2>1. [s \in W |-> Junk] = [s \in W |-> Junk] /\ \A s \in W : [x \in W |-> Junk][s] \in Cells
    BY CellTypes
  <2>. QED  BY <1>1, <1>2, <2>1, OverwriteCells DEF Written
<1>3. CASE setup.pc # "wipe"
  BY <1>1, <1>3, OverwriteCells DEF Written
<1>. QED  BY <1>2, <1>3

LEMMA WipePassInv == ASSUME Inv, WipePass PROVE Inv'
<1>. DEFINE pc == IF setup.pass = setup.wipe THEN "write" ELSE "wipe"
<1>1. /\ setup.pc = "wipe" /\ disk' = Written("wipe", Block) /\ UNCHANGED <<header, drive, system, stored, lost, count>>
      /\ setup' = [setup EXCEPT !.pc = pc, !.pass = @ + 1]
  BY DEF WipePass, At
<1>2. disk' \in [Sectors -> Cells] /\ \A s \in Sectors \ Block : disk'[s] = disk[s]
  BY <1>1, WrittenCells
<1>3. setup.pass + 1 \in Nat /\ setup.result \in Results /\ pc \in Steps /\ pc \in {"wipe", "write"}
  BY DEF Inv, Fields, SetupFields, Steps
<1>4. /\ setup' \in SetupFields(setup'.buf) /\ setup'.pc = pc /\ setup'.thread = setup.thread /\ setup'.mode = setup.mode
      /\ setup'.offset = setup.offset /\ setup'.size = setup.size /\ setup'.buf = setup.buf /\ setup'.dirty = setup.dirty
  <2>1. Loaded(pc, setup.pass + 1, setup.result, setup.buf)
    BY <1>1 DEF Inv, Fields, SetupFields, Loaded
  <2>. HIDE DEF pc
  <2>. QED  BY <1>3, <2>1, BufferUpdate DEF Inv
<1>. HIDE DEF pc
<1>5. Control' /\ Positions' /\ Configured' /\ Recorded' /\ Area' = Area /\ Block' = Block
  BY <1>1, <1>3, <1>4, WithinStep DEF Held
<1>6. Fields' /\ Buffer' /\ CleanRestartLosesNothing'
  BY <1>1, <1>2, <1>4, <1>5 DEF Inv, Fields, Buffer, Busy, CleanRestartLosesNothing
<1>7. Data'
  BY <1>1, <1>2, <1>3, <1>4, <1>5 DEF Inv, Data, Busy, Kept, Form, New
<1>. QED  BY <1>5, <1>6, <1>7 DEF Inv

LEMMA WriteBlockInv == ASSUME Inv, WriteBlock PROVE Inv'
<1>1. /\ setup.pc = "write" /\ disk' = Written("write", Block) /\ UNCHANGED <<header, drive, system, stored, count>>
      /\ lost' = GiveUp({s \in Block : setup.buf[s] = Junk}, "cleared") /\ setup' = [setup EXCEPT !.pc = "moveEnd"]
  BY DEF WriteBlock, At, Goto
<1>2. /\ disk' \in [Sectors -> Cells] /\ \A s \in Sectors \ Block : disk'[s] = disk[s]
      /\ \A s \in Sectors \cap Block : disk'[s] = setup.buf[s]
  BY <1>1, WrittenCells
<1>3. /\ setup' \in SetupFields(setup'.buf) /\ setup'.pc = "moveEnd" /\ setup'.thread = setup.thread /\ setup'.mode = setup.mode
      /\ setup'.offset = setup.offset /\ setup'.size = setup.size /\ setup'.buf = setup.buf /\ setup'.dirty = setup.dirty
  BY <1>1, PcUpdate DEF Inv, Steps
<1>4. Control' /\ Positions' /\ Configured' /\ Recorded' /\ Area' = Area /\ Block' = Block
  BY <1>1, <1>3, WithinStep DEF Held
<1>5. /\ lost' \in [Sectors -> Reasons] /\ CleanRestartLosesNothing'
      /\ \A s \in Sectors : lost'[s] = "no" => lost[s] = "no" /\ (s \in Block => setup.buf[s] # Junk)
  BY <1>1 DEF GiveUp, Reasons, Inv, Fields, CleanRestartLosesNothing
<1>6. Fields' /\ Buffer'
  BY <1>1, <1>2, <1>3, <1>4, <1>5 DEF Inv, Fields, Buffer, Busy
<1>7. Data'
  BY <1>1, <1>2, <1>3, <1>4, <1>5 DEF Inv, Data, Busy, Kept, Form, New
<1>. QED  BY <1>4, <1>5, <1>6, <1>7 DEF Inv

LEMMA WriteFailsInv == ASSUME Inv, WriteFails PROVE Inv'
<1>1. /\ setup.pc \in {"wipe", "write"} /\ UNCHANGED <<header, drive, system, stored, lost>>
      /\ count' = [count EXCEPT !.faults = @ + 1]
      /\ setup' = [setup EXCEPT !.pc = "undo", !.result = "failed", !.buf = Transform(setup.buf, -Direction)]
  BY DEF WriteFails, Fault
<1>2. disk' \in [Sectors -> Cells] /\ \A s \in Sectors \ Block : disk'[s] = disk[s]
  <2>1. PICK W \in SUBSET Block : disk' = Written(setup.pc, W)
    BY DEF WriteFails
  <2>. QED  BY <1>1, <2>1, WrittenCells
<1>3. /\ setup.buf \in [Block -> Cells] /\ -Direction \in Int /\ setup.mode \in Modes /\ setup.pass \in Nat
      /\ stored \in [Sectors -> Nat] /\ Fields
  BY <1>1 DEF Inv, Buffer, Busy, Direction, Fields, SetupFields
<1>. DEFINE old == Transform(setup.buf, -Direction)
<1>4. /\ old \in [Block -> Cells] /\ \A s \in Block : setup.buf[s] = Junk => old[s] = Junk
      /\ \A s \in Block : old[s] \in {Junk, Cell(setup.buf[s].data, setup.buf[s].layers + (-Direction))}
  BY <1>3, TransformCells
<1>. HIDE DEF old
<1>5. /\ setup' \in SetupFields(setup'.buf) /\ setup'.pc = "undo" /\ setup'.thread = setup.thread /\ setup'.mode = setup.mode
      /\ setup'.offset = setup.offset /\ setup'.size = setup.size /\ setup'.buf = old /\ setup'.dirty = setup.dirty
  <2>1. Loaded("undo", setup.pass, "failed", old)
    BY <1>1 DEF Inv, Fields, SetupFields, old, Loaded
  <2>2. "undo" \in Steps /\ "failed" \in Results
    BY DEF Steps, Results
  <2>. QED  BY <1>3, <2>1, <2>2, BufferUpdate
<1>6. count' \in CountFields /\ count'.saveFailed = count.saveFailed
  BY <1>1, CountUpdate DEF Inv, Fields
<1>7. Control' /\ Positions' /\ Configured' /\ Recorded' /\ Area' = Area /\ Block' = Block
  BY <1>1, <1>5, <1>6, WithinStep DEF Held
<1>8. Fields' /\ Buffer' /\ CleanRestartLosesNothing'
  BY <1>1, <1>2, <1>4, <1>5, <1>6, <1>7 DEF Inv, Fields, Buffer, CleanRestartLosesNothing
<1>9. ASSUME NEW s \in Sectors, lost[s] = "no", s \in Block PROVE old[s] \in {Junk, Old(s)'}
  <2>1. setup.buf[s] \in {Junk, New(s)}
    BY <1>1, <1>9 DEF Inv, Data
  <2>2. CASE setup.buf[s] = New(s)
    <3>1. /\ setup.buf[s].data = stored[s]
          /\ setup.buf[s].layers + (-Direction) = IF setup.mode = "encrypt" THEN 0 ELSE 1
      BY <1>3, <2>2 DEF New, Cell, Direction, Modes
    <3>. QED  BY <1>1, <1>4, <1>5, <1>9, <3>1 DEF Old
  <2>. QED  BY <1>4, <1>9, <2>1, <2>2
<1>10. Data'
  BY <1>1, <1>2, <1>5, <1>7, <1>9 DEF Inv, Data, Busy, Kept, Form
<1>. QED  BY <1>7, <1>8, <1>10 DEF Inv

(* The undo leaves the block as the area says, or what it could not put back  *)
(* is given up.                                                               *)
LEMMA UndoWriteInv == ASSUME Inv, UndoWrite PROVE Inv'
<1>1. setup.pc = "undo" /\ UNCHANGED <<header, drive, system, stored>> /\ Leave("finish", "failed")
  BY DEF UndoWrite, At, Finish
<1>2. /\ disk \in [Sectors -> Cells] /\ lost \in [Sectors -> Reasons] /\ count \in CountFields /\ setup.mode \in Modes
      /\ Block \subseteq Sectors /\ \A s \in Block : s \in Area <=> setup.mode = "decrypt"
      /\ \A s \in Sectors : lost[s] # "clean"
  BY <1>1, BlockPlace DEF Inv, Fields, SetupFields, Within, CleanRestartLosesNothing
<1>3. /\ disk' \in [Sectors -> Cells] /\ lost' \in [Sectors -> Reasons] /\ CleanRestartLosesNothing'
      /\ count' \in CountFields /\ count'.saveFailed = count.saveFailed
      /\ \A s \in Sectors : lost'[s] = "no" => disk'[s] = Form(s, Area)
  <2>1. CASE /\ disk' = Written("undo", Block) /\ lost' = GiveUp({s \in Block : setup.buf[s] = Junk}, "cleared")
             /\ UNCHANGED count
    <3>1. /\ disk' \in [Sectors -> Cells] /\ \A s \in Sectors \ Block : disk'[s] = disk[s]
          /\ \A s \in Sectors \cap Block : disk'[s] = setup.buf[s]
      BY <1>1, <2>1, WrittenCells
    <3>2. /\ lost' \in [Sectors -> Reasons] /\ CleanRestartLosesNothing'
          /\ \A s \in Sectors : lost'[s] = "no" => lost[s] = "no" /\ (s \in Block => setup.buf[s] # Junk)
      BY <1>2, <2>1 DEF GiveUp, Reasons, CleanRestartLosesNothing
    <3>3. \A s \in Block : Old(s) = Form(s, Area)
      BY <1>2 DEF Old, Form, Modes
    <3>4. \A s \in Sectors : lost'[s] = "no" => disk'[s] = Form(s, Area)
      BY <1>1, <1>2, <3>1, <3>2, <3>3 DEF Inv, Data, Kept
    <3>. QED  BY <1>2, <2>1, <3>1, <3>2, <3>4
  <2>2. CASE /\ Fault /\ \E W \in SUBSET Block : disk' = Written("undo", W)
             /\ lost' = GiveUp({s \in Block : disk'[s] # Form(s, Area)}, "fault")
    <3>1. PICK W \in SUBSET Block : disk' = Written("undo", W)
      BY <2>2
    <3>2. disk' \in [Sectors -> Cells] /\ \A s \in Sectors \ Block : disk'[s] = disk[s]
      BY <1>1, <3>1, WrittenCells
    <3>3. /\ lost' \in [Sectors -> Reasons] /\ CleanRestartLosesNothing'
          /\ \A s \in Sectors : lost'[s] = "no" => lost[s] = "no" /\ (s \in Block => disk'[s] = Form(s, Area))
      BY <1>2, <2>2 DEF GiveUp, Reasons, CleanRestartLosesNothing
    <3>4. \A s \in Sectors : lost'[s] = "no" => disk'[s] = Form(s, Area)
      BY <1>2, <3>2, <3>3 DEF Inv, Data, Kept
    <3>5. count' \in CountFields /\ count'.saveFailed = count.saveFailed
      BY <1>2, <2>2, CountUpdate DEF Fault
    <3>. QED  BY <3>2, <3>3, <3>4, <3>5
  <2>. QED  BY <2>1, <2>2 DEF UndoWrite
<1>4. /\ Control' /\ Positions' /\ Configured' /\ Recorded'
      /\ Area' = Area /\ setup'.pc = "finish" /\ setup' \in SetupFields(setup'.buf)
  BY <1>1, <1>3, FinishStep DEF Held
<1>5. Fields' /\ Buffer'
  BY <1>1, <1>3, <1>4 DEF Inv, Fields, Buffer, Busy
<1>6. Data'
  BY <1>1, <1>3, <1>4 DEF Data, Busy, Kept, Form
<1>. QED  BY <1>3, <1>4, <1>5, <1>6 DEF Inv

(* The block joins the area, or leaves it, in the step that ends the hold.    *)
LEMMA MoveEndInv == ASSUME Inv, MoveEnd PROVE Inv'
<1>. DEFINE offset == IF setup.mode = "encrypt" THEN setup.offset + setup.size ELSE setup.offset
            since == setup.since + setup.size
            pc == IF since >= UpdateThreshold THEN "save" ELSE "loop"
<1>1. /\ setup.pc = "moveEnd" /\ UNCHANGED <<disk, header, system, stored, lost, count>>
      /\ drive' = [drive EXCEPT !.end = offset - 1, !.suspended = FALSE]
      /\ setup' = [setup EXCEPT !.pc = pc, !.offset = offset, !.since = since, !.dirty = TRUE, !.buf = <<>>, !.pass = 0]
  BY DEF MoveEnd, At
<1>2. /\ setup \in SetupFields(setup.buf) /\ drive \in DriveFields /\ drive.mounted /\ drive.start = ConfiguredStart
      /\ drive.confStart = ConfiguredStart /\ drive.confEnd = ConfiguredEnd /\ setup.size > 0
      /\ setup.offset \in Nat /\ setup.size \in Nat /\ setup.since \in Nat /\ setup.mode \in Modes
      /\ drive.end \in -1 .. ConfiguredEnd
  BY <1>1, RunningDrive DEF Inv, Positions, Within, SetupFields, DriveFields
<1>3. /\ drive.end = -1 \/ ConfiguredStart - 1 <= drive.end
      /\ IF setup.mode = "encrypt"
         THEN setup.offset = AreaNext /\ setup.offset + setup.size - 1 <= ConfiguredEnd
         ELSE drive.end # -1 /\ setup.offset + setup.size = drive.end + 1 /\ ConfiguredStart <= setup.offset
  BY <1>1 DEF Inv, Positions, Within
<1>4. /\ offset \in Nat /\ ConfiguredStart <= offset /\ offset - 1 \in -1 .. ConfiguredEnd
      /\ setup.mode = "encrypt" => ConfiguredStart < offset
  BY <1>2, <1>3, Sizes DEF AreaNext, Modes
<1>5. pc \in Steps /\ pc \in {"save", "loop"} /\ since \in Nat
  BY <1>2 DEF Steps
<1>. HIDE DEF pc, since
<1>6. /\ setup' \in SetupFields(setup'.buf) /\ setup'.pc = pc /\ setup'.thread = setup.thread /\ setup'.mode = setup.mode
      /\ setup'.offset = offset /\ setup'.size = setup.size /\ setup'.dirty
  <2>. HIDE DEF offset
  <2>. QED  BY <1>1, <1>2, <1>4, <1>5 DEF SetupFields
<1>7. /\ drive' \in DriveFields /\ drive'.mounted /\ drive'.start = ConfiguredStart /\ drive'.end = offset - 1
      /\ drive'.confStart = ConfiguredStart /\ drive'.confEnd = ConfiguredEnd
  <2>. HIDE DEF offset
  <2>. QED  BY <1>1, <1>2, <1>4 DEF DriveFields
<1>8. AreaNext' = offset
  <2>. HIDE DEF offset
  <2>. QED  BY <1>4, <1>7, Sizes DEF AreaNext
<1>9. Area' = ConfiguredStart .. offset - 1
  <2>1. ConfiguredStart # -1
    BY Sizes
  <2>2. CASE offset = 0
    <3>1. offset - 1 = -1 /\ ConfiguredStart .. offset - 1 = {}
      BY <2>2, Sizes
    <3>. QED  BY <1>7, <2>1, <3>1 DEF Area
  <2>3. CASE offset # 0
    <3>1. offset - 1 # -1
      BY <1>4, <2>3
    <3>. QED  BY <1>7, <2>1, <3>1 DEF Area
  <2>. QED  BY <2>2, <2>3
<1>10. Fields' /\ Control' /\ Buffer' /\ CleanRestartLosesNothing' /\ Configured'
  BY <1>1, <1>5, <1>6, <1>7
     DEF Inv, Fields, Control, InProgress, Buffer, Busy, CleanRestartLosesNothing, Configured
<1>11. Positions'
  <2>. HIDE DEF offset
  <2>1. ConfiguredStart - 1 <= offset - 1
    BY <1>4, Sizes
  <2>. QED  BY <1>2, <1>5, <1>6, <1>7, <1>8, <2>1 DEF Positions, Between, Within, Held
<1>12. /\ \A s \in Block : s \in Area <=> setup.mode = "decrypt"
       /\ \A s \in Block : s \in Area' <=> setup.mode = "encrypt"
       /\ \A s \in Sectors \ Block : s \in Area <=> s \in Area'
  <2>1. \A s \in Block : s \in Area <=> setup.mode = "decrypt"
    BY <1>1, BlockPlace DEF Inv, Within
  <2>2. Area = ConfiguredStart .. AreaNext - 1
    <3>1. ConfiguredStart # -1
      BY Sizes
    <3>2. CASE drive.end = -1
      <4>1. ConfiguredStart .. ConfiguredStart - 1 = {}
        BY Sizes
      <4>. QED  BY <3>2, <4>1 DEF Area, AreaNext
    <3>3. CASE drive.end # -1
      <4>1. drive.end + 1 - 1 = drive.end
        BY <1>2
      <4>. QED  BY <1>2, <3>1, <3>3, <4>1 DEF Area, AreaNext
    <3>. QED  BY <3>2, <3>3
  <2>3. AreaNext \in Nat
    BY <1>2, <1>3, Sizes DEF AreaNext
  <2>4. CASE setup.mode = "encrypt"
    <3>1. offset = AreaNext + setup.size /\ setup.offset = AreaNext /\ ConfiguredStart <= AreaNext
      BY <1>2, <1>3, <2>4, Sizes DEF AreaNext
    <3>. HIDE DEF offset
    <3>. QED  BY SMTT(30), <1>2, <1>9, <2>1, <2>2, <2>3, <2>4, <3>1, Sizes DEF Block, Sectors
  <2>5. CASE setup.mode = "decrypt"
    <3>1. AreaNext = setup.offset + setup.size
      BY <1>3, <2>5 DEF AreaNext
    <3>. QED  BY SMTT(30), <1>2, <1>3, <1>9, <2>1, <2>2, <2>3, <2>5, <3>1, Sizes DEF Block, Sectors
  <2>. QED  BY <1>2, <2>4, <2>5 DEF Modes
<1>. HIDE DEF offset
<1>13. Data'
  <2>1. ASSUME NEW s \in Sectors, lost[s] = "no" PROVE Kept(s)'
    <3>1. CASE s \in Block
      BY <1>1, <1>2, <1>12, <2>1, <3>1 DEF Inv, Data, Kept, Form, New, Modes
    <3>2. CASE s \notin Block
      BY <1>1, <1>12, <2>1, <3>2 DEF Inv, Data, Kept, Form
    <3>. QED  BY <3>1, <3>2
  <2>. QED  BY <1>1, <1>5, <1>6, <2>1 DEF Data, Busy
<1>14. setup'.mode = "encrypt" => ~AreaEmpty'
  BY <1>4, <1>6, <1>7, Sizes DEF AreaEmpty, Encrypted
<1>15. Recorded'
  BY SMTT(30), <1>1, <1>2, <1>5, <1>6, <1>7, <1>14, Sizes DEF Inv, Recorded
<1>. QED  BY <1>10, <1>11, <1>13, <1>15 DEF Inv

----------------------------------------------------------------------------
(* The header, and the end of the thread *)

(* A header that was written says where the area ends; no header is written   *)
(* over with none unless a decryption has come to its end.                    *)
LEMMA Saved ==
    ASSUME Inv, SaveSucceeds, setup.dirty, setup.pc \in {"save", "lastSave"}, UNCHANGED drive
    PROVE  /\ header' \in [present : BOOLEAN, length : 0 .. (ConfiguredEnd + 1 - ConfiguredStart)]
           /\ count' \in CountFields /\ count'.saveFailed = FALSE
           /\ Synced' /\ (header'.present <=> ~AreaEmpty) /\ (AreaEmpty => setup.mode = "decrypt")
<1>. DEFINE H == [present : BOOLEAN, length : 0 .. (ConfiguredEnd + 1 - ConfiguredStart)]
<1>1. count' \in CountFields /\ count'.saveFailed = FALSE
  BY CountUpdate DEF SaveSucceeds, Inv, Fields
<1>2. /\ drive \in DriveFields /\ drive.end \in -1 .. ConfiguredEnd /\ drive.start \in {-1, ConfiguredStart}
      /\ setup.mode \in Modes /\ (setup.mode = "encrypt" => ~AreaEmpty) /\ header' = HeaderOfArea
  BY DEF Inv, Fields, DriveFields, SetupFields, Recorded, SaveSucceeds
<1>3. Area' = Area
  BY DEF Area
<1>4. CASE AreaEmpty
  <2>1. header' = [present |-> FALSE, length |-> 0] /\ setup.mode = "decrypt"
    BY <1>2, <1>4 DEF HeaderOfArea, Modes
  <2>2. header' \in H
    BY <2>1, Sizes
  <2>3. Area = {}
    BY <1>2, <1>4, Sizes DEF AreaEmpty, Encrypted, Area
  <2>4. Synced'
    BY <1>3, <2>1, <2>3 DEF Synced, AreaOf, StartDrive, Unmounted
  <2>. QED  BY <1>1, <1>4, <2>1, <2>2, <2>4
<1>5. CASE ~AreaEmpty
  <2>1. header' = [present |-> TRUE, length |-> drive.end + 1 - drive.start] /\ drive.start # -1 /\ drive.end # -1
        /\ ~(drive.end < drive.start)
    BY <1>2, <1>5 DEF HeaderOfArea, AreaEmpty, Encrypted
  <2>2. drive.start = ConfiguredStart /\ drive.start <= drive.end /\ drive.end \in Int
    BY <1>2, <2>1, Sizes
  <2>3. drive.end + 1 - drive.start \in 0 .. (ConfiguredEnd + 1 - ConfiguredStart) /\ drive.end + 1 - drive.start # 0
        /\ ConfiguredStart + (drive.end + 1 - drive.start) - 1 = drive.end
    BY <1>2, <2>2, Sizes
  <2>4. header' \in H
    BY <2>1, <2>3
  <2>5. StartDrive(header').start = ConfiguredStart /\ StartDrive(header').end = drive.end
    BY <2>1, <2>3 DEF StartDrive, MountDrive
  <2>6. Area = ConfiguredStart .. drive.end /\ ConfiguredStart # -1
    BY <2>1, <2>2, Sizes DEF Area
  <2>7. AreaOf(StartDrive(header')) = Area
    BY <2>5, <2>6 DEF AreaOf
  <2>8. Synced'
    BY <1>3, <2>7 DEF Synced
  <2>. QED  BY <1>1, <1>5, <2>1, <2>4, <2>8
<1>. QED  BY <1>4, <1>5

LEMMA NotSaved ==
    ASSUME Inv, SaveFails
    PROVE  UNCHANGED header /\ count' \in CountFields /\ count'.saveFailed = TRUE
<1>1. count \in CountFields
  BY DEF Inv, Fields
<1>2. \/ count' = [count EXCEPT !.saveFailed = TRUE, !.faults = @ + 1]
      \/ count' = [count EXCEPT !.saveFailed = TRUE]
  BY DEF SaveFails
<1>3. CASE count' = [count EXCEPT !.saveFailed = TRUE, !.faults = @ + 1]
  BY <1>1, <1>3, CountUpdate DEF SaveFails
<1>4. CASE count' = [count EXCEPT !.saveFailed = TRUE]
  BY <1>1, <1>4, CountUpdate DEF SaveFails
<1>. QED  BY <1>2, <1>3, <1>4

LEMMA SaveHeaderInv == ASSUME Inv, SaveHeader PROVE Inv'
<1>1. UNCHANGED <<disk, stored, lost>> /\ UNCHANGED <<drive, system>> /\ setup.pc = "save" /\ setup.pc \notin Busy /\ setup.dirty
      /\ drive \in DriveFields
  BY DEF SaveHeader, At, Busy, Inv, Recorded, Fields
<1>2. Area' = Area /\ AreaEmpty' = AreaEmpty /\ AreaNext' = AreaNext
  BY <1>1 DEF Area, AreaEmpty, Encrypted, AreaNext
<1>3. CASE SaveSucceeds /\ setup' = [setup EXCEPT !.pc = "loop", !.dirty = FALSE, !.since = 0]
  <2>1. /\ setup' \in SetupFields(setup'.buf) /\ setup'.pc = "loop" /\ setup'.thread = setup.thread /\ setup'.mode = setup.mode
        /\ setup'.offset = setup.offset /\ setup'.size = setup.size /\ setup'.dirty = FALSE
    <3>1. setup' = [setup EXCEPT !.pc = "loop", !.dirty = FALSE, !.since = 0] /\ "loop" \in Steps
      BY <1>3 DEF Steps
    <3>. QED  BY <3>1, SavedUpdate DEF Inv
  <2>2. /\ header' \in [present : BOOLEAN, length : 0 .. (ConfiguredEnd + 1 - ConfiguredStart)]
        /\ count' \in CountFields /\ count'.saveFailed = FALSE
        /\ Synced' /\ (header'.present <=> ~AreaEmpty) /\ (AreaEmpty => setup.mode = "decrypt")
    BY <1>1, <1>3, Saved
  <2>3. Fields' /\ Control' /\ Data' /\ Buffer' /\ CleanRestartLosesNothing'
    <3>1. setup'.pc \notin Busy
      BY <2>1 DEF Busy
    <3>. QED  BY <1>1, <1>2, <2>1, <2>2, <3>1, CalmStep DEF Inv, Fields
  <2>4. Positions' /\ Configured'
    BY <1>1, <1>2, <2>1 DEF Inv, Positions, Between, Within, Held, Configured
  <2>5. Recorded'
    <3>1. drive.mounted /\ drive.confEnd # -1
      BY <1>1, RunningDrive, Sizes DEF Between
    <3>. QED  BY <1>1, <1>2, <2>1, <2>2, <3>1, Sizes DEF Recorded
  <2>. QED  BY <2>3, <2>4, <2>5 DEF Inv
<1>4. CASE SaveFails /\ setup' = [setup EXCEPT !.pc = "loop"]
  <2>1. /\ setup' \in SetupFields(setup'.buf) /\ setup'.pc = "loop" /\ setup'.thread = setup.thread /\ setup'.mode = setup.mode
        /\ setup'.offset = setup.offset /\ setup'.size = setup.size /\ setup'.dirty = setup.dirty
    BY <1>4, PcUpdate DEF Inv, Steps
  <2>2. UNCHANGED header /\ count' \in CountFields /\ count'.saveFailed = TRUE
    BY <1>4, NotSaved
  <2>3. Fields' /\ Control' /\ Data' /\ Buffer' /\ CleanRestartLosesNothing'
    <3>1. setup'.pc \notin Busy
      BY <2>1 DEF Busy
    <3>. QED  BY <1>1, <1>2, <2>1, <2>2, <3>1, CalmStep DEF Inv, Fields
  <2>4. Positions' /\ Configured'
    BY <1>1, <1>2, <2>1 DEF Inv, Positions, Between, Within, Held, Configured
  <2>5. Recorded'
    BY <1>1, <1>2, <2>1, <2>2 DEF Inv, Recorded
  <2>. QED  BY <2>3, <2>4, <2>5 DEF Inv
<1>. QED  BY <1>3, <1>4 DEF SaveHeader, Goto

LEMMA EndHoldInv == ASSUME Inv, EndHold PROVE Inv'
<1>. DEFINE pc == IF setup.mode = "decrypt" /\ AreaEmpty THEN "lastHold" ELSE "lastSave"
<1>1. /\ setup.pc = "finish" /\ UNCHANGED <<disk, stored, lost>> /\ UNCHANGED <<header, system, count>>
      /\ drive' = [drive EXCEPT !.start = IF drive.end = -1 THEN -1 ELSE drive.start, !.suspended = FALSE]
      /\ setup' = [setup EXCEPT !.pc = pc]
  BY DEF EndHold, At, Goto
<1>2. /\ drive \in DriveFields /\ drive.mounted /\ drive.confStart = ConfiguredStart /\ drive.confEnd = ConfiguredEnd
      /\ drive.end = -1 \/ (drive.start = ConfiguredStart /\ ConfiguredStart - 1 <= drive.end)
  BY <1>1, RunningDrive
<1>3. /\ setup' \in SetupFields(setup'.buf) /\ setup'.pc = pc /\ setup'.thread = setup.thread /\ setup'.mode = setup.mode
      /\ setup'.size = setup.size /\ setup'.dirty = setup.dirty
  <2>1. pc \in Steps
    BY DEF Steps
  <2>. HIDE DEF pc
  <2>. QED  BY <1>1, <2>1, PcUpdate DEF Inv
<1>4. /\ drive' \in DriveFields /\ drive'.mounted /\ drive'.start = (IF drive.end = -1 THEN -1 ELSE drive.start)
      /\ drive'.end = drive.end /\ drive'.confStart = ConfiguredStart /\ drive'.confEnd = ConfiguredEnd
  BY <1>1, <1>2 DEF DriveFields
<1>5. Area' = Area /\ AreaEmpty' = AreaEmpty
  BY <1>4 DEF Area, AreaEmpty, Encrypted
<1>6. setup.pc \notin Busy /\ setup'.pc \notin Busy /\ setup'.pc \in {"lastHold", "lastSave"}
  BY <1>1, <1>3 DEF Busy
<1>7. Fields' /\ Control' /\ Data' /\ Buffer' /\ CleanRestartLosesNothing'
  BY <1>1, <1>2, <1>3, <1>4, <1>5, <1>6, CalmStep DEF Inv, Fields
<1>8. Positions' /\ Configured'
  BY <1>2, <1>4, <1>6 DEF Positions, Between, Within, Held, Configured
<1>9. Recorded'
  BY <1>1, <1>2, <1>3, <1>4, <1>5, <1>6, Sizes DEF Inv, Recorded, Synced
<1>. QED  BY <1>7, <1>8, <1>9 DEF Inv

LEMMA LastHoldInv == ASSUME Inv, LastHold PROVE Inv'
<1>1. /\ setup.pc = "lastHold" /\ UNCHANGED <<disk, stored, lost>> /\ UNCHANGED <<header, system, count>>
      /\ drive' = [drive EXCEPT !.start = -1, !.end = -1, !.confStart = -1, !.confEnd = -1]
      /\ setup' = [setup EXCEPT !.pc = "lastSave", !.dirty = TRUE]
  BY DEF LastHold, Hold, At
<1>2. /\ drive \in DriveFields /\ drive.mounted /\ setup \in SetupFields(setup.buf)
      /\ drive.end \in Int /\ drive.start \in {-1, ConfiguredStart}
  BY <1>1, RunningDrive DEF DriveFields
<1>3. setup.mode = "decrypt" /\ AreaEmpty
  BY <1>1 DEF Inv, Recorded
<1>4. /\ setup' \in SetupFields(setup'.buf) /\ setup'.pc = "lastSave" /\ setup'.thread = setup.thread
      /\ setup'.mode = setup.mode /\ setup'.dirty
  BY <1>1, <1>2 DEF SetupFields, Steps
<1>5. /\ drive' \in DriveFields /\ drive'.mounted /\ drive'.start = -1 /\ drive'.end = -1
      /\ drive'.confStart = -1 /\ drive'.confEnd = -1
  <2>1. -1 \in -1 .. ConfiguredEnd
    BY Sizes
  <2>. QED  BY <1>1, <1>2, <2>1 DEF DriveFields
<1>6. Area' = Area /\ AreaEmpty'
  <2>1. Area = {}
    BY <1>2, <1>3, Sizes DEF Area, AreaEmpty, Encrypted
  <2>. QED  BY <1>5, <2>1 DEF Area, AreaEmpty, Encrypted
<1>7. setup.pc \notin Busy /\ setup'.pc \notin Busy
  BY <1>1, <1>4 DEF Busy
<1>8. Fields' /\ Control' /\ Data' /\ Buffer' /\ CleanRestartLosesNothing'
  BY <1>1, <1>2, <1>4, <1>5, <1>6, <1>7, CalmStep DEF Inv, Fields
<1>9. Positions' /\ Configured'
  BY <1>3, <1>4, <1>5 DEF Positions, Between, Within, Held, Configured
<1>10. Recorded'
  BY <1>1, <1>3, <1>4, <1>5, <1>6 DEF Inv, Recorded
<1>. QED  BY <1>8, <1>9, <1>10 DEF Inv

LEMMA LastSaveInv == ASSUME Inv, LastSave PROVE Inv'
<1>1. /\ UNCHANGED <<disk, stored, lost>> /\ UNCHANGED <<drive, system>> /\ setup.pc = "lastSave" /\ setup.pc \notin Busy
      /\ drive \in DriveFields /\ drive.mounted
  BY DEF LastSave, At, Busy, Inv, Fields, Control, InProgress
<1>2. Area' = Area /\ AreaEmpty' = AreaEmpty /\ AreaNext' = AreaNext
  BY <1>1 DEF Area, AreaEmpty, Encrypted, AreaNext
<1>3. /\ setup' \in SetupFields(setup'.buf) /\ setup'.pc = "dismount" /\ setup'.thread = setup.thread
      /\ setup'.mode = setup.mode /\ setup'.size = setup.size /\ setup'.dirty = setup.dirty
  <2>1. "dismount" \in Steps /\ "failed" \in Results
    BY DEF Steps, Results
  <2>2. CASE setup' = [setup EXCEPT !.pc = "dismount"]
    BY <2>1, <2>2, PcUpdate DEF Inv
  <2>3. CASE setup' = [setup EXCEPT !.pc = "dismount", !.result = "failed"]
    BY <2>1, <2>3, ResultUpdate DEF Inv
  <2>. QED  BY <2>2, <2>3 DEF LastSave, Goto, Fail
<1>4. /\ header' \in [present : BOOLEAN, length : 0 .. (ConfiguredEnd + 1 - ConfiguredStart)] /\ count' \in CountFields
      /\ \/ ~setup.dirty /\ UNCHANGED header /\ count'.saveFailed = count.saveFailed /\ Synced' = Synced
         \/ count'.saveFailed = FALSE /\ Synced' /\ (header'.present <=> ~AreaEmpty) /\ (AreaEmpty => setup.mode = "decrypt")
         \/ count'.saveFailed = TRUE
  <2>1. CASE ~setup.dirty /\ UNCHANGED <<header, count>>
    BY <1>2, <2>1 DEF Inv, Fields, Synced
  <2>2. CASE setup.dirty /\ SaveSucceeds
    BY <1>1, <2>2, Saved
  <2>3. CASE setup.dirty /\ SaveFails
    BY <2>3, NotSaved DEF Inv, Fields
  <2>. QED  BY <2>1, <2>2, <2>3 DEF LastSave
<1>5. Fields' /\ Control' /\ Data' /\ Buffer' /\ CleanRestartLosesNothing'
  <2>1. setup'.pc \notin Busy
    BY <1>3 DEF Busy
  <2>. QED  BY <1>1, <1>2, <1>3, <1>4, <2>1, CalmStep DEF Inv, Fields
<1>6. Positions' /\ Configured'
  BY <1>1, <1>3 DEF Inv, Positions, Between, Within, Held, Configured
<1>7. Recorded'
  BY <1>1, <1>2, <1>3, <1>4 DEF Inv, Recorded
<1>. QED  BY <1>5, <1>6, <1>7 DEF Inv

LEMMA DismountInv == ASSUME Inv, Dismount PROVE Inv'
<1>1. /\ setup.pc = "dismount" /\ setup.pc \notin Busy /\ UNCHANGED <<disk, stored, lost>> /\ UNCHANGED <<header, system, count>>
      /\ setup' = [setup EXCEPT !.pc = "ret"] /\ drive \in DriveFields /\ drive.mounted /\ setup.mode \in Modes
  BY DEF Dismount, At, Goto, Busy, Inv, Fields, SetupFields, Control, InProgress
<1>2. /\ setup' \in SetupFields(setup'.buf) /\ setup'.pc = "ret" /\ setup'.thread = setup.thread
      /\ setup'.mode = setup.mode /\ setup'.dirty = setup.dirty
  BY <1>1, PcUpdate DEF Inv, Steps
<1>3. /\ drive' \in DriveFields /\ drive'.start = drive.start /\ drive'.end = drive.end /\ drive'.confStart = drive.confStart
      /\ drive'.confEnd = drive.confEnd /\ (drive'.mounted <=> ~(setup.mode = "decrypt" /\ drive.confEnd = -1))
  <2>1. CASE setup.mode = "decrypt" /\ drive.confEnd = -1
    <3>1. drive' = [drive EXCEPT !.mounted = FALSE, !.headerKey = "closed", !.dataKey = "closed"]
      BY <1>1, <2>1 DEF Dismount
    <3>. QED  BY <1>1, <2>1, <3>1 DEF DriveFields, Keys
  <2>2. CASE ~(setup.mode = "decrypt" /\ drive.confEnd = -1)
    <3>1. UNCHANGED drive
      BY <1>1, <2>2 DEF Dismount
    <3>. QED  BY <1>1, <2>2, <3>1
  <2>. QED  BY <2>1, <2>2
<1>4. Area' = Area /\ AreaEmpty' = AreaEmpty
  BY <1>3 DEF Area, AreaEmpty, Encrypted
<1>5. setup'.pc \notin Busy /\ setup'.pc \in {"ret", "exited"}
  BY <1>2 DEF Busy
<1>6. Fields' /\ Control' /\ Data' /\ Buffer' /\ CleanRestartLosesNothing'
  BY <1>1, <1>2, <1>3, <1>4, <1>5, CalmStep DEF Inv, Fields
<1>7. Positions'
  BY <1>2, <1>3 DEF Inv, Positions, Between, Within, Held
<1>8. Configured'
  BY <1>1, <1>2, <1>3, Sizes DEF Inv, Configured
<1>9. Synced' = Synced
  BY <1>1, <1>4 DEF Synced
<1>10. Recorded'
  BY <1>1, <1>2, <1>3, <1>4, <1>9 DEF Inv, Recorded
<1>. QED  BY <1>6, <1>7, <1>8, <1>10 DEF Inv

LEMMA ReturnInv == ASSUME Inv, Return PROVE Inv'
<1>1. /\ setup.pc = "ret" /\ setup.pc \notin Busy /\ UNCHANGED <<disk, stored, lost, header, drive, count>> /\ UNCHANGED system
      /\ setup' = [NoSetup EXCEPT !.thread = TRUE, !.result = setup.result] /\ setup.result \in Results
      /\ setup.thread /\ setup.thread \in BOOLEAN
  BY DEF Return, At, Busy, Inv, Fields, SetupFields, Control, InProgress
<1>2. /\ setup' \in SetupFields(setup'.buf) /\ setup'.pc = "exited" /\ setup'.thread = TRUE /\ ~setup'.dirty
  BY <1>1 DEF NoSetup, SetupFields, Steps, Modes
<1>3. setup'.pc \notin Busy /\ setup'.thread = setup.thread
  BY <1>1, <1>2 DEF Busy
<1>4. /\ Fields' /\ Control' /\ Data' /\ Buffer' /\ CleanRestartLosesNothing'
      /\ Area' = Area /\ AreaNext' = AreaNext /\ AreaEmpty' = AreaEmpty /\ Synced' = Synced
  BY <1>1, <1>2, <1>3, PrivateStep DEF Inv, Fields
<1>5. Positions' /\ Configured'
  BY <1>1, <1>2 DEF Inv, Positions, Between, Within, Held, Configured
<1>6. Recorded'
  BY <1>1, <1>2, <1>4 DEF Inv, Recorded
<1>. QED  BY <1>4, <1>5, <1>6 DEF Inv

----------------------------------------------------------------------------
(* Every step preserves the invariant *)

LEMMA StutterInv == ASSUME Inv, UNCHANGED vars PROVE Inv'
<1>1. UNCHANGED <<disk, header, stored, lost, drive, setup, system, count>>
  BY DEF vars
<1>2. Fields' /\ Control'
  BY <1>1 DEF Inv, Fields, Control, InProgress
<1>. QED  BY <1>1, <1>2, BesideFrame DEF Inv

LEMMA ThreadInv == ASSUME Inv, SetupThreadProc PROVE Inv'
BY BeginInv, HoldGiveUpInv, FirstHoldInv, NextBlockInv, HoldBlockInv, ReadBlockInv, ReadFailsInv, WipePassInv,
   WriteBlockInv, WriteFailsInv, UndoWriteInv, MoveEndInv, SaveHeaderInv, EndHoldInv, LastHoldInv, LastSaveInv,
   DismountInv, ReturnInv DEF SetupThreadProc

LEMMA NextInv == Inv /\ [Next]_vars => Inv'
<1>. SUFFICES ASSUME Inv, [Next]_vars PROVE Inv'
  OBVIOUS
<1>1. ASSUME NEW s \in WrittenSectors, Write(s) PROVE Inv'
  BY <1>1, WriteInv
<1>2. ASSUME NEW wipe \in WipePasses, NEW skip \in BOOLEAN, StartBootEncryptionSetup("encrypt", wipe, skip) PROVE Inv'
  BY <1>2, StartInv, Sizes DEF Modes
<1>3. ASSUME NEW skip \in BOOLEAN, StartBootEncryptionSetup("decrypt", 0, skip) PROVE Inv'
  BY <1>3, StartInv DEF Modes
<1>4. CASE AbortBootEncryptionSetup
  <2>1. system.power \in {"on", "shutdown"}
    BY DEF Inv, Fields
  <2>. QED  BY <1>4, <2>1, AbortBeginInv, AbortEndInv DEF AbortBootEncryptionSetup
<1>5. CASE Load \/ ReopenBootVolumeHeader \/ EmergencyClearAllKeys \/ Shutdown
  BY <1>5, LoadInv, KeysInv, ShutdownInv
<1>6. CASE PowerOff \/ Crash
  BY <1>6, PowerOffInv, CrashInv
<1>7. CASE SetupThreadProc
  BY <1>7, ThreadInv
<1>8. CASE UNCHANGED vars
  BY <1>8, StutterInv
<1>. QED  BY <1>1, <1>2, <1>3, <1>4, <1>5, <1>6, <1>7, <1>8 DEF Next

LEMMA Invariance == Spec => []Inv
BY InitInv, NextInv, PTL DEF Spec

----------------------------------------------------------------------------
(* What it means *)

(* The setup thread never works outside the configured area, and what it     *)
(* holds is in range.                                                         *)
THEOREM TypeCorrect == Spec => []TypeOK
<1>1. Inv => TypeOK
  <2>. SUFFICES ASSUME Inv PROVE TypeOK
    OBVIOUS
  <2>1. /\ drive.start \in {-1, ConfiguredStart} /\ drive.end \in -1 .. ConfiguredEnd
        /\ drive.suspended \in BOOLEAN /\ setup.pc \in Steps
    BY DEF Inv, Fields, DriveFields, SetupFields
  <2>2. setup.pc \in Within => Block \subseteq ConfiguredStart .. ConfiguredEnd /\ setup.size > 0
    BY BlockPlace DEF Inv
  <2>. QED  BY <2>1, <2>2 DEF Inv, Fields, TypeOK, Within, Buffer, Busy
<1>. QED  BY <1>1, Invariance, PTL

(* Whenever requests are admitted every sector holds what was last written    *)
(* to it, encrypted as the area says, unless it was given up                  *)
(* (SetupThreadProc): outside a hold the area and the disk agree, within one  *)
(* they agree but for the block in the buffer.                                *)
THEOREM DataIsSeen == Spec => []SeesItsData
<1>1. Inv => SeesItsData
  <2>. SUFFICES ASSUME Inv, ~drive.suspended, NEW s \in Sectors, lost[s] = "no" PROVE disk[s] = Form(s, Area)
    BY DEF SeesItsData
  <2>1. setup.pc \notin Busy
    BY DEF Inv, Positions, Busy, Held
  <2>. QED  BY <2>1 DEF Inv, Data, Kept
<1>. QED  BY <1>1, Invariance, PTL

(* A shutdown loses nothing unless the header could not be written            *)
(* (IRP_MJ_SHUTDOWN): it waits for the thread, and the thread leaves a header *)
(* that says where the area ends.                                             *)
THEOREM ShutdownIsClean == Spec => []CleanRestartLosesNothing
<1>1. Inv => CleanRestartLosesNothing
  BY DEF Inv
<1>. QED  BY <1>1, Invariance, PTL

(* A setup that ended with success left a header that describes the drive     *)
(* (SaveDriveVolumeHeader), unless a save failed and none succeeded since.    *)
THEOREM SuccessIsWritten == Spec => []SuccessIsRecorded
<1>1. Inv => SuccessIsRecorded
  <2>. SUFFICES ASSUME Inv, ~InProgress, ~count.saveFailed
                PROVE  Area = AreaOf(StartDrive(header)) /\ header.present = drive.mounted
    BY DEF SuccessIsRecorded
  <2>1. Synced /\ (~drive.mounted => ~header.present) /\ (drive.mounted => header.present)
    BY DEF Inv, Recorded, InProgress
  <2>2. header.present \in BOOLEAN /\ drive.mounted \in BOOLEAN
    BY DEF Inv, Fields, DriveFields
  <2>. QED  BY <2>1, <2>2 DEF Synced
<1>. QED  BY <1>1, Invariance, PTL

----------------------------------------------------------------------------
(* What a power failure costs: how far the header is behind the area          *)

AreaEnd(d)   == IF d.end = -1 THEN ConfiguredStart ELSE d.end + 1
HeaderEnd(h) == IF h.present THEN ConfiguredStart + h.length ELSE ConfiguredStart
Near(n) == AreaEnd(drive) <= HeaderEnd(header) + n /\ HeaderEnd(header) <= AreaEnd(drive) + n

(* The area has moved no further from the header than since counts; it counts *)
(* up to the threshold, and one block more before the header is written.      *)
Starting == {"begin", "firstHold"}
Lagging ==
    /\ setup.pc \in Starting \cup Between \cup Within => setup.size <= BlockSize
    /\ setup.pc \in Starting => setup.since = 0 /\ ~setup.dirty
    /\ ~count.saveFailed =>
          /\ Near(UpdateThreshold + BlockSize - 1)
          /\ setup.pc \in {"loop"} \cup Within => Near(setup.since) /\ setup.since < UpdateThreshold
          /\ setup.pc = "save" => Near(setup.since) /\ setup.since < UpdateThreshold + BlockSize

(* The areas of the drive and of the header begin at the same sector.         *)
LEMMA Ends ==
    ASSUME NEW d \in DriveFields, d.end = -1 \/ (d.start = ConfiguredStart /\ ConfiguredStart - 1 <= d.end),
           NEW h \in [present : BOOLEAN, length : 0 .. (ConfiguredEnd + 1 - ConfiguredStart)]
    PROVE  LET area == IF d.start = -1 \/ d.end = -1 THEN {} ELSE d.start .. d.end
           IN /\ AreaEnd(d) \in Nat /\ ConfiguredStart <= AreaEnd(d)
              /\ HeaderEnd(h) \in Nat /\ ConfiguredStart <= HeaderEnd(h)
              /\ area = ConfiguredStart .. AreaEnd(d) - 1
              /\ AreaOf(StartDrive(h)) = ConfiguredStart .. HeaderEnd(h) - 1
              /\ AreaOf(StartDrive(h)) = area => AreaEnd(d) = HeaderEnd(h)
<1>. DEFINE area == IF d.start = -1 \/ d.end = -1 THEN {} ELSE d.start .. d.end
<1>1. ConfiguredStart # -1 /\ ConfiguredStart .. ConfiguredStart - 1 = {} /\ ConfiguredStart \in Nat /\ d.end \in Int
      /\ h.length \in Nat
  BY Sizes DEF DriveFields
<1>2. AreaEnd(d) \in Nat /\ ConfiguredStart <= AreaEnd(d) /\ HeaderEnd(h) \in Nat /\ ConfiguredStart <= HeaderEnd(h)
  BY <1>1 DEF AreaEnd, HeaderEnd
<1>3. area = ConfiguredStart .. AreaEnd(d) - 1
  <2>1. CASE d.end = -1
    BY <1>1, <2>1 DEF AreaEnd
  <2>2. CASE d.end # -1
    <3>1. d.end + 1 - 1 = d.end
      BY <1>1
    <3>. QED  BY <1>1, <2>2, <3>1 DEF AreaEnd
  <2>. QED  BY <2>1, <2>2
<1>4. AreaOf(StartDrive(h)) = ConfiguredStart .. HeaderEnd(h) - 1
  <2>1. CASE ~h.present \/ h.length = 0
    <3>1. HeaderEnd(h) = ConfiguredStart /\ StartDrive(h).start = -1
      BY <1>1, <2>1 DEF HeaderEnd, StartDrive, Unmounted, MountDrive
    <3>. QED  BY <1>1, <3>1 DEF AreaOf
  <2>2. CASE h.present /\ h.length # 0
    <3>1. HeaderEnd(h) = ConfiguredStart + h.length /\ StartDrive(h).start = ConfiguredStart
          /\ StartDrive(h).end = ConfiguredStart + h.length - 1
      BY <2>2 DEF HeaderEnd, StartDrive, MountDrive
    <3>. QED  BY <1>1, <3>1 DEF AreaOf
  <2>. QED  BY <2>1, <2>2
<1>5. ASSUME AreaOf(StartDrive(h)) = area PROVE AreaEnd(d) = HeaderEnd(h)
  <2>1. PICK a, b : a = AreaEnd(d) /\ b = HeaderEnd(h)
    OBVIOUS
  <2>2. a \in Nat /\ b \in Nat /\ ConfiguredStart <= a /\ ConfiguredStart <= b
        /\ ConfiguredStart .. a - 1 = ConfiguredStart .. b - 1
    BY <1>2, <1>3, <1>4, <1>5, <2>1
  <2>3. ~(a < b)
    <3>. SUFFICES ASSUME a < b PROVE FALSE
      OBVIOUS
    <3>1. b - 1 \in ConfiguredStart .. b - 1 /\ b - 1 \notin ConfiguredStart .. a - 1
      BY <1>1, <2>2
    <3>. QED  BY <2>2, <3>1
  <2>4. ~(b < a)
    <3>. SUFFICES ASSUME b < a PROVE FALSE
      OBVIOUS
    <3>1. a - 1 \in ConfiguredStart .. a - 1 /\ a - 1 \notin ConfiguredStart .. b - 1
      BY <1>1, <2>2
    <3>. QED  BY <2>2, <3>1
  <2>. QED  BY <2>1, <2>2, <2>3, <2>4
<1>. QED  BY <1>2, <1>3, <1>4, <1>5

LEMMA Numbers ==
    ASSUME Inv
    PROVE  /\ setup.pc \in Steps /\ setup.size \in Nat /\ setup.since \in Nat /\ setup.offset \in Nat
           /\ setup.mode \in Modes /\ setup.dirty \in BOOLEAN
           /\ AreaEnd(drive) \in Nat /\ ConfiguredStart <= AreaEnd(drive)
           /\ HeaderEnd(header) \in Nat /\ ConfiguredStart <= HeaderEnd(header)
           /\ drive.end \in Int /\ drive.start \in {-1, ConfiguredStart}
           /\ count.crashes \in Nat /\ count.saveFailed \in BOOLEAN
           /\ Synced => AreaEnd(drive) = HeaderEnd(header)
           /\ Area = ConfiguredStart .. AreaEnd(drive) - 1
           /\ AreaOf(StartDrive(header)) = ConfiguredStart .. HeaderEnd(header) - 1
<1>1. /\ setup.pc \in Steps /\ setup.size \in Nat /\ setup.since \in Nat /\ setup.offset \in Nat
      /\ setup.mode \in Modes /\ setup.dirty \in BOOLEAN /\ drive.end \in Int /\ drive.start \in {-1, ConfiguredStart}
  BY DEF Inv, Fields, SetupFields, DriveFields
<1>2. count.crashes \in Nat /\ count.saveFailed \in BOOLEAN
  BY DEF Inv, Fields, CountFields
<1>3. drive \in DriveFields /\ header \in [present : BOOLEAN, length : 0 .. (ConfiguredEnd + 1 - ConfiguredStart)]
      /\ (drive.end = -1 \/ (drive.start = ConfiguredStart /\ ConfiguredStart - 1 <= drive.end))
  BY DEF Inv, Fields, Positions
<1>. QED  BY <1>1, <1>2, <1>3, Ends DEF Area, Synced

(* A header that was just read or written is not behind.                      *)
LEMMA SyncedLags ==
    ASSUME Inv', Synced', setup'.pc \in Starting \cup Between \cup Within => setup'.size <= BlockSize,
           setup'.pc \in Starting => setup'.since = 0 /\ ~setup'.dirty,
           setup'.pc \in {"loop"} \cup Within => setup'.since = 0, setup'.pc # "save"
    PROVE  Lagging'
<1>1. drive' \in DriveFields /\ header' \in [present : BOOLEAN, length : 0 .. (ConfiguredEnd + 1 - ConfiguredStart)]
      /\ (drive'.end = -1 \/ (drive'.start = ConfiguredStart /\ ConfiguredStart - 1 <= drive'.end))
      /\ AreaOf(StartDrive(header')) = IF drive'.start = -1 \/ drive'.end = -1 THEN {} ELSE drive'.start .. drive'.end
  BY DEF Inv, Fields, Positions, Synced, Area
<1>2. AreaEnd(drive') = HeaderEnd(header') /\ AreaEnd(drive') \in Nat
  BY <1>1, Ends
<1>3. Near(UpdateThreshold + BlockSize - 1)' /\ Near(0)'
  BY <1>2, SetupAssumption DEF Near
<1>. QED  BY <1>3, SetupAssumption DEF Lagging

Over == {"finish", "lastHold", "lastSave", "dismount", "ret", "exited"}

(* Steps that move neither the area nor the header.                           *)
LEMMA LagFrame ==
    ASSUME Inv, Lagging, UNCHANGED header, AreaEnd(drive') = AreaEnd(drive), count'.saveFailed = count.saveFailed,
           setup'.size \in Nat,
           \/ setup'.pc = setup.pc /\ setup'.size = setup.size /\ setup'.since = setup.since /\ setup'.dirty = setup.dirty
           \/ setup'.pc \in Over
           \/ setup.pc \in {"loop"} \cup Within /\ setup'.pc \in {"loop"} \cup Within
              /\ setup'.size <= setup.size /\ setup'.since = setup.since
    PROVE  Lagging'
<1>1. \A n : Near(n) => (AreaEnd(drive') <= HeaderEnd(header') + n /\ HeaderEnd(header') <= AreaEnd(drive') + n)
  BY DEF Near
<1>2. setup.size \in Nat /\ BlockSize \in Nat
  BY Numbers, Sizes
<1>3. CASE setup'.pc = setup.pc /\ setup'.size = setup.size /\ setup'.since = setup.since /\ setup'.dirty = setup.dirty
  BY <1>1, <1>3 DEF Lagging, Near
<1>4. CASE setup'.pc \in Over
  BY <1>1, <1>4 DEF Lagging, Near, Over, Starting, Between, Within
<1>5. CASE setup.pc \in {"loop"} \cup Within /\ setup'.pc \in {"loop"} \cup Within
           /\ setup'.size <= setup.size /\ setup'.since = setup.since
  <2>1. setup'.size <= BlockSize
    BY <1>2, <1>5 DEF Lagging, Between
  <2>2. setup'.pc \notin Starting /\ setup'.pc # "save"
    BY <1>5 DEF Starting, Within
  <2>. QED  BY <1>1, <1>5, <2>1, <2>2 DEF Lagging, Near
<1>. QED  BY <1>3, <1>4, <1>5

LEMMA BesideLags ==
    ASSUME Inv, Lagging, (\E s \in WrittenSectors : Write(s)) \/ Load \/ AbortBootEncryptionSetup \/ ReopenBootVolumeHeader
                          \/ EmergencyClearAllKeys \/ Shutdown \/ UNCHANGED vars
    PROVE  Lagging'
<1>1. /\ setup \in SetupFields(setup.buf) /\ drive \in DriveFields /\ count \in CountFields
  BY DEF Inv, Fields
<1>2. UNCHANGED header
  BY DEF Write, Load, AbortBootEncryptionSetup, AbortBegin, AbortEnd, ReopenBootVolumeHeader, EmergencyClearAllKeys,
         Shutdown, vars
<1>3. drive'.end = drive.end
  BY <1>1 DEF Write, Load, AbortBootEncryptionSetup, AbortBegin, AbortEnd, ReopenBootVolumeHeader, EmergencyClearAllKeys,
         Shutdown, vars, DriveFields
<1>4. count'.saveFailed = count.saveFailed
  BY <1>1 DEF Write, Load, AbortBootEncryptionSetup, AbortBegin, AbortEnd, ReopenBootVolumeHeader, EmergencyClearAllKeys,
         Shutdown, vars, CountFields
<1>5. setup'.pc = setup.pc /\ setup'.size = setup.size /\ setup'.since = setup.since /\ setup'.dirty = setup.dirty
  BY <1>1 DEF Write, Load, AbortBootEncryptionSetup, AbortBegin, AbortEnd, ReopenBootVolumeHeader, EmergencyClearAllKeys,
         Shutdown, vars, SetupFields
<1>6. setup'.size \in Nat /\ AreaEnd(drive') = AreaEnd(drive)
  BY <1>3, <1>5, Numbers DEF AreaEnd
<1>. QED  BY <1>2, <1>4, <1>5, <1>6, LagFrame

LEMMA StartLags ==
    ASSUME Inv, Lagging, NEW mode, NEW wipe, NEW skip, StartBootEncryptionSetup(mode, wipe, skip)
    PROVE  Lagging'
<1>1. /\ UNCHANGED <<header, drive>>
      /\ setup' = [NoSetup EXCEPT !.pc = "begin", !.thread = TRUE, !.mode = mode, !.wipe = wipe, !.skip = skip, !.size = BlockSize]
      /\ count' = [count EXCEPT !.starts = @ + 1] /\ count \in CountFields
  BY DEF StartBootEncryptionSetup, Inv, Fields
<1>2. setup'.pc = "begin" /\ setup'.size = BlockSize /\ setup'.since = 0 /\ ~setup'.dirty
  BY <1>1 DEF NoSetup
<1>3. count'.saveFailed = count.saveFailed
  BY <1>1 DEF CountFields
<1>. QED  BY <1>1, <1>2, <1>3, Sizes DEF Lagging, Near, Starting, Between, Within

LEMMA RestartLags ==
    ASSUME Inv', PowerOff \/ Crash
    PROVE  Lagging'
<1>1. header' = header /\ drive' = StartDrive(header) /\ setup' = NoSetup
  BY DEF PowerOff, Crash, Restart
<1>2. drive' \in DriveFields /\ (drive'.end = -1 \/ drive'.start = ConfiguredStart)
  BY DEF Inv, Fields, Positions
<1>3. drive'.end = -1 => drive'.start = -1
  BY <1>1, <1>2, Sizes DEF StartDrive, MountDrive, Unmounted, Inv, Fields
<1>4. Synced'
  BY <1>1, <1>2, <1>3 DEF Synced, AreaOf, Area
<1>. QED  BY <1>1, <1>4, SyncedLags DEF NoSetup, Starting, Between, Within

(* The setup thread: from its start to the first block                        *)
LEMMA FirstLags == ASSUME Inv, Inv', Lagging, Begin \/ FirstHold PROVE Lagging'
<1>1. /\ setup \in SetupFields(setup.buf) /\ drive \in DriveFields
  BY DEF Inv, Fields
<1>2. CASE Begin
  <2>1. UNCHANGED <<header, drive, count>> /\ setup.pc = "begin"
    BY <1>2 DEF Begin, At
  <2>2. setup'.size = setup.size /\ setup'.since = setup.since /\ setup'.dirty = setup.dirty /\ setup'.pc \in {"ret", "firstHold"}
    BY <1>1, <1>2 DEF Begin, Fail, SetupFields
  <2>3. CASE setup'.pc = "ret"
    BY <2>1, <2>2, <2>3, Numbers, LagFrame DEF Over
  <2>4. CASE setup'.pc = "firstHold"
    BY <2>1, <2>2, <2>4 DEF Lagging, Near, Starting, Between, Within
  <2>. QED  BY <2>2, <2>3, <2>4
<1>3. CASE FirstHold
  <2>1. UNCHANGED <<header, count>> /\ setup.pc = "firstHold"
    BY <1>3 DEF FirstHold, Hold, At
  <2>2. setup.size <= BlockSize /\ setup.since = 0 /\ ~setup.dirty
    BY <2>1 DEF Lagging, Starting
  <2>3. drive'.end = drive.end
    <3>1. \/ drive' = drive \/ drive' = [drive EXCEPT !.suspended = TRUE]
          \/ ~Encrypted /\ drive' = [drive EXCEPT !.start = drive.confStart, !.end = -1]
      BY <1>3 DEF FirstHold
    <3>2. ~Encrypted => drive.end = -1
      BY Sizes DEF Encrypted, Inv, Positions
    <3>. QED  BY <1>1, <3>1, <3>2 DEF DriveFields
  <2>4. \/ setup'.pc = "finish" /\ setup'.size = 0
        \/ setup'.pc = "loop" /\ setup'.size = setup.size /\ setup'.since = 0 /\ setup'.dirty = setup.dirty
    BY <1>1, <1>3, <2>2 DEF FirstHold, Finish, Leave, SetupFields
  <2>5. AreaEnd(drive') = AreaEnd(drive)
    BY <2>3 DEF AreaEnd
  <2>6. CASE setup'.pc = "finish" /\ setup'.size = 0
    BY <2>1, <2>5, <2>6, LagFrame DEF Over
  <2>7. CASE setup'.pc = "loop" /\ setup'.size = setup.size /\ setup'.since = 0 /\ setup'.dirty = setup.dirty
    <3>1. ~count.saveFailed => AreaEnd(drive) = HeaderEnd(header)
      BY <2>2, Numbers DEF Inv, Recorded
    <3>2. ~count'.saveFailed => Near(0)' /\ Near(UpdateThreshold + BlockSize - 1)'
      BY <2>1, <2>5, <3>1, Numbers, SetupAssumption DEF Near
    <3>. QED  BY <2>1, <2>2, <2>7, <3>2, SetupAssumption DEF Lagging, Starting, Between, Within
  <2>. QED  BY <2>4, <2>6, <2>7
<1>. QED  BY <1>2, <1>3

(* Within a block nothing moves but the thread.                               *)
LEMMA BlockLags ==
    ASSUME Inv, Inv', Lagging, NextBlock \/ HoldBlock \/ ReadBlock \/ ReadFails \/ WipePass \/ WriteBlock \/ WriteFails
    PROVE  Lagging'
<1>1. /\ setup \in SetupFields(setup.buf) /\ drive \in DriveFields /\ count \in CountFields
  BY DEF Inv, Fields
<1>2. UNCHANGED header /\ drive'.end = drive.end /\ count'.saveFailed = count.saveFailed
  BY <1>1 DEF NextBlock, HoldBlock, Hold, ReadBlock, ReadFails, WipePass, WriteBlock, WriteFails, Fault, DriveFields, CountFields
<1>3. setup'.size \in Nat /\ AreaEnd(drive') = AreaEnd(drive)
  <2>1. setup'.size \in Nat
    BY DEF Inv, Fields, SetupFields
  <2>. QED  BY <1>2, <2>1 DEF AreaEnd
<1>4. CASE NextBlock
  <2>1. setup.pc = "loop"
    BY <1>4 DEF NextBlock, At
  <2>2. \/ setup'.pc = "finish"
        \/ setup'.pc = "hold" /\ setup'.since = setup.since /\ setup'.size <= setup.size
    <3>1. CASE \E r : Finish(r)
      BY <1>1, <3>1 DEF Finish, Leave, SetupFields
    <3>2. CASE \A r : ~Finish(r)
      <4>1. PICK n : \/ n = Smaller(setup.size, drive.confEnd + 1 - setup.offset) /\ setup' = [setup EXCEPT !.pc = "hold", !.size = n]
                     \/ n = Smaller(setup.size, setup.offset - drive.start)
                        /\ setup' = [setup EXCEPT !.pc = "hold", !.size = n, !.offset = @ - n]
        BY <1>4, <3>2 DEF NextBlock
      <4>2. n <= setup.size
        BY <1>1, <4>1, Sizes DEF Smaller, SetupFields, DriveFields
      <4>. QED  BY <1>1, <4>1, <4>2 DEF SetupFields
    <3>. QED  BY <3>1, <3>2
  <2>. QED  BY <1>2, <1>3, <2>1, <2>2, LagFrame DEF Over, Within
<1>5. CASE HoldBlock
  <2>1. setup.pc = "hold" /\ setup'.pc = "read" /\ setup'.since = setup.since /\ setup'.size = setup.size
    BY <1>1, <1>5 DEF HoldBlock, Hold, At, Goto, SetupFields
  <2>. QED  BY <1>2, <1>3, <2>1, Numbers, LagFrame DEF Within
<1>6. CASE ReadBlock \/ ReadFails
  <2>1. setup.pc = "read"
    BY <1>6 DEF ReadBlock, ReadFails, At
  <2>2. (\E r : Finish(r)) \/ \E data : Transformed(data)
    BY <1>6 DEF ReadBlock, ReadFails, ReadError, ReadZeroed, ReadSkipped
  <2>3. \/ setup'.pc = "finish"
        \/ setup'.pc \in {"wipe", "write"} /\ setup'.since = setup.since /\ setup'.size = setup.size
    <3>1. CASE \E r : Finish(r)
      BY <1>1, <3>1 DEF Finish, Leave, SetupFields
    <3>2. CASE \E data : Transformed(data)
      <4>1. PICK pc : pc = IF setup.mode = "encrypt" /\ setup.wipe > 0 THEN "wipe" ELSE "write"
        OBVIOUS
      <4>2. \E buf : setup' = [setup EXCEPT !.pc = pc, !.pass = 1, !.buf = buf]
        BY <3>2, <4>1 DEF Transformed
      <4>3. PICK buf : setup' = [setup EXCEPT !.pc = pc, !.pass = 1, !.buf = buf]
        BY <4>2
      <4>4. setup'.pc = pc /\ setup'.since = setup.since /\ setup'.size = setup.size
        BY <1>1, <4>3 DEF SetupFields
      <4>. QED  BY <4>1, <4>4
    <3>. QED  BY <2>2, <3>1, <3>2
  <2>. QED  BY <1>2, <1>3, <2>1, <2>3, Numbers, LagFrame DEF Over, Within
<1>7. CASE WipePass \/ WriteBlock \/ WriteFails
  <2>1. setup.pc \in {"wipe", "write"} /\ setup'.pc \in Within /\ setup'.since = setup.since /\ setup'.size = setup.size
    BY <1>1, <1>7 DEF WipePass, WriteBlock, WriteFails, At, Goto, SetupFields, Within
  <2>. QED  BY <1>2, <1>3, <2>1, Numbers, LagFrame DEF Within
<1>. QED  BY <1>4, <1>5, <1>6, <1>7

(* The area moves by a block, and since counts it.                            *)
LEMMA MoveEndLags == ASSUME Inv, Inv', Lagging, MoveEnd PROVE Lagging'
<1>1. /\ setup.pc = "moveEnd" /\ UNCHANGED <<header, count>>
      /\ setup.size <= BlockSize /\ setup.size \in Nat /\ setup.since \in Nat /\ setup.offset \in Nat
      /\ AreaEnd(drive) \in Nat /\ HeaderEnd(header) \in Nat
  BY Numbers DEF MoveEnd, At, Lagging, Within
<1>2. PICK offset, since : /\ offset = IF setup.mode = "encrypt" THEN setup.offset + setup.size ELSE setup.offset
                           /\ since = setup.since + setup.size
  OBVIOUS
<1>3. /\ drive' = [drive EXCEPT !.end = offset - 1, !.suspended = FALSE]
      /\ setup' = [setup EXCEPT !.pc = IF since >= UpdateThreshold THEN "save" ELSE "loop",
                                !.offset = offset, !.since = since, !.dirty = TRUE, !.buf = <<>>, !.pass = 0]
  BY <1>2 DEF MoveEnd
<1>4. /\ drive'.end = offset - 1 /\ setup'.size = setup.size /\ setup'.since = since
      /\ setup'.pc = IF since >= UpdateThreshold THEN "save" ELSE "loop"
  BY <1>3 DEF Inv, Fields, DriveFields, SetupFields
<1>5. /\ AreaEnd(drive) = drive.end + 1 \/ (drive.end = -1 /\ AreaEnd(drive) = ConfiguredStart)
      /\ IF setup.mode = "encrypt" THEN setup.offset = AreaEnd(drive)
         ELSE drive.end # -1 /\ setup.offset + setup.size = AreaEnd(drive) /\ ConfiguredStart <= setup.offset
  BY <1>1 DEF Inv, Positions, AreaNext, AreaEnd, Within
<1>6. AreaEnd(drive') = offset
  <2>1. offset \in Nat /\ ConfiguredStart <= offset /\ ConfiguredStart \in Nat
    BY SMTT(30), <1>1, <1>2, <1>5, Numbers, Sizes
  <2>. QED  BY <1>4, <2>1 DEF AreaEnd
<1>7. offset = AreaEnd(drive) + setup.size \/ offset + setup.size = AreaEnd(drive)
  BY <1>2, <1>5
<1>8. ~count.saveFailed => Near(setup.since) /\ setup.since < UpdateThreshold
  BY <1>1 DEF Lagging, Within
<1>9. ~count.saveFailed => Near(since)' /\ since < UpdateThreshold + BlockSize /\ Near(UpdateThreshold + BlockSize - 1)'
  <2>. SUFFICES ASSUME ~count.saveFailed
                PROVE  Near(since)' /\ since < UpdateThreshold + BlockSize /\ Near(UpdateThreshold + BlockSize - 1)'
    OBVIOUS
  <2>1. PICK a, h : a = AreaEnd(drive) /\ h = HeaderEnd(header)
    OBVIOUS
  <2>2. a \in Nat /\ h \in Nat /\ offset \in Nat /\ UpdateThreshold \in Nat /\ BlockSize \in Nat
        /\ a <= h + setup.since /\ h <= a + setup.since
    BY <1>1, <1>2, <1>8, <2>1, Sizes DEF Near
  <2>3. offset <= h + since /\ h <= offset + since /\ since < UpdateThreshold + BlockSize /\ since \in Nat
    BY <1>1, <1>2, <1>7, <1>8, <2>1, <2>2
  <2>4. HeaderEnd(header') = h /\ AreaEnd(drive') = offset
    BY <1>1, <1>6, <2>1
  <2>. QED  BY <2>2, <2>3, <2>4 DEF Near
<1>10. /\ setup'.pc \in {"save", "loop"} /\ (setup'.pc = "loop" => since < UpdateThreshold)
       /\ count'.saveFailed = count.saveFailed /\ setup'.size <= BlockSize
  <2>1. since \in Nat /\ UpdateThreshold \in Nat
    BY <1>1, <1>2, Sizes
  <2>2. setup'.pc = "loop" => since < UpdateThreshold
    BY <1>4, <2>1
  <2>. QED  BY <1>1, <1>4, <2>2
<1>11. Near(since)' => AreaEnd(drive') <= HeaderEnd(header') + since /\ HeaderEnd(header') <= AreaEnd(drive') + since
  BY DEF Near
<1>12. ~count'.saveFailed => Near(setup.since)'
  BY <1>4, <1>9, <1>10, <1>11 DEF Near
<1>. QED  BY <1>4, <1>9, <1>10, <1>12 DEF Lagging, Starting, Between, Within

(* A header that was written is not behind; one that was not may be.          *)
LEMMA SaveLags == ASSUME Inv, Inv', Lagging, SaveHeader \/ LastSave PROVE Lagging'
<1>1. /\ setup \in SetupFields(setup.buf) /\ UNCHANGED drive
  BY DEF Inv, Fields, SaveHeader, LastSave
<1>2. CASE SaveHeader
  <2>1. setup.pc = "save" /\ setup.dirty /\ setup.size <= BlockSize
    BY <1>2 DEF SaveHeader, At, Inv, Recorded, Lagging, Between
  <2>2. CASE SaveSucceeds /\ setup' = [setup EXCEPT !.pc = "loop", !.dirty = FALSE, !.since = 0]
    <3>1. setup'.pc = "loop" /\ setup'.since = 0 /\ setup'.size = setup.size
      BY <1>1, <2>2 DEF SetupFields
    <3>2. Synced'
      BY <1>1, <2>1, <2>2, Saved
    <3>. QED  BY <2>1, <3>1, <3>2, SyncedLags DEF Starting
  <2>3. CASE SaveFails /\ setup' = [setup EXCEPT !.pc = "loop"]
    <3>1. setup'.pc = "loop" /\ setup'.size = setup.size
      BY <1>1, <2>3 DEF SetupFields
    <3>2. count'.saveFailed
      BY <2>3, NotSaved
    <3>. QED  BY <2>1, <3>1, <3>2 DEF Lagging, Starting
  <2>. QED  BY <1>2, <2>2, <2>3 DEF SaveHeader, Goto
<1>3. CASE LastSave
  <2>1. setup.pc = "lastSave" /\ setup'.pc = "dismount" /\ setup'.size \in Nat
    BY <1>1, <1>3 DEF LastSave, At, Goto, Fail, SetupFields, Inv, Fields
  <2>2. CASE ~setup.dirty /\ UNCHANGED <<header, count>>
    BY <1>1, <2>1, <2>2, LagFrame DEF Over, AreaEnd
  <2>3. CASE setup.dirty /\ SaveSucceeds
    <3>1. Synced'
      BY <1>1, <2>1, <2>3, Saved
    <3>. QED  BY <2>1, <3>1, SyncedLags DEF Starting, Between, Within
  <2>4. CASE SaveFails
    <3>1. count'.saveFailed
      BY <2>4, NotSaved
    <3>. QED  BY <2>1, <3>1 DEF Lagging, Starting, Between, Within
  <2>. QED  BY <1>3, <2>2, <2>3, <2>4 DEF LastSave
<1>. QED  BY <1>2, <1>3

(* The thread ends: only a decryption that is complete forgets its empty area. *)
LEMMA EndLags ==
    ASSUME Inv, Inv', Lagging, HoldGiveUp \/ UndoWrite \/ EndHold \/ LastHold \/ Dismount \/ Return
    PROVE  Lagging'
<1>1. /\ setup \in SetupFields(setup.buf) /\ drive \in DriveFields /\ count \in CountFields /\ setup'.size \in Nat
  BY DEF Inv, Fields, SetupFields
<1>2. UNCHANGED header
  BY DEF HoldGiveUp, UndoWrite, EndHold, LastHold, Hold, Dismount, Return
<1>3. count'.saveFailed = count.saveFailed
  BY <1>1 DEF HoldGiveUp, UndoWrite, EndHold, LastHold, Hold, Dismount, Return, Fault, CountFields
<1>4. setup'.pc \in Over
  BY <1>1 DEF HoldGiveUp, UndoWrite, EndHold, LastHold, Dismount, Return, Finish, Leave, Goto, NoSetup, SetupFields, Over
<1>5. AreaEnd(drive') = AreaEnd(drive)
  <2>1. CASE HoldGiveUp \/ UndoWrite \/ EndHold \/ Dismount \/ Return
    <3>1. drive'.end = drive.end
      BY <1>1, <2>1 DEF HoldGiveUp, UndoWrite, EndHold, Dismount, Return, DriveFields
    <3>. QED  BY <3>1 DEF AreaEnd
  <2>2. CASE LastHold
    <3>1. AreaEmpty /\ drive'.end = -1
      BY <1>1, <2>2 DEF LastHold, Hold, At, Inv, Recorded, DriveFields
    <3>2. AreaEnd(drive) = ConfiguredStart
      BY <1>1, <3>1, Sizes DEF AreaEmpty, Encrypted, AreaEnd, Inv, Positions, DriveFields
    <3>. QED  BY <3>1, <3>2 DEF AreaEnd
  <2>. QED  BY <2>1, <2>2
<1>. QED  BY <1>1, <1>2, <1>3, <1>4, <1>5, LagFrame

LEMMA InitLags == Init => Lagging
<1>. SUFFICES ASSUME Init PROVE Lagging
  OBVIOUS
<1>1. Inv
  BY InitInv
<1>2. setup.pc = "exited"
  BY DEF Init, NoSetup
<1>3. AreaEnd(drive) = HeaderEnd(header) /\ AreaEnd(drive) \in Nat
  <2>1. PICK n \in InitialLengths : header = [present |-> TRUE, length |-> n] /\ drive = MountDrive(header)
    BY DEF Init
  <2>2. n \in Nat
    BY Sizes
  <2>. QED  BY <2>1, <2>2, Sizes DEF AreaEnd, HeaderEnd, MountDrive
<1>. QED  BY <1>2, <1>3, SetupAssumption DEF Lagging, Near, Starting, Between, Within

LEMMA NextLags == Inv /\ Inv' /\ Lagging /\ [Next]_vars => Lagging'
<1>. SUFFICES ASSUME Inv, Inv', Lagging, [Next]_vars PROVE Lagging'
  OBVIOUS
<1>1. CASE (\E s \in WrittenSectors : Write(s)) \/ Load \/ AbortBootEncryptionSetup \/ ReopenBootVolumeHeader
           \/ EmergencyClearAllKeys \/ Shutdown \/ UNCHANGED vars
  BY <1>1, BesideLags
<1>2. ASSUME NEW mode, NEW wipe, NEW skip, StartBootEncryptionSetup(mode, wipe, skip) PROVE Lagging'
  BY <1>2, StartLags
<1>3. CASE PowerOff \/ Crash
  BY <1>3, RestartLags
<1>4. CASE Begin \/ FirstHold
  BY <1>4, FirstLags
<1>5. CASE NextBlock \/ HoldBlock \/ ReadBlock \/ ReadFails \/ WipePass \/ WriteBlock \/ WriteFails
  BY <1>5, BlockLags
<1>6. CASE MoveEnd
  BY <1>6, MoveEndLags
<1>7. CASE SaveHeader \/ LastSave
  BY <1>7, SaveLags
<1>8. CASE HoldGiveUp \/ UndoWrite \/ EndHold \/ LastHold \/ Dismount \/ Return
  BY <1>8, EndLags
<1>9. CASE SetupThreadProc
  BY <1>4, <1>5, <1>6, <1>7, <1>8, <1>9 DEF SetupThreadProc
<1>. QED  BY <1>1, <1>2, <1>3, <1>9 DEF Next

(* The most that a power failure can cost.                                    *)
Cost == UpdateThreshold + BlockSize - 1

LEMMA Finite == IsFiniteSet(Sectors)
BY FS_Interval, Sizes DEF Sectors

LEMMA FewerCrashed ==
    ASSUME CrashLossBounded, count'.crashes = count.crashes, \A s \in Sectors : lost'[s] = "crash" => lost[s] = "crash"
    PROVE  CrashLossBounded'
<1>1. /\ {s \in Sectors : lost[s] = "crash"} \in SUBSET Sectors
      /\ {s \in Sectors : lost'[s] = "crash"} \in SUBSET {s \in Sectors : lost[s] = "crash"}
  OBVIOUS
<1>2. IsFiniteSet({s \in Sectors : lost[s] = "crash"})
  BY <1>1, Finite, FS_Subset
<1>3. Cardinality({s \in Sectors : lost'[s] = "crash"}) <= Cardinality({s \in Sectors : lost[s] = "crash"})
  BY <1>1, <1>2, FS_Subset
<1>4. Cardinality({s \in Sectors : lost'[s] = "crash"}) \in Nat /\ Cardinality({s \in Sectors : lost[s] = "crash"}) \in Nat
  BY <1>1, <1>2, FS_Subset, FS_CardinalityType
<1>5. PICK k : k = count.crashes * (UpdateThreshold + BlockSize - 1)
  OBVIOUS
<1>. QED  BY <1>3, <1>4, <1>5 DEF CrashLossBounded

LEMMA OtherReason ==
    ASSUME NEW S, NEW why, why # "crash", lost' = GiveUp(S, why)
    PROVE  \A s \in Sectors : lost'[s] = "crash" => lost[s] = "crash"
BY DEF GiveUp

(* Only a power failure gives data up as lost by a power failure.              *)
LEMMA OnlyCrash == ASSUME Inv, CrashLossBounded, [Next]_vars, ~Crash PROVE CrashLossBounded'
<1>1. count \in CountFields /\ lost \in [Sectors -> Reasons]
  BY DEF Inv, Fields
<1>2. ASSUME NEW s \in WrittenSectors, Write(s) PROVE CrashLossBounded'
  <2>1. count'.crashes = count.crashes
    BY <1>1, <1>2 DEF Write, CountFields
  <2>2. \A t \in Sectors : lost'[t] = "crash" => lost[t] = "crash"
    BY <1>1, <1>2 DEF Write
  <2>. QED  BY <2>1, <2>2, FewerCrashed
<1>3. ASSUME NEW mode, NEW wipe, NEW skip, StartBootEncryptionSetup(mode, wipe, skip) PROVE CrashLossBounded'
  <2>1. count'.crashes = count.crashes /\ lost' = lost
    BY <1>1, <1>3 DEF StartBootEncryptionSetup, CountFields
  <2>. QED  BY <2>1, FewerCrashed
<1>4. CASE Load \/ AbortBootEncryptionSetup \/ ReopenBootVolumeHeader \/ EmergencyClearAllKeys \/ Shutdown \/ UNCHANGED vars
  <2>1. UNCHANGED <<lost, count>>
    BY <1>4 DEF Load, AbortBootEncryptionSetup, AbortBegin, AbortEnd, ReopenBootVolumeHeader, EmergencyClearAllKeys,
                Shutdown, vars
  <2>. QED  BY <2>1, FewerCrashed
<1>5. CASE PowerOff
  <2>1. count'.crashes = count.crashes
    BY <1>1, <1>5 DEF PowerOff, CountFields
  <2>2. PICK why : why # "crash" /\ lost' = GiveUp({s \in Sectors : disk[s] # Form(s, AreaOf(StartDrive(header)))}, why)
    BY <1>5 DEF PowerOff, Restart
  <2>. QED  BY <2>1, <2>2, OtherReason, FewerCrashed
<1>6. CASE ReadFails \/ WriteBlock \/ UndoWrite
  <2>1. count'.crashes = count.crashes
    BY <1>1, <1>6 DEF ReadFails, WriteBlock, UndoWrite, Fault, CountFields
  <2>2. lost' = lost \/ \E S, why : why # "crash" /\ lost' = GiveUp(S, why)
    <3>1. CASE ReadFails
      BY <3>1 DEF ReadFails, ReadError, ReadZeroed, ReadSkipped
    <3>2. CASE WriteBlock
      BY <3>2 DEF WriteBlock
    <3>3. CASE UndoWrite
      BY <3>3 DEF UndoWrite
    <3>. QED  BY <1>6, <3>1, <3>2, <3>3
  <2>3. \A s \in Sectors : lost'[s] = "crash" => lost[s] = "crash"
    BY <2>2, OtherReason
  <2>. QED  BY <2>1, <2>3, FewerCrashed
<1>7. CASE Begin \/ HoldGiveUp \/ FirstHold \/ NextBlock \/ HoldBlock \/ ReadBlock \/ WipePass \/ WriteFails \/ MoveEnd
  <2>1. lost' = lost
    BY <1>7 DEF Begin, HoldGiveUp, FirstHold, Hold, NextBlock, HoldBlock, ReadBlock, WipePass, WriteFails, MoveEnd
  <2>2. count'.crashes = count.crashes
    BY <1>1, <1>7 DEF Begin, HoldGiveUp, FirstHold, Hold, NextBlock, HoldBlock, ReadBlock, WipePass, WriteFails, MoveEnd,
                      Fault, CountFields
  <2>. QED  BY <2>1, <2>2, FewerCrashed
<1>8. CASE SaveHeader \/ EndHold \/ LastHold \/ LastSave \/ Dismount \/ Return
  <2>1. lost' = lost
    BY <1>8 DEF SaveHeader, EndHold, LastHold, Hold, LastSave, Dismount, Return
  <2>2. count'.crashes = count.crashes
    BY <1>1, <1>8 DEF SaveHeader, EndHold, LastHold, Hold, LastSave, Dismount, Return, SaveSucceeds, SaveFails, CountFields
  <2>. QED  BY <2>1, <2>2, FewerCrashed
<1>9. CASE SetupThreadProc
  BY <1>6, <1>7, <1>8, <1>9 DEF SetupThreadProc
<1>. QED  BY <1>2, <1>3, <1>4, <1>5, <1>9 DEF Next

(* Both areas begin at the same sector: they differ between their ends.       *)
LEMMA EndsDiffer ==
    ASSUME NEW a \in Nat, NEW h \in Nat, NEW s \in Nat, ConfiguredStart \in Nat,
           s \in ConfiguredStart .. a - 1 <=> s \notin ConfiguredStart .. h - 1
    PROVE  (a <= s /\ s < h) \/ (h <= s /\ s < a)
OBVIOUS

(* What a power failure can cost lies within a range of the drive: between    *)
(* the end of the area and the end that the header knows, and in the block.   *)
LEMMA CrashRange ==
    ASSUME Inv, Lagging, ~count.saveFailed
    PROVE  \E x \in Nat : \A s \in Sectors :
              \/ setup.pc \in Busy /\ s \in Block
              \/ s \in Area <=> s \notin AreaOf(StartDrive(header))
              => x <= s /\ s < x + Cost
<1>. DEFINE Costs(s) == \/ setup.pc \in Busy /\ s \in Block
                        \/ s \in Area <=> s \notin AreaOf(StartDrive(header))
<1>1. PICK a, h : a = AreaEnd(drive) /\ h = HeaderEnd(header)
  OBVIOUS
<1>2. PICK size, since, offset : size = setup.size /\ since = setup.since /\ offset = setup.offset
  OBVIOUS
<1>3. /\ a \in Nat /\ h \in Nat /\ ConfiguredStart \in Nat /\ UpdateThreshold \in Nat /\ BlockSize \in Nat
      /\ 0 < BlockSize /\ 0 < UpdateThreshold /\ size \in Nat /\ since \in Nat /\ offset \in Nat
      /\ Area = ConfiguredStart .. a - 1 /\ AreaOf(StartDrive(header)) = ConfiguredStart .. h - 1
  BY <1>1, <1>2, Numbers, Sizes, SetupAssumption
<1>4. \A s \in Sectors : (s \in Area <=> s \notin AreaOf(StartDrive(header))) => (a <= s /\ s < h) \/ (h <= s /\ s < a)
  BY <1>3, EndsDiffer, Sizes DEF Sectors
<1>5. a <= h + Cost /\ h <= a + Cost
  BY <1>1 DEF Lagging, Near, Cost
<1>6. \A s \in Sectors : s \in Nat
  BY DEF Sectors
<1>7. CASE setup.pc \notin Busy
  <2>1. CASE a <= h
    <3>1. \A s \in Sectors : Costs(s) => a <= s /\ s < a + Cost
      BY <1>3, <1>4, <1>5, <1>6, <1>7, <2>1 DEF Cost
    <3>. QED  BY <1>3, <3>1
  <2>2. CASE ~(a <= h)
    <3>1. \A s \in Sectors : Costs(s) => h <= s /\ s < h + Cost
      BY <1>3, <1>4, <1>5, <1>6, <1>7, <2>2 DEF Cost
    <3>. QED  BY <1>3, <3>1
  <2>. QED  BY <2>1, <2>2
<1>8. CASE setup.pc \in Busy
  <2>1. /\ size <= BlockSize /\ since < UpdateThreshold /\ a <= h + since /\ h <= a + since
    BY <1>1, <1>2, <1>8 DEF Lagging, Near, Within, Busy
  <2>2. offset = a \/ offset + size = a
    BY <1>1, <1>2, <1>8 DEF Inv, Positions, AreaNext, AreaEnd, Within, Busy
  <2>3. \A s \in Sectors : s \in Block => offset <= s /\ s < offset + size
    BY <1>2, <1>3, <1>6 DEF Block
  <2>4. \A s \in Sectors : Costs(s) => (offset <= s /\ s < offset + size) \/ (a <= s /\ s < h) \/ (h <= s /\ s < a)
    BY <1>4, <2>3
  <2>5. CASE offset = a /\ a <= h
    <3>1. \A s \in Sectors : Costs(s) => a <= s /\ s < a + Cost
      BY <1>3, <1>6, <2>1, <2>4, <2>5 DEF Cost
    <3>. QED  BY <1>3, <3>1
  <2>6. CASE offset = a /\ ~(a <= h)
    <3>1. \A s \in Sectors : Costs(s) => h <= s /\ s < h + Cost
      BY <1>3, <1>6, <2>1, <2>4, <2>6 DEF Cost
    <3>. QED  BY <1>3, <3>1
  <2>7. CASE offset + size = a /\ offset <= h
    <3>1. \A s \in Sectors : Costs(s) => offset <= s /\ s < offset + Cost
      BY <1>3, <1>6, <2>1, <2>4, <2>7 DEF Cost
    <3>. QED  BY <1>3, <3>1
  <2>8. CASE offset + size = a /\ ~(offset <= h)
    <3>1. \A s \in Sectors : Costs(s) => h <= s /\ s < h + Cost
      BY <1>3, <1>6, <2>1, <2>4, <2>8 DEF Cost
    <3>. QED  BY <1>3, <3>1
  <2>. QED  BY <2>2, <2>5, <2>6, <2>7, <2>8
<1>. QED  BY <1>7, <1>8

LEMMA Times == ASSUME NEW c \in Nat, NEW k \in Nat PROVE (c + 1) * k = c * k + k /\ c * k \in Nat
OBVIOUS

(* A power failure gives up what lies in that range, and no more.             *)
LEMMA CrashCost == ASSUME Inv, Lagging, CrashLossBounded, Crash PROVE CrashLossBounded'
<1>1. PICK W \in SUBSET Block : (W # {} => Writing) /\ Restart(Written(setup.pc, W), "crash")
  BY DEF Crash
<1>2. PICK k : k = UpdateThreshold + BlockSize - 1
  OBVIOUS
<1>3. PICK c : c = count.crashes
  OBVIOUS
<1>4. k \in Nat /\ c \in Nat /\ (c + 1) * k = c * k + k /\ c * k \in Nat /\ Cost = k
  <2>1. k \in Nat /\ c \in Nat /\ Cost = k
    BY <1>2, <1>3, Numbers, SetupAssumption DEF Cost
  <2>. QED  BY <2>1, Times
<1>5. count'.crashes = c + 1
  BY <1>3 DEF Crash, Inv, Fields, CountFields
<1>6. PICK old, new : old = {s \in Sectors : lost[s] = "crash"} /\ new = {s \in Sectors : lost'[s] = "crash"}
  OBVIOUS
<1>7. IsFiniteSet(old) /\ IsFiniteSet(new) /\ Cardinality(old) \in Nat /\ Cardinality(new) \in Nat
  BY <1>6, Finite, FS_Subset, FS_CardinalityType
<1>8. Cardinality(old) <= c * k
  BY <1>2, <1>3, <1>6 DEF CrashLossBounded
<1>9. Cardinality(new) <= Cardinality(old) + k
  <2>1. CASE count.saveFailed
    <3>1. lost' = GiveUp({s \in Sectors : Written(setup.pc, W)[s] # Form(s, AreaOf(StartDrive(header)))}, "unsaved")
      BY <1>1, <2>1 DEF Restart
    <3>2. new \in SUBSET old
      BY <1>6, <3>1, OtherReason
    <3>. QED  BY <1>4, <1>7, <3>2, FS_Subset
  <2>2. CASE ~count.saveFailed
    <3>1. PICK x \in Nat : \A s \in Sectors :
              \/ setup.pc \in Busy /\ s \in Block
              \/ s \in Area <=> s \notin AreaOf(StartDrive(header))
              => x <= s /\ s < x + k
      BY <1>4, <2>2, CrashRange
    <3>2. PICK range : range = x .. x + k - 1
      OBVIOUS
    <3>3. IsFiniteSet(range) /\ Cardinality(range) = k
      BY <1>4, <3>2, FS_Interval
    <3>4. \A s \in new : s \in old \cup range
      <4>. SUFFICES ASSUME NEW s \in Sectors, lost'[s] = "crash", lost[s] # "crash" PROVE s \in range
        BY <1>6
      <4>1. lost[s] = "no" /\ Written(setup.pc, W)[s] # Form(s, AreaOf(StartDrive(header)))
        BY <1>1 DEF Restart, GiveUp
      <4>2. \/ setup.pc \in Busy /\ s \in Block
            \/ s \in Area <=> s \notin AreaOf(StartDrive(header))
        <5>1. CASE s \in W
          BY <1>1, <5>1 DEF Writing, Busy
        <5>2. CASE s \notin W
          <6>1. Written(setup.pc, W)[s] = disk[s]
            BY <5>2 DEF Written, Overwrite
          <6>2. (setup.pc \in Busy /\ s \in Block) \/ disk[s] = Form(s, Area)
            BY <4>1 DEF Inv, Data, Kept
          <6>. QED  BY <4>1, <6>1, <6>2 DEF Form
        <5>. QED  BY <5>1, <5>2
      <4>. QED  BY <1>4, <3>1, <3>2, <4>2 DEF Sectors
    <3>5. new \in SUBSET (old \cup range)
      BY <3>4
    <3>6. IsFiniteSet(old \cup range) /\ Cardinality(old \cup range) = Cardinality(old) + Cardinality(range) - Cardinality(old \cap range)
      BY <1>7, <3>3, FS_Union
    <3>7. Cardinality(old \cap range) \in Nat
      BY <1>7, FS_Subset, FS_CardinalityType
    <3>8. Cardinality(new) <= Cardinality(old \cup range)
      BY <3>5, <3>6, FS_Subset
    <3>. QED  BY <1>4, <1>7, <3>3, <3>6, <3>7, <3>8
  <2>. QED  BY <2>1, <2>2
<1>10. Cardinality(new) <= (c + 1) * k
  BY <1>4, <1>7, <1>8, <1>9
<1>. QED  BY <1>2, <1>5, <1>6, <1>10 DEF CrashLossBounded

LEMMA InitCrashed == ASSUME Init PROVE CrashLossBounded
<1>1. count.crashes = 0 /\ \A s \in Sectors : lost[s] = "no"
  BY DEF Init
<1>2. {s \in Sectors : lost[s] = "crash"} = {} /\ {} = 1 .. 0
  BY <1>1
<1>3. Cardinality({s \in Sectors : lost[s] = "crash"}) = 0
  <2>1. Cardinality(1 .. 0) = 0
    BY FS_Interval
  <2>. QED  BY <1>2, <2>1
<1>4. 0 * (UpdateThreshold + BlockSize - 1) = 0
  BY Sizes
<1>. QED  BY <1>1, <1>3, <1>4 DEF CrashLossBounded

(* A power failure costs at most the blocks transformed since the header was  *)
(* written and the block in progress, as long as the header could be written: *)
(* SetupThreadProc counts what it transforms, and calls SaveDriveVolumeHeader *)
(* when that reaches TC_ENCRYPTION_SETUP_HEADER_UPDATE_THRESHOLD.             *)
THEOREM CrashLossIsBounded == Spec => []CrashLossBounded
<1>. DEFINE Lags == Lagging /\ CrashLossBounded
<1>1. Init => Lags
  BY InitLags, InitCrashed
<1>2. Inv /\ Inv' /\ Lags /\ [Next]_vars => Lags'
  BY NextLags, OnlyCrash, CrashCost
<1>3. Spec => []Inv
  BY Invariance
<1>. HIDE DEF Lags
<1>4. Spec => []Lags
  BY <1>1, <1>2, <1>3, PTL DEF Spec
<1>5. Lags => CrashLossBounded
  BY DEF Lags
<1>. QED  BY <1>4, <1>5, PTL
=============================================================================
