----------------------------- MODULE VfsManager -----------------------------
(***************************************************************************)
(* The drag-n-drop drive manager: vfs_manager.c with the outer state       *)
(* machine of file_stream.c and the command files of vfs_user.c.           *)
(*                                                                         *)
(* The host writes sectors of a FAT drive in any order it likes: directory *)
(* entries before, between or after the data of the file.  The manager     *)
(* recognises the data of a firmware image, feeds it in order to a file    *)
(* stream, decides from what it saw of the directory and of the data when  *)
(* the transfer is over, and then takes the drive off the bus and back so  *)
(* that the host reads FAIL.TXT.  Everything runs in the main task: a USB  *)
(* write is one action, the 90 ms tick of the main loop is one action, and *)
(* so is each vendor command with which a debug host opens, writes or      *)
(* closes the same file stream beside the drive.                           *)
(* The contents of the streams are left to the flash modules: what a       *)
(* stream answers to a write or a close is chosen by the environment.      *)
(***************************************************************************)
EXTENDS Naturals

CONSTANTS
  Slots,            \* root directory entries the host uses
  AssertSlot,       \* the entry vfs_user_build_filesystem gives ASSERT.TXT
  NoFile, NoName,   \* VFS_FILE_INVALID, an entry with no file
  BinNames, HexNames, OtherNames,     \* 8.3 names by extension
  CommandNames,     \* command files: the four below, or any that only changes
                    \* settings and remounts
  SectorSize,       \* VFS_SECTOR_SIZE, in units of file size
  NumSectors,       \* data sectors 1..NumSectors; sector 0 is the root directory
  FirstSectors,     \* bound: sectors at which files start
  FileSizes,        \* bound: sizes the host writes into an entry
  DisconnectDelay,  \* DISCONNECT_DELAY_MS and ..._TRANSFER_IDLE_MS, in ticks
  TransferTimeout,  \* DISCONNECT_DELAY_TRANSFER_TIMEOUT_MS, in ticks
  ReconnectDelay,   \* RECONNECT_DELAY_MS, in ticks
  MaxEventTime,     \* MAX_EVENT_TIME_MS, in ticks
  Automation,       \* config_get_automation_allowed()
  Images,           \* images the reset button or a power cycle can start
  VendorCommands,   \* whether a debug host uses the stream commands of DAP_vendor.c
  OtherAsserts      \* whether a util_assert of another component may fail

AssertTxt == "ASSERT.TXT"
ModeFile == "MODE.ACT"      \* daplink_mode_file_name: START_BL.ACT or START_IF.ACT
AssertAct == "ASSERT.ACT"
MsdOn == "MSD_ON.CFG"
MsdOff == "MSD_OFF.CFG"
Names == BinNames \cup HexNames \cup OtherNames \cup CommandNames \cup {AssertTxt}

ASSUME VfsAssumption ==
  /\ AssertSlot \in Slots /\ NoFile \notin Slots /\ NoName \notin Names
  /\ BinNames \cap HexNames = {}
  /\ SectorSize \in Nat \ {0} /\ NumSectors \in Nat /\ FileSizes \subseteq Nat
  /\ NumSectors \in FirstSectors /\ FirstSectors \subseteq 1 .. NumSectors
  /\ Automation \in BOOLEAN /\ OtherAsserts \in BOOLEAN /\ VendorCommands \in BOOLEAN
  /\ Images \subseteq {"interface", "bootloader"}
  \* the COMPILER_ASSERTs: no delay exceeds the largest time that is counted
  /\ MaxEventTime \in Nat
  /\ DisconnectDelay \in Nat /\ DisconnectDelay < MaxEventTime
  /\ TransferTimeout \in Nat /\ TransferTimeout < MaxEventTime
  /\ ReconnectDelay \in Nat /\ ReconnectDelay < MaxEventTime

DirSector == 0
\* VFS_INVALID_SECTOR: larger than any sector and than any "next" sector
NoSector == NumSectors + 2
Sectors == 0 .. NumSectors
SectorOrNone == 0 .. NoSector

NoStream == "none"
Streams == {"bin", "hex"}
SUCCESS == "SUCCESS"
DONE == "SUCCESS_DONE"
MORE == "SUCCESS_DONE_OR_CONTINUE"
FAILED == "STREAM_ERROR"
WriteResults == {SUCCESS, MORE, DONE, FAILED}
CloseResults == {SUCCESS, FAILED}
Verdicts == CloseResults \cup
  {"ERROR_DURING_TRANSFER", "OOO_SECTOR", "TRANSFER_TIMEOUT", "INTERNAL"}

\* what the host can write into an entry; the start of an empty file is not read
Entries == {e \in [name : Names, size : FileSizes, start : FirstSectors,
                   hidden : BOOLEAN, deleted : BOOLEAN] :
              e.size = 0 => e.start = NumSectors}

VARIABLES
  m,          \* what the main task's handlers read and write (see MgrType)
  dir,        \* dir_current: the name in each directory entry
  idle,       \* time_usb_idle, in ticks
  media,      \* USBD_MSC_MediaReady
  image,      \* which image runs; "reset" once SystemReset has been called
  quiet,      \* history: ticks since the host last wrote a sector, capped
  vendor      \* history: the debug host's own use of the stream since the boot;
              \* "closed", "open", or "clash" for good once it met the drive's
              \* use of it or broke the order open, write, close

vars == <<m, dir, idle, media, image, quiet, vendor>>

(***************************************************************************)
(* State                                                                   *)
(***************************************************************************)
TransferType ==
  [file_to_program : Slots \cup {NoFile},
   start_sector : SectorOrNone, file_start_sector : SectorOrNone,
   file_next_sector : SectorOrNone, last_ooo_sector : SectorOrNone,
   size_processed : Nat, file_size : Nat, size_transferred : Nat,
   transfer_state : {"not_started", "in_progress", "can_be_finished", "finished"},
   stream_open : BOOLEAN, stream_started : BOOLEAN, stream_finished : BOOLEAN,
   stream_optional_finish : BOOLEAN, file_info_optional_finish : BOOLEAN,
   transfer_timeout : BOOLEAN, stream : Streams \cup {NoStream}]

DefaultTransfer ==
  [file_to_program |-> NoFile,
   start_sector |-> NoSector, file_start_sector |-> NoSector,
   file_next_sector |-> NoSector, last_ooo_sector |-> NoSector,
   size_processed |-> 0, file_size |-> 0, size_transferred |-> 0,
   transfer_state |-> "not_started",
   stream_open |-> FALSE, stream_started |-> FALSE, stream_finished |-> FALSE,
   stream_optional_finish |-> FALSE, file_info_optional_finish |-> FALSE,
   transfer_timeout |-> FALSE, stream |-> NoStream]

DriveStates == {"disconnected", "reconnecting", "connected"}

\* stream_state is file_stream.c's state; the last three fields are the
\* settings RAM; commanded and broken are history: a command file waits for
\* its remount, a util_assert of vfs_manager.c or file_stream.c has failed.
MgrType ==
  [xfer : TransferType, stream_state : {"closed", "open", "end", "error"},
   fail_reason : Verdicts, vfs_state : DriveStates, vfs_state_next : DriveStates,
   hold_in_bl : BOOLEAN, disable_msd : BOOLEAN, assert_set : BOOLEAN,
   commanded : BOOLEAN, broken : BOOLEAN]

Finished(mm) == mm.xfer.transfer_state = "finished"
Changing(mm) == mm.vfs_state # mm.vfs_state_next

(***************************************************************************)
(* Remount requests and assertions.  The handlers below map the manager's  *)
(* memory mm to what it is when they return.                               *)
(***************************************************************************)
RemountAnytime(mm) ==        \* fault: also while the drive is away
  [mm EXCEPT !.vfs_state_next = "reconnecting"]
RemountWhenFinished(mm) ==   \* fault: leaves a transfer in progress alone
  IF ~Changing(mm) /\ mm.vfs_state = "connected" /\ Finished(mm)
  THEN [mm EXCEPT !.vfs_state_next = "reconnecting"]
  ELSE mm
Remount(mm) ==
  IF ~Changing(mm) /\ mm.vfs_state = "connected"
  THEN [mm EXCEPT !.vfs_state_next = "reconnecting"]
  ELSE mm

AbortRemount(mm) ==
  IF mm.vfs_state_next = "reconnecting" /\ mm.vfs_state = "connected"
  THEN [mm EXCEPT !.vfs_state_next = "connected"]
  ELSE mm

\* util_assert(0): recorded, and shown by a remount, only if none is outstanding
RaiseAssert(mm) ==
  IF mm.assert_set THEN mm ELSE Remount([mm EXCEPT !.assert_set = TRUE])

\* util_assert(ok) of the code modelled here
Check(mm, ok) ==
  IF ok THEN mm ELSE [RaiseAssert(mm) EXCEPT !.broken = TRUE]

(***************************************************************************)
(* file_stream.c.  Opening a stream opens the flash decoder, which refuses *)
(* only when it is open already; it is open exactly when the stream is.    *)
(***************************************************************************)
StreamOpenStatus(mm) == IF mm.stream_state = "closed" THEN SUCCESS ELSE "INTERNAL"
StreamOpen(mm) ==
  IF mm.stream_state = "closed" THEN [mm EXCEPT !.stream_state = "open"]
                                ELSE Check(mm, FALSE)

StreamWriteStatus(mm, result) ==
  IF mm.stream_state = "open" THEN result ELSE "INTERNAL"
StreamWrite(mm, result) ==
  IF mm.stream_state # "open" THEN Check(mm, FALSE)
  ELSE [mm EXCEPT !.stream_state = CASE result = DONE -> "end"
                                     [] result = FAILED -> "error"
                                     [] OTHER -> "open"]

StreamCloseStatus(mm, result) ==
  IF mm.stream_state = "closed" THEN "INTERNAL" ELSE result
StreamCloseLeft(mm) ==   \* fault: a stream that failed is not closed
  [Check(mm, mm.stream_state # "closed") EXCEPT
     !.stream_state = IF @ = "error" THEN @ ELSE "closed"]
StreamClose(mm) ==
  [Check(mm, mm.stream_state # "closed") EXCEPT !.stream_state = "closed"]

(***************************************************************************)
(* transfer_update_state                                                   *)
(***************************************************************************)
FileInfoDoneAnywhere(x) ==   \* fault: the file may start where the data did not
  /\ x.file_to_program # NoFile
  /\ x.size_transferred >= x.file_size
  /\ x.file_size > 0
FileInfoDone(x) ==
  /\ x.file_to_program # NoFile
  /\ x.size_transferred >= x.file_size
  /\ x.file_size > 0
  /\ x.start_sector = x.file_start_sector

TransferStarted(x) == x.file_to_program # NoFile \/ x.stream # NoStream
CanBeFinished(x) == x.file_info_optional_finish /\ x.stream_optional_finish
MustBeFinished(x) == x.stream_finished /\ x.file_info_optional_finish

\* a sector below file_next_sector came again, within what was processed
OutOfOrder(x) ==
  /\ x.last_ooo_sector # NoSector
  /\ (x.last_ooo_sector - x.start_sector) * SectorSize < x.size_processed

TimeoutVerdict(x) ==
  CASE OutOfOrder(x) -> "OOO_SECTOR"
    [] ~OutOfOrder(x) /\ (TransferStarted(x) => CanBeFinished(x)) -> SUCCESS
    [] OTHER -> "TRANSFER_TIMEOUT"

UnfinishedState(x) ==
  IF CanBeFinished(x) THEN "can_be_finished"
  ELSE IF TransferStarted(x) THEN "in_progress" ELSE x.transfer_state
NextTransferStateUntimed(x, status) ==   \* fault: a timeout does not finish
  IF status # SUCCESS \/ MustBeFinished(x) THEN "finished" ELSE UnfinishedState(x)
NextTransferState(x, status) ==
  IF status # SUCCESS \/ x.transfer_timeout \/ MustBeFinished(x)
  THEN "finished" ELSE UnfinishedState(x)

ConcludeUnclosed(mm, verdict, close) ==   \* fault: closes only what succeeded
  LET closed == IF mm.xfer.stream_open /\ verdict = SUCCESS THEN StreamClose(mm) ELSE mm
  IN [closed EXCEPT !.xfer.stream_open = FALSE, !.fail_reason = verdict]
\* the stream is closed, and its answer counts if nothing failed before
Conclude(mm, verdict, close) ==
  IF mm.xfer.stream_open
  THEN [StreamClose(mm) EXCEPT
          !.xfer.stream_open = FALSE,
          !.fail_reason = IF verdict = SUCCESS THEN StreamCloseStatus(mm, close)
                                               ELSE verdict]
  ELSE [mm EXCEPT !.fail_reason = verdict]

UpdateState(mm, status, close) ==
  IF Finished(mm) THEN Check(mm, FALSE)
  ELSE LET x == [mm.xfer EXCEPT !.file_info_optional_finish = FileInfoDone(mm.xfer)]
           next == NextTransferState(x, status)
           verdict == IF status = SUCCESS /\ x.transfer_timeout
                      THEN TimeoutVerdict(x) ELSE status
           checked == Check(mm, /\ status \notin {DONE, MORE}
                                /\ x.last_ooo_sector # NoSector =>
                                     x.start_sector # NoSector)
           moved == [checked EXCEPT !.xfer = [x EXCEPT !.transfer_state = next]]
           after == IF next = "finished" THEN Conclude(moved, verdict, close)
                                         ELSE moved
       IN IF x.transfer_timeout THEN after ELSE Remount(after)

(***************************************************************************)
(* Directory changes                                                       *)
(***************************************************************************)
StreamOf(name) == CASE name \in BinNames -> "bin" [] name \in HexNames -> "hex"
                    [] OTHER -> NoStream

\* vfs_file_get_start_sector
StartSector(e) == IF e.size = 0 THEN NoSector ELSE e.start

\* "initialise what has not been set yet"
WithFileInfo(x, file, start, s) ==
  [x EXCEPT !.file_to_program = IF @ = NoFile THEN file ELSE @,
            !.file_start_sector = IF @ = NoSector THEN start ELSE @,
            !.stream = IF @ = NoStream THEN s ELSE @]

FileInfoConflict(x, start, size, s) ==
  \/ size < x.file_size /\ size < x.size_transferred /\ size > 0
  \/ start # NoSector /\ start # x.file_start_sector
  \/ s # NoStream /\ s # x.stream

UpdateFileInfo(mm, file, start, size, s, close) ==
  IF Finished(mm) THEN Check(mm, FALSE)
  ELSE LET x == WithFileInfo(mm.xfer, file, start, s)
       IN IF FileInfoConflict(x, start, size, s)
          THEN UpdateState([mm EXCEPT !.xfer = x], "ERROR_DURING_TRANSFER", close)
          ELSE UpdateState([mm EXCEPT !.xfer = [x EXCEPT !.file_size = size]],
                           SUCCESS, close)

ResetFileInfoFully(mm) ==    \* fault: forgets a stream that has started
  AbortRemount([mm EXCEPT !.xfer = DefaultTransfer])
ResetFileInfo(mm) ==
  IF mm.xfer.stream_started
  THEN [mm EXCEPT !.xfer.file_to_program = NoFile,
                  !.xfer.file_start_sector = NoSector,
                  !.xfer.file_size = 0]
  ELSE AbortRemount([mm EXCEPT !.xfer = DefaultTransfer])

\* the remount a command file asks for
CommandRemountForgotten(mm) == [mm EXCEPT !.commanded = TRUE]   \* fault: no remount
CommandRemount(mm) == [Remount(mm) EXCEPT !.commanded = TRUE]

\* vfs_user_file_change_handler: command files, and ASSERT.TXT deleted
UserFileChange(mm, name, change, allowed) ==
  CASE ~allowed -> mm
    [] allowed /\ change = "created" /\ name = ModeFile ->
         CommandRemount([mm EXCEPT !.hold_in_bl = (image = "interface") \/ @])
    [] allowed /\ change = "created" /\ name = MsdOn ->
         CommandRemount([mm EXCEPT !.disable_msd = FALSE])
    [] allowed /\ change = "created" /\ name = MsdOff ->
         CommandRemount([mm EXCEPT !.disable_msd = TRUE])
    [] allowed /\ change = "created" /\ name = AssertAct -> RaiseAssert(mm)
    [] /\ allowed /\ change = "created"
       /\ name \in CommandNames \ {ModeFile, MsdOn, MsdOff, AssertAct} -> CommandRemount(mm)
    [] allowed /\ change = "deleted" /\ name = AssertTxt ->
         CommandRemount([mm EXCEPT !.assert_set = FALSE])
    [] OTHER -> mm

\* file_change_handler
FileChange(mm, name, change, file, e, allowed, close) ==
  LET u == UserFileChange(mm, name, change, allowed)
  IN CASE Finished(u) -> u
       [] ~Finished(u) /\ change = "changed" /\ file = u.xfer.file_to_program ->
            UpdateFileInfo(u, file, StartSector(e), e.size, StreamOf(name), close)
       [] ~Finished(u) /\ change = "created" /\ StreamOf(name) # NoStream /\ ~e.hidden ->
            UpdateFileInfo(u, file, StartSector(e), e.size, StreamOf(name), close)
       [] ~Finished(u) /\ change = "deleted" /\ file = u.xfer.file_to_program ->
            ResetFileInfo(u)
       [] OTHER -> u

\* write_dir for one entry: always "changed", then "deleted" or "created"
DirChange(mm, file, e, allowed, close) ==
  LET changed == FileChange(mm, e.name, "changed", file, e, allowed, close)
  IN CASE e.deleted -> FileChange(changed, dir[file], "deleted", file, e, allowed, close)
       [] ~e.deleted /\ e.name # dir[file] ->
            FileChange(changed, e.name, "created", file, e, allowed, close)
       [] OTHER -> changed

(***************************************************************************)
(* File data                                                               *)
(***************************************************************************)
TransferStreamOpen(mm, s, sector, close) ==
  LET checked == Check(mm, ~mm.xfer.stream_open)
      x == [checked.xfer EXCEPT
              !.start_sector = IF @ = NoSector THEN sector ELSE @,
              !.stream = IF @ = NoStream THEN s ELSE @]
      known == [checked EXCEPT !.xfer = x]
  IN IF x.start_sector # sector \/ x.stream # s
     THEN UpdateState(known, "ERROR_DURING_TRANSFER", close)
     ELSE LET opened == StreamOpen(known)
              status == StreamOpenStatus(known)
          IN UpdateState(IF status # SUCCESS THEN opened
                         ELSE [opened EXCEPT !.xfer.file_next_sector = sector,
                                             !.xfer.stream_open = TRUE,
                                             !.xfer.stream_started = TRUE],
                         status, close)

TransferStreamData(mm, result, close) ==
  IF mm.xfer.stream_finished THEN Check(mm, FALSE)
  ELSE LET checked == Check(mm, mm.xfer.stream_open)
           status == StreamWriteStatus(checked, result)
           written == [StreamWrite(checked, result) EXCEPT
                         !.xfer.size_processed = @ + SectorSize,
                         !.xfer.stream_optional_finish = status \in {DONE, MORE}]
       IN CASE status = DONE ->
                 UpdateState([StreamClose(written) EXCEPT
                                !.xfer.stream_open = FALSE,
                                !.xfer.stream_finished = TRUE],
                             StreamCloseStatus(written, close), close)
            [] status = MORE -> UpdateState(written, SUCCESS, close)
            [] OTHER -> UpdateState(written, status, close)

\* file_data_handler.  The chip erase it starts when a stream opens ignores
\* every answer of the flash interface and changes nothing kept here.
FileData(mm, sector, kind, result, close) ==
  LET o == IF ~mm.xfer.stream_started /\ kind # NoStream
           THEN TransferStreamOpen(mm, kind, sector, close) ELSE mm
      next == o.xfer.file_next_sector
      taken == [o EXCEPT !.xfer.size_transferred = @ + SectorSize,
                         !.xfer.file_next_sector = sector + 1]
  IN CASE ~o.xfer.stream_started \/ sector < o.xfer.start_sector -> o
       [] o.xfer.stream_started /\ sector >= o.xfer.start_sector /\ sector < next ->
            \* NoSector is the largest value, so this is MIN and its initial case
            [o EXCEPT !.xfer.last_ooo_sector = IF sector < @ THEN sector ELSE @]
       [] o.xfer.stream_started /\ sector >= o.xfer.start_sector /\ sector > next -> o
       [] OTHER -> IF o.xfer.stream_finished THEN UpdateState(taken, SUCCESS, close)
                   ELSE TransferStreamData(taken, result, close)

(***************************************************************************)
(* The host's writes: usbd_msc_write_sect                                  *)
(***************************************************************************)
Running == image # "reset"

HostWriteCommon ==
  /\ Running /\ media
  /\ idle' = 0 /\ quiet' = 0
  /\ UNCHANGED <<media, image>>

\* A root directory sector in which one entry changed.  A sector with several
\* changed entries is handled entry by entry, like one such write after another.
\* Commands are allowed in automation mode, or while the reset button is held.
HostWritesEntry ==
  /\ HostWriteCommon /\ UNCHANGED vendor
  /\ \E file \in Slots, e \in Entries, allowed \in {Automation, TRUE},
       close \in CloseResults :
       /\ e.deleted => e.name = dir[file]
       /\ ~e.deleted => e.name # AssertTxt
       /\ e.hidden => ~e.deleted /\ StreamOf(e.name) # NoStream
       /\ IF Finished(m) THEN UNCHANGED <<m, dir>>
          ELSE LET d == DirChange(m, file, e, allowed, close)
               IN /\ m' = IF Finished(d) THEN d
                          ELSE FileData(d, DirSector, NoStream, SUCCESS, close)
                  /\ dir' = [dir EXCEPT ![file] = IF e.deleted THEN NoName ELSE e.name]

\* A sector of file data; kind is what stream_start_identify makes of it, which is
\* asked only until a stream has started.
HostWritesData ==
  /\ HostWriteCommon
  /\ UNCHANGED dir
  /\ \E sector \in Sectors \ {DirSector},
       kind \in IF m.xfer.stream_started THEN {NoStream} ELSE Streams \cup {NoStream},
       result \in WriteResults, close \in CloseResults :
       /\ m' = IF Finished(m) THEN m ELSE FileData(m, sector, kind, result, close)
       /\ vendor' = IF vendor = "open" /\ ~Finished(m) /\ kind # NoStream
                    THEN "clash" ELSE vendor

(***************************************************************************)
(* The periodic state machine                                              *)
(***************************************************************************)
DelayOfIdle(mm) ==   \* fault: the short delay although a file is being received
  IF mm.vfs_state = "reconnecting" /\ mm.vfs_state_next = "connected"
  THEN ReconnectDelay ELSE IF mm.vfs_state = "connected" THEN DisconnectDelay ELSE 0
DelayOf(mm) ==
  CASE mm.vfs_state = "connected" ->
         IF mm.xfer.transfer_state = "in_progress" THEN TransferTimeout
                                                   ELSE DisconnectDelay
    [] mm.vfs_state = "reconnecting" /\ mm.vfs_state_next = "connected" -> ReconnectDelay
    [] OTHER -> 0

\* the transitions ready_for_state_change has a delay for
TransitionKnown(mm) ==
  \/ mm.vfs_state = "connected"
  \/ mm.vfs_state = "disconnected" /\ mm.vfs_state_next = "connected"
  \/ mm.vfs_state = "reconnecting" /\ mm.vfs_state_next \in {"connected", "disconnected"}

ReadyForStateChange == idle > DelayOf(m)

Uncapped(t) == t + 1   \* fault: MAX_EVENT_TIME_MS is not looked at
Capped(t) == IF t < MaxEventTime THEN t + 1 ELSE t

\* what leaving the connected state does to the transfer
CloseTransfer(mm, close) ==
  LET closed == IF Finished(mm) THEN mm
                ELSE UpdateState([mm EXCEPT !.xfer.transfer_timeout = TRUE], SUCCESS, close)
  IN [Check(closed, Finished(closed)) EXCEPT !.commanded = FALSE]

\* vfs_user_disconnecting
ResetOnDisconnect(mm) ==
  \/ image = "bootloader" /\ mm.fail_reason = SUCCESS
  \/ image = "interface" /\ (mm.hold_in_bl \/ mm.disable_msd)

EmptyDir(mm) ==
  [s \in Slots |-> IF s = AssertSlot /\ mm.assert_set THEN AssertTxt ELSE NoName]

\* entering the connected state builds the file system and forgets the transfer
EnterStateEarly(mm) ==   \* fault: forgets it as soon as the drive goes away
  IF mm.vfs_state # "disconnected" THEN [mm EXCEPT !.xfer = DefaultTransfer] ELSE mm
EnterState(mm) ==
  IF mm.vfs_state = "connected" THEN [mm EXCEPT !.xfer = DefaultTransfer] ELSE mm

Transition(close) ==
  LET next == m.vfs_state_next
      moved == [m EXCEPT !.vfs_state = next,
                         !.vfs_state_next = IF next = "reconnecting"
                                            THEN "connected" ELSE next]
      left == IF m.vfs_state = "connected" THEN CloseTransfer(moved, close) ELSE moved
  IN /\ idle' = 0
     /\ m' = EnterState(left)
     /\ dir' = IF next = "connected" THEN EmptyDir(left) ELSE dir
     /\ media' = (next = "connected")
     /\ image' = IF m.vfs_state = "connected" /\ ResetOnDisconnect(left)
                 THEN "reset" ELSE image

\* vfs_mngr_periodic(90) on the 90 ms event of the main task
Periodic ==
  /\ Running
  /\ quiet' = Capped(quiet) /\ UNCHANGED vendor
  /\ IF ~Changing(m) THEN UNCHANGED <<m, dir, idle, media, image>>
     ELSE IF ReadyForStateChange THEN \E close \in CloseResults : Transition(close)
     ELSE /\ idle' = Capped(idle)
          /\ m' = Check(m, TransitionKnown(m))
          /\ UNCHANGED <<dir, media, image>>

\* a util_assert elsewhere fails; in an interrupt handler it asks for no remount
AssertElsewhere ==
  /\ Running /\ OtherAsserts
  /\ \E in_isr \in BOOLEAN :
       m' = IF in_isr THEN [m EXCEPT !.assert_set = TRUE] ELSE RaiseAssert(m)
  /\ UNCHANGED <<dir, idle, media, image, quiet, vendor>>

(***************************************************************************)
(* ID_DAP_MSD_Open, _Write and _Close of DAP_vendor.c, which the interface *)
(* offers: the debug host's hand on the stream, past the drive manager.    *)
(***************************************************************************)
VendorCommand ==
  /\ VendorCommands /\ image = "interface"
  /\ UNCHANGED <<dir, idle, media, image, quiet>>

\* known: the byte of the command names a stream type
VendorOpens ==
  /\ VendorCommand
  /\ \E known \in BOOLEAN :
       /\ m' = IF known THEN StreamOpen(m) ELSE Check(m, FALSE)
       /\ vendor' = IF known /\ vendor = "closed" /\ m.stream_state = "closed"
                    THEN "open" ELSE "clash"

VendorWrites ==
  /\ VendorCommand
  /\ \E result \in WriteResults : m' = StreamWrite(m, result)
  /\ vendor' = IF vendor = "open" /\ m.stream_state = "open" THEN "open" ELSE "clash"

VendorCloses ==
  /\ VendorCommand
  /\ m' = StreamClose(m)
  /\ vendor' = IF vendor = "open" THEN "closed" ELSE "clash"

(***************************************************************************)
(* Reset and boot.  The settings RAM survives; hold_in_bl is consumed by   *)
(* config_init.  The bootloader enables the drive at once, the interface   *)
(* asks for it unless MSD is disabled.                                     *)
(***************************************************************************)
BootMemory(img, ram) ==
  [xfer |-> DefaultTransfer, stream_state |-> "closed", fail_reason |-> SUCCESS,
   vfs_state |-> IF img = "bootloader" THEN "connected" ELSE "disconnected",
   vfs_state_next |-> IF img = "interface" /\ ram.disable_msd
                      THEN "disconnected" ELSE "connected",
   hold_in_bl |-> FALSE, disable_msd |-> ram.disable_msd, assert_set |-> ram.assert_set,
   commanded |-> FALSE, broken |-> FALSE]

BootImage(ram, img) ==
  /\ img \in Images \cup {"bootloader"}
  /\ IF ram.hold_in_bl THEN img = "bootloader" ELSE img \in Images

Init ==
  \E img \in Images :
    /\ m = BootMemory(img, [disable_msd |-> FALSE, assert_set |-> FALSE])
    /\ dir = [s \in Slots |-> NoName]
    /\ idle = 0 /\ quiet = 0 /\ vendor = "closed"
    /\ media = (img = "bootloader")
    /\ image = img

Boot ==
  /\ ~Running
  /\ \E img \in {"interface", "bootloader"} :
       /\ BootImage(m, img)
       /\ m' = BootMemory(img, m)
       /\ dir' = EmptyDir(m)
       /\ media' = (img = "bootloader")
       /\ image' = img
  /\ idle' = 0 /\ quiet' = 0 /\ vendor' = "closed"

HostWrites == HostWritesEntry \/ HostWritesData
DebugHost == VendorOpens \/ VendorWrites \/ VendorCloses
Next == HostWrites \/ DebugHost \/ Periodic \/ AssertElsewhere \/ Boot

Spec == Init /\ [][Next]_vars

\* The main loop serves its 90 ms event whatever the hosts do, and a reset
\* device boots; neither host owes the device anything.
Fairness == WF_vars(Periodic) /\ WF_vars(Boot)
FairSpec == Spec /\ Fairness

(***************************************************************************)
(* Properties                                                              *)
(***************************************************************************)
\* Every variable keeps its type.
TypeOK ==
  /\ m \in MgrType
  /\ dir \in [Slots -> Names \cup {NoName}]
  /\ idle \in 0 .. MaxEventTime /\ quiet \in 0 .. MaxEventTime
  /\ media \in BOOLEAN
  /\ image \in {"interface", "bootloader", "reset"}
  /\ vendor \in {"closed", "open", "clash"}

\* No order of directory writes, data writes, ticks, stream answers and vendor
\* commands makes a util_assert of vfs_manager.c or file_stream.c fail (no transfer
\* is updated after it finished, no stream is opened twice, written or closed when
\* it is not open, no drive transition lacks a delay, none leaves a transfer
\* unfinished), unless the debug host's use of the stream met the drive's or broke
\* its own order.  Nothing but that order keeps them apart (DAP_vendor.c:149).
NoAssertFails == m.broken => vendor = "clash"

\* The transfer's record of its stream agrees with where the transfer is; and until
\* the debug host and the drive meet, file_stream.c holds a stream open between two
\* events exactly for the one that opened it.  So no remount, deletion or failure
\* leaks an open stream (which would refuse every later one), closes it twice, or
\* takes the debug host's.
StreamOwned ==
  /\ m.xfer.stream_open => m.xfer.stream_started /\ ~m.xfer.stream_finished
                           /\ ~Finished(m)
  /\ vendor # "clash" =>
       IF m.xfer.stream_open THEN m.stream_state = "open" /\ vendor = "closed"
                             ELSE m.stream_state = "closed" <=> vendor = "closed"

\* The host sees a medium exactly in the connected state, and only transitions the
\* periodic function knows are ever pending: no remount is asked for while the
\* drive is away.
DriveConsistent ==
  /\ Running => (media <=> m.vfs_state = "connected")
  /\ Changing(m) => TransitionKnown(m)
  /\ m.vfs_state = "reconnecting" => Changing(m)

\* Once a transfer has finished its verdict is final: no later write of the host
\* changes it or starts another transfer before the drive was built anew.
VerdictFinal ==
  [][Finished(m) /\ Running' /\ Running =>
       \/ Finished(m') /\ m'.fail_reason = m.fail_reason
       \/ m.vfs_state # "connected" /\ m'.vfs_state = "connected"]_vars

\* The drive goes away only after the host has left it alone for the delay that
\* belongs to the transfer, the long one while a file is being received.
DetachesOnlyWhenQuiet ==
  [][m.vfs_state = "connected" /\ m'.vfs_state # "connected" /\ Running =>
       quiet > IF m.xfer.transfer_state = "in_progress" THEN TransferTimeout
                                                        ELSE DisconnectDelay]_vars

\* A transfer is reported as a success only if the directory names a file of
\* nonzero size, all of that size came in at that file's own start sector, the
\* stream could end where it was, and no sector behind it came a second time
\* unless the stream had ended by itself.
SuccessIsComplete ==
  [][~Finished(m) /\ Finished(m') /\ m'.fail_reason = SUCCESS
       /\ TransferStarted(m'.xfer) =>
       /\ m'.xfer.file_to_program # NoFile /\ m'.xfer.file_size > 0
       /\ m'.xfer.size_transferred >= m'.xfer.file_size
       /\ m'.xfer.start_sector = m'.xfer.file_start_sector
       /\ m'.xfer.stream_optional_finish
       /\ OutOfOrder(m'.xfer) => m'.xfer.stream_finished]_vars

\* When the host falls silent, every transfer it began comes to its end: it is
\* concluded and the drive built anew (or the file was deleted, or a reset boots).
HostSilent == <>[][~HostWrites]_vars
TransfersConclude == HostSilent => (TransferStarted(m.xfer) ~> ~TransferStarted(m.xfer))

\* docs/MSD_COMMANDS.md: every command completes by remounting the drive.  Here:
\* once the host is silent, the drive goes away after every accepted command that
\* asks for it.  ASSERT.ACT does not ask: its assertion shows itself by a remount
\* only if none is outstanding yet.
CommandsRemount == HostSilent => (m.commanded ~> ~m.commanded)
=============================================================================
