-------------------------- MODULE VfsManagerProofs --------------------------
EXTENDS VfsManager, TLAPS

(***************************************************************************)
(* Every handler maps the manager's memory to such a memory.               *)
(***************************************************************************)
LEMMA RemountType ==
  ASSUME NEW mm \in MgrType
  PROVE  Remount(mm) \in MgrType
BY DEF Remount, MgrType, DriveStates

LEMMA AbortRemountType ==
  ASSUME NEW mm \in MgrType
  PROVE  AbortRemount(mm) \in MgrType
BY DEF AbortRemount, MgrType, DriveStates

LEMMA RaiseAssertType ==
  ASSUME NEW mm \in MgrType
  PROVE  RaiseAssert(mm) \in MgrType
<1>1. [mm EXCEPT !.assert_set = TRUE] \in MgrType
  BY DEF MgrType
<1> QED BY <1>1, RemountType DEF RaiseAssert

LEMMA CheckType ==
  ASSUME NEW mm \in MgrType, NEW ok
  PROVE  Check(mm, ok) \in MgrType
<1>1. [RaiseAssert(mm) EXCEPT !.broken = TRUE] \in MgrType
  BY RaiseAssertType DEF MgrType
<1> QED BY <1>1, Zenon DEF Check

\* The transfer in a memory can be replaced by any transfer, and the other fields one
\* by one.
LEMMA FieldTypes ==
  ASSUME NEW mm \in MgrType
  PROVE  /\ mm.xfer \in TransferType /\ mm.fail_reason \in Verdicts
         /\ \A x \in TransferType : [mm EXCEPT !.xfer = x] \in MgrType
         /\ \A v \in Verdicts : [mm EXCEPT !.fail_reason = v] \in MgrType
         /\ \A s \in {"closed", "open", "end", "error"} :
              [mm EXCEPT !.stream_state = s] \in MgrType
BY DEF MgrType

LEMMA ConstantTypes ==
  /\ DefaultTransfer \in TransferType
  /\ NoSector \in SectorOrNone
  /\ \A s \in Sectors : s \in SectorOrNone /\ s + 1 \in SectorOrNone
  /\ SUCCESS \in Verdicts /\ "ERROR_DURING_TRANSFER" \in Verdicts /\ "INTERNAL" \in Verdicts
<1>1. NumSectors \in Nat
  BY VfsAssumption
<1>2. NoSector \in SectorOrNone
  BY <1>1 DEF NoSector, SectorOrNone
<1>3. \A s \in Sectors : s \in SectorOrNone /\ s + 1 \in SectorOrNone
  BY <1>1 DEF NoSector, SectorOrNone, Sectors
<1>4. DefaultTransfer \in TransferType
  BY <1>2 DEF DefaultTransfer, TransferType
<1> QED BY <1>2, <1>3, <1>4 DEF Verdicts, CloseResults

LEMMA StreamCloseType ==
  ASSUME NEW mm \in MgrType, NEW close \in CloseResults
  PROVE  StreamClose(mm) \in MgrType /\ StreamCloseStatus(mm, close) \in Verdicts
<1>1. Check(mm, mm.stream_state # "closed") \in MgrType
  BY CheckType
<1> QED BY <1>1, FieldTypes DEF StreamClose, StreamCloseStatus, Verdicts

LEMMA StreamOpenType ==
  ASSUME NEW mm \in MgrType
  PROVE  StreamOpen(mm) \in MgrType
<1>1. Check(mm, FALSE) \in MgrType /\ [mm EXCEPT !.stream_state = "open"] \in MgrType
  BY CheckType, FieldTypes
<1> QED BY <1>1 DEF StreamOpen

LEMMA StreamWriteType ==
  ASSUME NEW mm \in MgrType, NEW result \in WriteResults
  PROVE  StreamWrite(mm, result) \in MgrType
<1>1. Check(mm, FALSE) \in MgrType
  BY CheckType
<1>2. (CASE result = DONE -> "end" [] result = FAILED -> "error" [] OTHER -> "open")
        \in {"closed", "open", "end", "error"}
  BY Zenon
<1>3. [mm EXCEPT !.stream_state = CASE result = DONE -> "end"
                                  [] result = FAILED -> "error"
                                  [] OTHER -> "open"] \in MgrType
  BY <1>2, FieldTypes, Zenon
<1> QED BY <1>1, <1>3, Zenon DEF StreamWrite

LEMMA ConcludeType ==
  ASSUME NEW mm \in MgrType, NEW verdict \in Verdicts, NEW close \in CloseResults
  PROVE  Conclude(mm, verdict, close) \in MgrType
<1>1. ASSUME NEW x \in MgrType, NEW v \in Verdicts
      PROVE  [x EXCEPT !.xfer.stream_open = FALSE, !.fail_reason = v] \in MgrType
  <2>1. [x.xfer EXCEPT !.stream_open = FALSE] \in TransferType
    BY DEF MgrType, TransferType
  <2> QED BY <2>1 DEF MgrType
<1>2. \A v \in Verdicts : [mm EXCEPT !.fail_reason = v] \in MgrType
  BY FieldTypes
<1>3. (IF verdict = SUCCESS THEN StreamCloseStatus(mm, close) ELSE verdict) \in Verdicts
  BY StreamCloseType
<1> QED BY <1>1, <1>2, <1>3, StreamCloseType DEF Conclude

LEMMA UpdateStateType ==
  ASSUME NEW mm \in MgrType, NEW status \in Verdicts, NEW close \in CloseResults
  PROVE  UpdateState(mm, status, close) \in MgrType
<1> DEFINE x == [mm.xfer EXCEPT !.file_info_optional_finish = FileInfoDone(mm.xfer)]
           next == NextTransferState(x, status)
           verdict == IF status = SUCCESS /\ x.transfer_timeout
                      THEN TimeoutVerdict(x) ELSE status
           checked == Check(mm, /\ status \notin {DONE, MORE}
                                /\ x.last_ooo_sector # NoSector =>
                                     x.start_sector # NoSector)
           moved == [checked EXCEPT !.xfer = [x EXCEPT !.transfer_state = next]]
           after == IF next = "finished" THEN Conclude(moved, verdict, close)
                                         ELSE moved
<1>1. FileInfoDone(mm.xfer) \in BOOLEAN
  BY Zenon DEF FileInfoDone
<1>2. x \in TransferType
  <2>1. mm.xfer \in TransferType
    BY FieldTypes
  <2> HIDE DEF x
  <2>2. x = [mm.xfer EXCEPT !.file_info_optional_finish = FileInfoDone(mm.xfer)]
    BY DEF x
  <2> QED BY <1>1, <2>1, <2>2 DEF TransferType
<1>3. next \in {"not_started", "in_progress", "can_be_finished", "finished"}
  <2> HIDE DEF x
  <2>1. x.transfer_state \in {"not_started", "in_progress", "can_be_finished", "finished"}
    BY <1>2 DEF TransferType
  <2> QED BY <2>1, Zenon DEF NextTransferState, UnfinishedState
<1>4. verdict \in Verdicts
  <2> HIDE DEF x
  <2> QED BY DEF TimeoutVerdict, Verdicts, CloseResults
<1>5. checked \in MgrType
  BY CheckType
<1>6. moved \in MgrType
  <2> HIDE DEF x, next, checked
  <2>1. [x EXCEPT !.transfer_state = next] \in TransferType
    BY <1>2, <1>3 DEF TransferType
  <2> QED BY <1>5, <2>1, FieldTypes
<1>7. after \in MgrType
  <2> HIDE DEF x, next, verdict, moved
  <2> QED BY <1>4, <1>6, ConcludeType
<1>8. UpdateState(mm, status, close) =
        IF Finished(mm) THEN Check(mm, FALSE)
        ELSE IF x.transfer_timeout THEN after ELSE Remount(after)
  BY Zenon DEF UpdateState
<1> HIDE DEF x, after
<1> QED BY <1>7, <1>8, CheckType, RemountType, Zenon

LEMMA EntryTypes ==
  ASSUME NEW e \in Entries
  PROVE  /\ StartSector(e) \in SectorOrNone /\ e.size \in Nat
         /\ StreamOf(e.name) \in Streams \cup {NoStream}
         /\ e.name \in Names
<1>1. e.start \in FirstSectors /\ e.size \in FileSizes /\ e.name \in Names
  BY DEF Entries
<1>2. e.size \in Nat /\ e.start \in SectorOrNone
  <2>1. e.size \in Nat /\ e.start \in 1 .. NumSectors /\ NumSectors \in Nat
    BY <1>1, VfsAssumption
  <2> QED BY <2>1 DEF SectorOrNone, NoSector
<1>3. StartSector(e) \in SectorOrNone
  BY <1>2, ConstantTypes DEF StartSector
<1>4. StreamOf(e.name) \in Streams \cup {NoStream}
  BY Zenon DEF StreamOf, Streams
<1> QED BY <1>1, <1>2, <1>3, <1>4

LEMMA UpdateFileInfoType ==
  ASSUME NEW mm \in MgrType, NEW file \in Slots, NEW start \in SectorOrNone,
         NEW size \in Nat, NEW s \in Streams \cup {NoStream}, NEW close \in CloseResults
  PROVE  UpdateFileInfo(mm, file, start, size, s, close) \in MgrType
<1> DEFINE x == WithFileInfo(mm.xfer, file, start, s)
<1>1. x \in TransferType
  <2>1. mm.xfer \in TransferType
    BY FieldTypes
  <2> QED BY <2>1 DEF WithFileInfo, TransferType
<1>2. [x EXCEPT !.file_size = size] \in TransferType
  <2> HIDE DEF x
  <2> QED BY <1>1 DEF TransferType
<1> HIDE DEF x
<1>3. UpdateState([mm EXCEPT !.xfer = x], "ERROR_DURING_TRANSFER", close) \in MgrType
  BY <1>1, FieldTypes, ConstantTypes, UpdateStateType
<1>4. UpdateState([mm EXCEPT !.xfer = [x EXCEPT !.file_size = size]], SUCCESS, close)
        \in MgrType
  BY <1>2, FieldTypes, ConstantTypes, UpdateStateType
<1> QED BY <1>3, <1>4, CheckType, Zenon DEF UpdateFileInfo, x

LEMMA ResetFileInfoType ==
  ASSUME NEW mm \in MgrType
  PROVE  ResetFileInfo(mm) \in MgrType
<1>1. [mm EXCEPT !.xfer.file_to_program = NoFile, !.xfer.file_start_sector = NoSector,
                 !.xfer.file_size = 0] \in MgrType
  <2>1. [mm.xfer EXCEPT !.file_to_program = NoFile, !.file_start_sector = NoSector,
                        !.file_size = 0] \in TransferType
    <3>1. mm.xfer \in TransferType /\ NoSector \in SectorOrNone
      BY FieldTypes, ConstantTypes
    <3> QED BY <3>1 DEF TransferType
  <2> QED BY <2>1 DEF MgrType
<1>2. [mm EXCEPT !.xfer = DefaultTransfer] \in MgrType
  BY FieldTypes, ConstantTypes
<1> QED BY <1>1, <1>2, AbortRemountType DEF ResetFileInfo

LEMMA UserFileChangeType ==
  ASSUME NEW mm \in MgrType, NEW name, NEW change, NEW allowed
  PROVE  UserFileChange(mm, name, change, allowed) \in MgrType
<1>1. ASSUME NEW x \in MgrType PROVE CommandRemount(x) \in MgrType
  BY <1>1, RemountType DEF CommandRemount, MgrType
<1>2. [mm EXCEPT !.hold_in_bl = (image = "interface") \/ @] \in MgrType
  BY DEF MgrType
<1>3. /\ [mm EXCEPT !.disable_msd = FALSE] \in MgrType
      /\ [mm EXCEPT !.disable_msd = TRUE] \in MgrType
      /\ [mm EXCEPT !.assert_set = FALSE] \in MgrType
  BY DEF MgrType
<1> QED BY <1>1, <1>2, <1>3, RaiseAssertType, Zenon DEF UserFileChange

LEMMA FileChangeType ==
  ASSUME NEW mm \in MgrType, NEW name, NEW change, NEW file \in Slots,
         NEW e \in Entries, NEW allowed, NEW close \in CloseResults,
         StreamOf(name) \in Streams \cup {NoStream}
  PROVE  FileChange(mm, name, change, file, e, allowed, close) \in MgrType
<1> DEFINE u == UserFileChange(mm, name, change, allowed)
<1>1. u \in MgrType
  BY UserFileChangeType
<1> HIDE DEF u
<1>2. UpdateFileInfo(u, file, StartSector(e), e.size, StreamOf(name), close) \in MgrType
  BY <1>1, EntryTypes, UpdateFileInfoType
<1>3. ResetFileInfo(u) \in MgrType
  BY <1>1, ResetFileInfoType
<1> QED BY <1>1, <1>2, <1>3, Zenon DEF FileChange, u

LEMMA DirChangeType ==
  ASSUME NEW mm \in MgrType, NEW file \in Slots, NEW e \in Entries, NEW allowed,
         NEW close \in CloseResults
  PROVE  DirChange(mm, file, e, allowed, close) \in MgrType
<1>1. \A name : StreamOf(name) \in Streams \cup {NoStream}
  BY Zenon DEF StreamOf, Streams
<1> DEFINE changed == FileChange(mm, e.name, "changed", file, e, allowed, close)
<1>2. changed \in MgrType
  BY <1>1, FileChangeType
<1> HIDE DEF changed
<1>3. /\ FileChange(changed, dir[file], "deleted", file, e, allowed, close) \in MgrType
      /\ FileChange(changed, e.name, "created", file, e, allowed, close) \in MgrType
  BY <1>1, <1>2, FileChangeType
<1> QED BY <1>2, <1>3, Zenon DEF DirChange, changed

LEMMA TransferStreamOpenType ==
  ASSUME NEW mm \in MgrType, NEW s \in Streams, NEW sector \in Sectors,
         NEW close \in CloseResults
  PROVE  TransferStreamOpen(mm, s, sector, close) \in MgrType
<1> DEFINE checked == Check(mm, ~mm.xfer.stream_open)
           x == [checked.xfer EXCEPT
                   !.start_sector = IF @ = NoSector THEN sector ELSE @,
                   !.stream = IF @ = NoStream THEN s ELSE @]
           known == [checked EXCEPT !.xfer = x]
           opened == StreamOpen(known)
           begun == [opened EXCEPT !.xfer.file_next_sector = sector,
                                   !.xfer.stream_open = TRUE,
                                   !.xfer.stream_started = TRUE]
           status == StreamOpenStatus(known)
<1>1. checked \in MgrType
  BY CheckType
<1>2. known \in MgrType
  <2> HIDE DEF checked
  <2>1. checked.xfer \in TransferType /\ sector \in SectorOrNone
    BY <1>1, FieldTypes, ConstantTypes
  <2>2. x \in TransferType
    BY <2>1 DEF TransferType
  <2> QED BY <1>1, <2>2, FieldTypes
<1>3. opened \in MgrType
  <2> HIDE DEF known
  <2> QED BY <1>2, StreamOpenType
<1>4. begun \in MgrType
  <2> HIDE DEF opened
  <2>1. [opened.xfer EXCEPT !.file_next_sector = sector, !.stream_open = TRUE,
                            !.stream_started = TRUE] \in TransferType
    <3>1. opened.xfer \in TransferType /\ sector \in SectorOrNone
      BY <1>3, FieldTypes, ConstantTypes
    <3> QED BY <3>1 DEF TransferType
  <2> QED BY <1>3, <2>1 DEF MgrType
<1>5. status \in Verdicts
  <2> HIDE DEF known
  <2> QED BY ConstantTypes DEF StreamOpenStatus
<1>6. UpdateState(known, "ERROR_DURING_TRANSFER", close) \in MgrType
  <2> HIDE DEF known
  <2> QED BY <1>2, ConstantTypes, UpdateStateType
<1>7. UpdateState(IF status # SUCCESS THEN opened ELSE begun, status, close) \in MgrType
  <2> HIDE DEF status, opened, begun
  <2>1. (IF status # SUCCESS THEN opened ELSE begun) \in MgrType
    BY <1>3, <1>4
  <2> QED BY <1>5, <2>1, UpdateStateType
<1>8. TransferStreamOpen(mm, s, sector, close) =
        IF x.start_sector # sector \/ x.stream # s
        THEN UpdateState(known, "ERROR_DURING_TRANSFER", close)
        ELSE UpdateState(IF status # SUCCESS THEN opened ELSE begun, status, close)
  BY Zenon DEF TransferStreamOpen
<1> HIDE DEF x, known, opened, begun, status
<1> QED BY <1>6, <1>7, <1>8, Zenon

LEMMA MemberIsBoolean ==
  ASSUME NEW e, NEW S
  PROVE  (e \in S) \in BOOLEAN
OBVIOUS

LEMMA TransferStreamDataType ==
  ASSUME NEW mm \in MgrType, NEW result \in WriteResults, NEW close \in CloseResults
  PROVE  TransferStreamData(mm, result, close) \in MgrType
<1> DEFINE checked == Check(mm, mm.xfer.stream_open)
           status == StreamWriteStatus(checked, result)
           sent == StreamWrite(checked, result)
           written == [sent EXCEPT
                         !.xfer.size_processed = @ + SectorSize,
                         !.xfer.stream_optional_finish = status \in {DONE, MORE}]
           ended == [StreamClose(written) EXCEPT !.xfer.stream_open = FALSE,
                                                 !.xfer.stream_finished = TRUE]
<1>1. checked \in MgrType
  BY CheckType
<1>2. status \in WriteResults \cup {"INTERNAL"}
  <2> HIDE DEF checked
  <2> QED BY DEF StreamWriteStatus
<1>3. sent \in MgrType
  <2> HIDE DEF checked
  <2> QED BY <1>1, StreamWriteType
<1>4. written \in MgrType
  <2> HIDE DEF sent, status
  <2> DEFINE optional == status \in {DONE, MORE}
  <2>1. optional \in BOOLEAN
    BY MemberIsBoolean
  <2>2. sent.xfer \in TransferType /\ SectorSize \in Nat
    BY <1>3, FieldTypes, VfsAssumption
  <2> HIDE DEF optional
  <2>3. [sent.xfer EXCEPT !.size_processed = @ + SectorSize,
                          !.stream_optional_finish = optional] \in TransferType
    <3>1. sent.xfer.size_processed + SectorSize \in Nat
      BY <2>2 DEF TransferType
    <3>2. ASSUME NEW x \in TransferType, NEW n \in Nat, NEW b \in BOOLEAN
          PROVE  [x EXCEPT !.size_processed = n, !.stream_optional_finish = b]
                   \in TransferType
      BY DEF TransferType
    <3> QED BY <2>1, <2>2, <3>1, <3>2
  <2>4. [sent EXCEPT !.xfer.size_processed = @ + SectorSize,
                     !.xfer.stream_optional_finish = optional] \in MgrType
    BY <1>3, <2>3 DEF MgrType
  <2> QED BY <2>4 DEF optional
<1>5. ended \in MgrType /\ StreamCloseStatus(written, close) \in Verdicts
  <2> HIDE DEF written
  <2>1. StreamClose(written) \in MgrType /\ StreamCloseStatus(written, close) \in Verdicts
    BY <1>4, StreamCloseType
  <2> DEFINE closed == StreamClose(written)
  <2>2. closed \in MgrType /\ closed.xfer \in TransferType
    BY <2>1, FieldTypes
  <2> HIDE DEF closed
  <2>3. [closed.xfer EXCEPT !.stream_open = FALSE, !.stream_finished = TRUE]
          \in TransferType
    BY <2>2 DEF TransferType
  <2>4. [closed EXCEPT !.xfer.stream_open = FALSE, !.xfer.stream_finished = TRUE]
          \in MgrType
    BY <2>2, <2>3 DEF MgrType
  <2> QED BY <2>1, <2>4 DEF closed
<1>6. /\ UpdateState(ended, StreamCloseStatus(written, close), close) \in MgrType
      /\ UpdateState(written, SUCCESS, close) \in MgrType
  <2> HIDE DEF written, ended
  <2> QED BY <1>4, <1>5, ConstantTypes, UpdateStateType
<1>7. status # DONE /\ status # MORE => UpdateState(written, status, close) \in MgrType
  <2> HIDE DEF written, status
  <2>1. status # DONE /\ status # MORE => status \in Verdicts
    BY <1>2 DEF WriteResults, Verdicts, CloseResults
  <2> QED BY <1>4, <2>1, UpdateStateType
<1>8. TransferStreamData(mm, result, close) =
        IF mm.xfer.stream_finished THEN Check(mm, FALSE)
        ELSE CASE status = DONE -> UpdateState(ended, StreamCloseStatus(written, close), close)
               [] status = MORE -> UpdateState(written, SUCCESS, close)
               [] OTHER -> UpdateState(written, status, close)
  BY Zenon DEF TransferStreamData
<1> HIDE DEF written, ended, status
<1> QED BY <1>6, <1>7, <1>8, CheckType, Zenon

LEMMA FileDataType ==
  ASSUME NEW mm \in MgrType, NEW sector \in Sectors, NEW kind \in Streams \cup {NoStream},
         NEW result \in WriteResults, NEW close \in CloseResults
  PROVE  FileData(mm, sector, kind, result, close) \in MgrType
<1> DEFINE o == IF ~mm.xfer.stream_started /\ kind # NoStream
                THEN TransferStreamOpen(mm, kind, sector, close) ELSE mm
           again == [o EXCEPT !.xfer.last_ooo_sector = IF sector < @ THEN sector ELSE @]
           taken == [o EXCEPT !.xfer.size_transferred = @ + SectorSize,
                              !.xfer.file_next_sector = sector + 1]
<1>1. o \in MgrType
  <2>1. kind # NoStream => TransferStreamOpen(mm, kind, sector, close) \in MgrType
    BY TransferStreamOpenType
  <2> QED BY <2>1, Zenon
<1> HIDE DEF o
<1>2. again \in MgrType
  <2>1. [o.xfer EXCEPT !.last_ooo_sector = IF sector < @ THEN sector ELSE @] \in TransferType
    <3>1. o.xfer \in TransferType /\ sector \in SectorOrNone
      BY <1>1, FieldTypes, ConstantTypes
    <3> QED BY <3>1 DEF TransferType
  <2> QED BY <1>1, <2>1 DEF MgrType
<1>3. taken \in MgrType
  <2>1. o.xfer.size_transferred + SectorSize \in Nat
    <3>1. o.xfer \in TransferType /\ SectorSize \in Nat
      BY <1>1, FieldTypes, VfsAssumption
    <3> QED BY <3>1 DEF TransferType
  <2>2. ASSUME NEW x \in TransferType, NEW n \in Nat
        PROVE  [x EXCEPT !.size_transferred = n, !.file_next_sector = sector + 1]
                 \in TransferType
    BY ConstantTypes DEF TransferType
  <2>3. [o.xfer EXCEPT !.size_transferred = @ + SectorSize, !.file_next_sector = sector + 1]
          \in TransferType
    BY <1>1, <2>1, <2>2, FieldTypes
  <2> QED BY <1>1, <2>3 DEF MgrType
<1>4. UpdateState(taken, SUCCESS, close) \in MgrType
  <2> HIDE DEF taken
  <2> QED BY <1>3, ConstantTypes, UpdateStateType
<1>5. TransferStreamData(taken, result, close) \in MgrType
  <2> HIDE DEF taken
  <2> QED BY <1>3, TransferStreamDataType
<1>6. FileData(mm, sector, kind, result, close) \in
        {o, again, UpdateState(taken, SUCCESS, close), TransferStreamData(taken, result, close)}
  BY Zenon DEF FileData, o
<1> HIDE DEF again, taken
<1> QED BY <1>1, <1>2, <1>4, <1>5, <1>6, Zenon

LEMMA CappedType ==
  ASSUME NEW t \in 0 .. MaxEventTime
  PROVE  Capped(t) \in 0 .. MaxEventTime
BY VfsAssumption DEF Capped

LEMMA EmptyDirType ==
  ASSUME NEW mm
  PROVE  EmptyDir(mm) \in [Slots -> Names \cup {NoName}]
BY Zenon DEF EmptyDir, Names

LEMMA EqualIsBoolean ==
  ASSUME NEW a, NEW b
  PROVE  (a = b) \in BOOLEAN
OBVIOUS

(***************************************************************************)
(* Type correctness                                                        *)
(***************************************************************************)
LEMMA HostWritesType == TypeOK /\ HostWrites => TypeOK'
<1> SUFFICES ASSUME TypeOK, HostWrites PROVE TypeOK'
  OBVIOUS
<1>1. /\ m \in MgrType /\ dir \in [Slots -> Names \cup {NoName}]
      /\ media \in BOOLEAN /\ image \in {"interface", "bootloader", "reset"}
  BY DEF TypeOK
<1>2. 0 \in 0 .. MaxEventTime /\ vendor \in {"closed", "open", "clash"}
  BY VfsAssumption DEF TypeOK
<1>3. HostWriteCommon => idle' = 0 /\ quiet' = 0 /\ media' = media /\ image' = image
  BY DEF HostWriteCommon
<1>4. CASE HostWritesEntry
  <2>1. PICK file \in Slots, e \in Entries, allowed \in {Automation, TRUE},
             close \in CloseResults :
          /\ e.deleted => e.name = dir[file]
          /\ ~e.deleted => e.name # AssertTxt
          /\ e.hidden => ~e.deleted /\ StreamOf(e.name) # NoStream
          /\ IF Finished(m) THEN UNCHANGED <<m, dir>>
             ELSE LET d == DirChange(m, file, e, allowed, close)
                  IN /\ m' = IF Finished(d) THEN d
                             ELSE FileData(d, DirSector, NoStream, SUCCESS, close)
                     /\ dir' = [dir EXCEPT ![file] = IF e.deleted THEN NoName ELSE e.name]
    BY <1>4, Zenon DEF HostWritesEntry
  <2> DEFINE d == DirChange(m, file, e, allowed, close)
  <2>3. d \in MgrType
    BY <1>1, DirChangeType
  <2>4. DirSector \in Sectors /\ SUCCESS \in WriteResults
    BY VfsAssumption DEF DirSector, Sectors, WriteResults
  <2>5. FileData(d, DirSector, NoStream, SUCCESS, close) \in MgrType
    <3> HIDE DEF d
    <3> QED BY <2>3, <2>4, FileDataType
  <2>6. e.name \in Names
    BY EntryTypes
  <2>7. (IF e.deleted THEN NoName ELSE e.name) \in Names \cup {NoName}
    BY <2>6, Zenon
  <2>8. [dir EXCEPT ![file] = IF e.deleted THEN NoName ELSE e.name]
          \in [Slots -> Names \cup {NoName}]
    BY <1>1, <2>7
  <2>9. m' \in MgrType /\ dir' \in [Slots -> Names \cup {NoName}]
    <3> HIDE DEF d
    <3>1. CASE Finished(m)
      BY <1>1, <2>1, <3>1, Zenon
    <3>2. CASE ~Finished(m)
      <4>1. m' \in {d, FileData(d, DirSector, NoStream, SUCCESS, close)}
        BY <2>1, <3>2, Zenon DEF d
      <4>2. dir' = [dir EXCEPT ![file] = IF e.deleted THEN NoName ELSE e.name]
        BY <2>1, <3>2, Zenon
      <4> QED BY <2>3, <2>5, <2>8, <4>1, <4>2, Zenon
    <3> QED BY <3>1, <3>2
  <2> QED BY <1>1, <1>2, <1>3, <1>4, <2>9, Zenon DEF TypeOK, HostWritesEntry
<1>5. CASE HostWritesData
  <2>1. PICK sector \in Sectors \ {DirSector},
             kind \in IF m.xfer.stream_started THEN {NoStream} ELSE Streams \cup {NoStream},
             result \in WriteResults, close \in CloseResults :
          /\ m' = IF Finished(m) THEN m ELSE FileData(m, sector, kind, result, close)
          /\ vendor' = IF vendor = "open" /\ ~Finished(m) /\ kind # NoStream
                       THEN "clash" ELSE vendor
    BY <1>5, Zenon DEF HostWritesData
  <2>2. kind \in Streams \cup {NoStream} /\ vendor' \in {"closed", "open", "clash"}
    BY <1>2, <2>1, Zenon
  <2>3. FileData(m, sector, kind, result, close) \in MgrType
    BY <1>1, <2>2, FileDataType
  <2>4. m' \in MgrType
    BY <1>1, <2>1, <2>3, Zenon
  <2>5. HostWriteCommon /\ dir' = dir
    BY <1>5 DEF HostWritesData
  <2> QED BY <1>1, <1>2, <1>3, <2>2, <2>4, <2>5, Zenon DEF TypeOK
<1> QED BY <1>4, <1>5 DEF HostWrites

LEMMA TransitionType ==
  ASSUME TypeOK, NEW close \in CloseResults, Transition(close)
  PROVE  /\ m' \in MgrType /\ dir' \in [Slots -> Names \cup {NoName}]
         /\ idle' = 0 /\ media' \in BOOLEAN
         /\ image' \in {"interface", "bootloader", "reset"}
<1> DEFINE next == m.vfs_state_next
           moved == [m EXCEPT !.vfs_state = next,
                              !.vfs_state_next = IF next = "reconnecting"
                                                 THEN "connected" ELSE next]
           timed == [moved EXCEPT !.xfer.transfer_timeout = TRUE]
           left == IF m.vfs_state = "connected" THEN CloseTransfer(moved, close) ELSE moved
<1>1. m \in MgrType /\ dir \in [Slots -> Names \cup {NoName}]
      /\ image \in {"interface", "bootloader", "reset"}
  BY DEF TypeOK
<1>2. moved \in MgrType
  BY <1>1 DEF MgrType, DriveStates
<1>3. timed \in MgrType
  <2> HIDE DEF moved
  <2>1. moved.xfer \in TransferType
    BY <1>2, FieldTypes
  <2>2. [moved.xfer EXCEPT !.transfer_timeout = TRUE] \in TransferType
    BY <2>1 DEF TransferType
  <2> QED BY <1>2, <2>2 DEF MgrType
<1>4. CloseTransfer(moved, close) \in MgrType
  <2> HIDE DEF moved
  <2> DEFINE closed == IF Finished(moved) THEN moved ELSE UpdateState(timed, SUCCESS, close)
  <2>1. UpdateState(timed, SUCCESS, close) \in MgrType
    <3> HIDE DEF timed
    <3> QED BY <1>1, <1>3, ConstantTypes, UpdateStateType
  <2>2. closed \in MgrType
    <3> HIDE DEF timed
    <3> QED BY <1>2, <2>1, Zenon
  <2>3. CloseTransfer(moved, close) = [Check(closed, Finished(closed)) EXCEPT !.commanded = FALSE]
    BY Zenon DEF CloseTransfer
  <2> HIDE DEF closed
  <2>4. Check(closed, Finished(closed)) \in MgrType
    BY <2>2, CheckType
  <2> QED BY <2>3, <2>4 DEF MgrType
<1>5. left \in MgrType
  <2> HIDE DEF moved
  <2> QED BY <1>2, <1>4
<1>6. EnterState(left) \in MgrType
  <2> HIDE DEF left
  <2> QED BY <1>5, FieldTypes, ConstantTypes DEF EnterState
<1>7. EmptyDir(left) \in [Slots -> Names \cup {NoName}]
  BY EmptyDirType
<1>8. /\ idle' = 0 /\ m' = EnterState(left) /\ media' = (next = "connected")
      /\ dir' = (IF next = "connected" THEN EmptyDir(left) ELSE dir)
      /\ image' \in {"reset", image}
  BY Zenon DEF Transition
<1>9. media' \in BOOLEAN
  BY <1>8, EqualIsBoolean, Zenon
<1> HIDE DEF left, next
<1> QED BY <1>1, <1>6, <1>7, <1>8, <1>9, Zenon

LEMMA PeriodicType == TypeOK /\ Periodic => TypeOK'
<1> SUFFICES ASSUME TypeOK, Periodic PROVE TypeOK'
  OBVIOUS
<1>1. /\ quiet' \in 0 .. MaxEventTime /\ Capped(idle) \in 0 .. MaxEventTime
      /\ 0 \in 0 .. MaxEventTime /\ vendor' \in {"closed", "open", "clash"}
  BY CappedType, VfsAssumption DEF Periodic, TypeOK
<1>2. CASE ~Changing(m)
  BY <1>1, <1>2 DEF Periodic, TypeOK
<1>3. CASE Changing(m) /\ ReadyForStateChange
  <2>1. PICK close \in CloseResults : Transition(close)
    BY <1>3, Zenon DEF Periodic
  <2> QED BY <1>1, <2>1, TransitionType, Zenon DEF TypeOK
<1>4. CASE Changing(m) /\ ~ReadyForStateChange
  <2>1. /\ idle' = Capped(idle) /\ m' = Check(m, TransitionKnown(m))
        /\ UNCHANGED <<dir, media, image>>
    BY <1>4, Zenon DEF Periodic
  <2>2. m' \in MgrType
    BY <2>1, CheckType DEF TypeOK
  <2> QED BY <1>1, <2>1, <2>2, Zenon DEF TypeOK
<1> QED BY <1>2, <1>3, <1>4

LEMMA AssertElsewhereType == TypeOK /\ AssertElsewhere => TypeOK'
<1> SUFFICES ASSUME TypeOK, AssertElsewhere PROVE TypeOK'
  OBVIOUS
<1>1. m' \in {[m EXCEPT !.assert_set = TRUE], RaiseAssert(m)}
  BY Zenon DEF AssertElsewhere
<1>2. [m EXCEPT !.assert_set = TRUE] \in MgrType /\ RaiseAssert(m) \in MgrType
  BY RaiseAssertType DEF TypeOK, MgrType
<1>3. m' \in MgrType
  BY <1>1, <1>2
<1> QED BY <1>3 DEF AssertElsewhere, TypeOK

LEMMA DebugHostType == TypeOK /\ DebugHost => TypeOK'
<1> SUFFICES ASSUME TypeOK, DebugHost PROVE TypeOK'
  OBVIOUS
<1>1. m \in MgrType /\ SUCCESS \in CloseResults
  BY DEF TypeOK, CloseResults
<1>2. m' \in MgrType /\ vendor' \in {"closed", "open", "clash"}
  <2>1. CASE VendorOpens
    <3>1. m' \in {StreamOpen(m), Check(m, FALSE)} /\ vendor' \in {"open", "clash"}
      BY <2>1, Zenon DEF VendorOpens
    <3> QED BY <1>1, <3>1, StreamOpenType, CheckType, Zenon
  <2>2. CASE VendorWrites
    <3>1. \E result \in WriteResults : m' = StreamWrite(m, result)
      BY <2>2, Zenon DEF VendorWrites
    <3>2. vendor' \in {"open", "clash"}
      BY <2>2, Zenon DEF VendorWrites
    <3> QED BY <1>1, <3>1, <3>2, StreamWriteType, Zenon
  <2>3. CASE VendorCloses
    <3>1. m' = StreamClose(m) /\ vendor' \in {"closed", "clash"}
      BY <2>3, Zenon DEF VendorCloses
    <3> QED BY <1>1, <3>1, StreamCloseType, Zenon
  <2> QED BY <2>1, <2>2, <2>3 DEF DebugHost
<1>3. UNCHANGED <<dir, idle, media, image, quiet>>
  BY Zenon DEF DebugHost, VendorOpens, VendorWrites, VendorCloses, VendorCommand
<1> QED BY <1>2, <1>3, Zenon DEF TypeOK

LEMMA BootMemoryType ==
  ASSUME NEW img, NEW ram, ram.disable_msd \in BOOLEAN, ram.assert_set \in BOOLEAN
  PROVE  BootMemory(img, ram) \in MgrType
BY ConstantTypes DEF BootMemory, MgrType, DriveStates

LEMMA BootType == TypeOK /\ Boot => TypeOK'
<1> SUFFICES ASSUME TypeOK, Boot PROVE TypeOK'
  OBVIOUS
<1>1. m.disable_msd \in BOOLEAN /\ m.assert_set \in BOOLEAN
  BY DEF TypeOK, MgrType
<1>2. PICK img \in {"interface", "bootloader"} :
        /\ m' = BootMemory(img, m) /\ dir' = EmptyDir(m)
        /\ media' = (img = "bootloader") /\ image' = img
  BY Zenon DEF Boot
<1>3. m' \in MgrType
  BY <1>1, <1>2, BootMemoryType
<1>4. media' \in BOOLEAN
  BY <1>2, EqualIsBoolean, Zenon
<1>5. /\ idle' \in 0 .. MaxEventTime /\ quiet' \in 0 .. MaxEventTime
      /\ vendor' \in {"closed", "open", "clash"}
  BY VfsAssumption DEF Boot
<1>6. dir' \in [Slots -> Names \cup {NoName}]
  BY <1>2, EmptyDirType
<1> QED BY <1>2, <1>3, <1>4, <1>5, <1>6, Zenon DEF TypeOK

LEMMA InitType == Init => TypeOK
<1> SUFFICES ASSUME Init PROVE TypeOK
  OBVIOUS
<1> DEFINE ram == [disable_msd |-> FALSE, assert_set |-> FALSE]
<1>1. PICK img \in Images :
        /\ m = BootMemory(img, ram) /\ dir = [s \in Slots |-> NoName]
        /\ idle = 0 /\ quiet = 0 /\ vendor = "closed"
        /\ media = (img = "bootloader") /\ image = img
  BY Zenon DEF Init
<1>2. ram.disable_msd \in BOOLEAN /\ ram.assert_set \in BOOLEAN
  OBVIOUS
<1>3. m \in MgrType
  <2> HIDE DEF ram
  <2> QED BY <1>1, <1>2, BootMemoryType
<1>4. media \in BOOLEAN
  BY <1>1, EqualIsBoolean, Zenon
<1>5. /\ idle \in 0 .. MaxEventTime /\ quiet \in 0 .. MaxEventTime
      /\ vendor \in {"closed", "open", "clash"}
  BY <1>1, VfsAssumption
<1>6. dir \in [Slots -> Names \cup {NoName}]
  BY <1>1
<1>7. image \in {"interface", "bootloader", "reset"}
  BY <1>1, VfsAssumption, Zenon
<1> QED BY <1>3, <1>4, <1>5, <1>6, <1>7, Zenon DEF TypeOK

\* Whatever the host writes, the streams answer and the clock does, the manager's
\* memory keeps its type: no sector number, size or idle time leaves its range.
THEOREM TypeCorrect == Spec => []TypeOK
<1>1. TypeOK /\ [Next]_vars => TypeOK'
  <2>1. TypeOK /\ UNCHANGED vars => TypeOK'
    BY Zenon DEF vars, TypeOK
  <2> QED BY <2>1, HostWritesType, DebugHostType, PeriodicType, AssertElsewhereType,
             BootType DEF Next
<1> QED BY <1>1, InitType, PTL DEF Spec

(***************************************************************************)
(* Assertions, streams and the drive.  Linked says which fields of a       *)
(* transfer imply one another, DrivePair which states can be pending, and  *)
(* Owned whose the stream is as long as the drive and the debug host have  *)
(* not met: v is the debug host's use of it.  Sound is what every handler  *)
(* leaves behind, and Ready what transfer_update_state finds when it is    *)
(* called in the middle of one.                                            *)
(***************************************************************************)
Linked(x) ==
  /\ x.stream_open => x.stream_started /\ ~x.stream_finished
  /\ x.stream_finished => x.stream_started /\ x.stream_optional_finish
  /\ x.stream_started => x.start_sector # NoSector
  /\ x.last_ooo_sector # NoSector => x.stream_started

DrivePair(mm) ==
  /\ mm.vfs_state = "connected" => mm.vfs_state_next \in {"connected", "reconnecting"}
  /\ mm.vfs_state = "disconnected" => mm.vfs_state_next \in {"disconnected", "connected"}
  /\ mm.vfs_state = "reconnecting" => mm.vfs_state_next = "connected"

\* what SuccessIsComplete says of a transfer that ended well
Whole(x) ==
  /\ x.file_to_program # NoFile /\ x.file_size > 0
  /\ x.size_transferred >= x.file_size
  /\ x.start_sector = x.file_start_sector
  /\ x.stream_optional_finish
  /\ OutOfOrder(x) => x.stream_finished

Owned(mm, v) ==
  /\ ~mm.broken
  /\ IF mm.xfer.stream_open THEN v = "closed" /\ mm.stream_state # "closed"
                            ELSE mm.stream_state = "closed" <=> v = "closed"

Sound(mm, v) ==
  /\ DrivePair(mm) /\ Linked(mm.xfer)
  /\ v # "clash" => Owned(mm, v) /\ (mm.xfer.stream_open => mm.stream_state = "open")
  /\ IF Finished(mm)
     THEN /\ ~mm.xfer.stream_open
          /\ mm.fail_reason = SUCCESS /\ TransferStarted(mm.xfer) => Whole(mm.xfer)
     ELSE /\ ~mm.xfer.transfer_timeout
          /\ mm.xfer.stream_started /\ ~mm.xfer.stream_finished => mm.xfer.stream_open

Ready(mm, status, v) ==
  /\ DrivePair(mm) /\ Linked(mm.xfer) /\ ~Finished(mm)
  /\ v # "clash" => /\ Owned(mm, v)
                    /\ status = SUCCESS /\ mm.xfer.stream_open => mm.stream_state = "open"
  /\ mm.xfer.stream_started /\ ~mm.xfer.stream_finished =>
       mm.xfer.stream_open \/ status # SUCCESS

\* Once they met, the stream may be anybody's.
LEMMA SoundClash ==
  ASSUME NEW mm, NEW v, Sound(mm, v)
  PROVE  Sound(mm, "clash")
BY DEF Sound

LEMMA RemountKeeps ==
  ASSUME NEW mm \in MgrType, DrivePair(mm)
  PROVE  LET r == Remount(mm)
         IN /\ r.xfer = mm.xfer /\ r.stream_state = mm.stream_state
            /\ r.broken = mm.broken /\ r.vfs_state = mm.vfs_state
            /\ r.fail_reason = mm.fail_reason /\ DrivePair(r)
BY DEF Remount, DrivePair, MgrType, Changing

LEMMA SoundRemount ==
  ASSUME NEW v, NEW mm \in MgrType, Sound(mm, v)
  PROVE  Sound(Remount(mm), v) /\ Remount(mm).vfs_state = mm.vfs_state
BY RemountKeeps DEF Sound, Owned, Finished

LEMMA SoundRaiseAssert ==
  ASSUME NEW v, NEW mm \in MgrType, Sound(mm, v)
  PROVE  Sound(RaiseAssert(mm), v) /\ RaiseAssert(mm).vfs_state = mm.vfs_state
<1> DEFINE a == [mm EXCEPT !.assert_set = TRUE]
<1>1. a \in MgrType /\ Sound(a, v) /\ a.vfs_state = mm.vfs_state
  BY DEF MgrType, Sound, Owned, DrivePair, Finished
<1> HIDE DEF a
<1>2. Sound(Remount(a), v) /\ Remount(a).vfs_state = mm.vfs_state
  BY <1>1, SoundRemount
<1> QED BY <1>2 DEF RaiseAssert, a

LEMMA CheckHolds ==
  ASSUME NEW mm, NEW ok, ok
  PROVE  Check(mm, ok) = mm
BY Zenon DEF Check

LEMMA CheckKeeps ==
  ASSUME NEW mm \in MgrType, DrivePair(mm), NEW ok
  PROVE  LET c == Check(mm, ok)
         IN /\ c \in MgrType /\ c.xfer = mm.xfer /\ c.stream_state = mm.stream_state
            /\ c.vfs_state = mm.vfs_state /\ c.fail_reason = mm.fail_reason
            /\ c.commanded = mm.commanded /\ DrivePair(c)
<1> DEFINE Keeps(c) == /\ c \in MgrType /\ c.xfer = mm.xfer /\ c.stream_state = mm.stream_state
                       /\ c.vfs_state = mm.vfs_state /\ c.fail_reason = mm.fail_reason
                       /\ c.commanded = mm.commanded /\ DrivePair(c)
           a == [mm EXCEPT !.assert_set = TRUE]
<1>1. Keeps(mm) /\ Keeps(a)
  BY DEF MgrType, DrivePair
<1> HIDE DEF a
<1>2. Keeps(Remount(a))
  BY <1>1, RemountType DEF Remount, DrivePair, Changing
<1>3. Keeps(RaiseAssert(mm))
  <2> HIDE DEF Keeps
  <2> QED BY <1>1, <1>2, Zenon DEF RaiseAssert, a
<1> DEFINE r == RaiseAssert(mm)
<1> HIDE DEF r
<1>4. Keeps([r EXCEPT !.broken = TRUE])
  <2>1. Keeps(r)
    BY <1>3 DEF r
  <2> QED BY <2>1 DEF MgrType, DrivePair
<1> HIDE DEF Keeps
<1>5. Keeps(Check(mm, ok))
  BY <1>1, <1>4, Zenon DEF Check, r
<1> QED BY <1>5 DEF Keeps

\* Concluding closes the stream of a transfer that owns one.
LEMMA SoundConclude ==
  ASSUME NEW v, NEW mm \in MgrType, NEW verdict \in Verdicts, NEW close \in CloseResults,
         DrivePair(mm), Linked(mm.xfer), Finished(mm), v # "clash" => Owned(mm, v),
         verdict = SUCCESS /\ TransferStarted(mm.xfer) => Whole(mm.xfer)
  PROVE  LET c == Conclude(mm, verdict, close)
         IN /\ Sound(c, v) /\ Finished(c) /\ c.vfs_state = mm.vfs_state
            /\ c.xfer.stream_started = mm.xfer.stream_started
<1> DEFINE answer == IF verdict = SUCCESS THEN StreamCloseStatus(mm, close) ELSE verdict
<1>1. CASE mm.xfer.stream_open
  <2> DEFINE k == Check(mm, mm.stream_state # "closed")
             c == [k EXCEPT !.stream_state = "closed", !.xfer.stream_open = FALSE,
                            !.fail_reason = answer]
  <2>1. /\ k \in MgrType /\ k.xfer = mm.xfer /\ k.vfs_state = mm.vfs_state /\ DrivePair(k)
        /\ v # "clash" => ~k.broken
    <3>1. v # "clash" => k = mm /\ ~mm.broken
      BY <1>1, CheckHolds DEF Owned
    <3>2. /\ k \in MgrType /\ k.xfer = mm.xfer /\ k.vfs_state = mm.vfs_state /\ DrivePair(k)
      BY CheckKeeps
    <3> HIDE DEF k
    <3> QED BY <3>1, <3>2
  <2> HIDE DEF k
  <2>2. Conclude(mm, verdict, close) = c
    BY <1>1, <2>1 DEF Conclude, StreamClose, k
  <2>3. answer = SUCCESS => verdict = SUCCESS
    OBVIOUS
  <2>4. v # "clash" => v = "closed"
    BY <1>1 DEF Owned
  <2> HIDE DEF answer
  <2> DEFINE x == [mm.xfer EXCEPT !.stream_open = FALSE]
  <2>5. /\ ~x.stream_open /\ Linked(x) /\ x.stream_started = mm.xfer.stream_started
        /\ x.transfer_state = mm.xfer.transfer_state
        /\ TransferStarted(x) = TransferStarted(mm.xfer) /\ Whole(mm.xfer) = Whole(x)
    <3>1. mm.xfer \in TransferType
      BY FieldTypes
    <3> QED BY <3>1 DEF TransferType, Linked, TransferStarted, Whole, OutOfOrder
  <2>6. /\ c.xfer = x /\ c.stream_state = "closed" /\ c.fail_reason = answer
        /\ c.broken = k.broken /\ c.vfs_state = k.vfs_state
        /\ c.vfs_state_next = k.vfs_state_next
    BY <2>1 DEF MgrType
  <2> HIDE DEF c, x
  <2>7. /\ Sound(c, v) /\ Finished(c) /\ c.vfs_state = mm.vfs_state
        /\ c.xfer.stream_started = mm.xfer.stream_started
    BY <2>1, <2>3, <2>4, <2>5, <2>6 DEF Sound, Owned, DrivePair, Finished
  <2> QED BY <2>2, <2>7
<1>2. CASE ~mm.xfer.stream_open
  BY <1>2 DEF Conclude, Sound, Owned, Linked, DrivePair, Finished, MgrType
<1> QED BY <1>1, <1>2

\* transfer_update_state, called where it may be, fails no assertion of its own; it
\* finishes the transfer after an error or a timeout, and before that only one whose stream ended.
LEMMA SoundUpdateState ==
  ASSUME NEW v, NEW mm \in MgrType, NEW status \in Verdicts, NEW close \in CloseResults,
         Ready(mm, status, v)
  PROVE  LET u == UpdateState(mm, status, close)
         IN /\ Sound(u, v) /\ u.vfs_state = mm.vfs_state
            /\ u.xfer.stream_started = mm.xfer.stream_started
            /\ status # SUCCESS \/ mm.xfer.transfer_timeout => Finished(u)
            /\ status = SUCCESS /\ ~mm.xfer.transfer_timeout /\ ~mm.xfer.stream_finished =>
                 ~Finished(u)
<1> DEFINE x == [mm.xfer EXCEPT !.file_info_optional_finish = FileInfoDone(mm.xfer)]
           next == NextTransferState(x, status)
           verdict == IF status = SUCCESS /\ x.transfer_timeout
                      THEN TimeoutVerdict(x) ELSE status
           ok == /\ status \notin {DONE, MORE}
                 /\ x.last_ooo_sector # NoSector => x.start_sector # NoSector
           moved == [mm EXCEPT !.xfer = [x EXCEPT !.transfer_state = next]]
           after == IF next = "finished" THEN Conclude(moved, verdict, close) ELSE moved
<1>1. FileInfoDone(mm.xfer) \in BOOLEAN
  BY Zenon DEF FileInfoDone
<1>2. /\ x \in TransferType /\ Linked(x)
      /\ x.stream_open = mm.xfer.stream_open /\ x.stream_started = mm.xfer.stream_started
      /\ x.stream_finished = mm.xfer.stream_finished
      /\ x.stream_optional_finish = mm.xfer.stream_optional_finish
      /\ x.transfer_timeout = mm.xfer.transfer_timeout
      /\ x.transfer_state # "finished"
  <2> DEFINE b == FileInfoDone(mm.xfer)
  <2> HIDE DEF b
  <2>1. b \in BOOLEAN
    BY <1>1 DEF b
  <2>2. ASSUME NEW y, y = [mm.xfer EXCEPT !.file_info_optional_finish = b]
        PROVE  /\ y \in TransferType /\ Linked(y)
               /\ y.stream_open = mm.xfer.stream_open
               /\ y.stream_started = mm.xfer.stream_started
               /\ y.stream_finished = mm.xfer.stream_finished
               /\ y.stream_optional_finish = mm.xfer.stream_optional_finish
               /\ y.transfer_timeout = mm.xfer.transfer_timeout
               /\ y.transfer_state # "finished"
    <3>1. mm.xfer \in TransferType /\ Linked(mm.xfer) /\ ~Finished(mm)
      BY FieldTypes DEF Ready
    <3> QED BY <2>1, <2>2, <3>1 DEF TransferType, Linked, Finished
  <2> QED BY <2>2 DEF b
<1>3. verdict \in Verdicts
  <2> HIDE DEF x
  <2> QED BY DEF TimeoutVerdict, Verdicts, CloseResults
<1>4. ok
  <2> HIDE DEF x
  <2>1. status \notin {DONE, MORE}
    BY DEF Verdicts, CloseResults, SUCCESS, DONE, MORE, FAILED
  <2>2. x.last_ooo_sector # NoSector => x.start_sector # NoSector
    BY <1>2 DEF Linked
  <2> QED BY <2>1, <2>2
<1>5. /\ next \in {"not_started", "in_progress", "can_be_finished", "finished"}
      /\ status # SUCCESS \/ x.transfer_timeout => next = "finished"
      /\ status = SUCCESS /\ ~x.transfer_timeout /\ ~x.stream_finished => next # "finished"
  <2> HIDE DEF x
  <2>1. x.transfer_state \in {"not_started", "in_progress", "can_be_finished", "finished"}
    BY <1>2 DEF TransferType
  <2>2. next \in {"not_started", "in_progress", "can_be_finished", "finished"}
    BY <2>1, Zenon DEF NextTransferState, UnfinishedState
  <2>3. status # SUCCESS \/ x.transfer_timeout => next = "finished"
    BY Zenon DEF NextTransferState, UnfinishedState
  <2>4. status = SUCCESS /\ ~x.transfer_timeout /\ ~x.stream_finished => next # "finished"
    BY <1>2 DEF NextTransferState, UnfinishedState, MustBeFinished
  <2> QED BY <2>2, <2>3, <2>4
<1>6. /\ moved \in MgrType /\ moved.broken = mm.broken /\ DrivePair(moved) /\ Linked(moved.xfer)
      /\ moved.stream_state = mm.stream_state /\ moved.vfs_state = mm.vfs_state
      /\ moved.xfer.stream_open = mm.xfer.stream_open
      /\ moved.xfer.stream_started = mm.xfer.stream_started
      /\ moved.xfer.stream_finished = mm.xfer.stream_finished
      /\ moved.xfer.transfer_timeout = mm.xfer.transfer_timeout
      /\ Finished(moved) <=> next = "finished"
  <2> HIDE DEF x, next
  <2>1. ASSUME NEW y, y = [x EXCEPT !.transfer_state = next]
        PROVE  /\ y \in TransferType /\ Linked(y)
               /\ y.stream_open = mm.xfer.stream_open
               /\ y.stream_started = mm.xfer.stream_started
               /\ y.stream_finished = mm.xfer.stream_finished
               /\ y.stream_optional_finish = mm.xfer.stream_optional_finish
               /\ y.transfer_timeout = mm.xfer.transfer_timeout
               /\ y.transfer_state = next
    BY <1>2, <1>5, <2>1 DEF TransferType, Linked
  <2>2. ASSUME NEW y \in TransferType, NEW z, z = [mm EXCEPT !.xfer = y]
        PROVE  /\ z \in MgrType /\ z.broken = mm.broken /\ DrivePair(z) /\ z.xfer = y
               /\ z.stream_state = mm.stream_state /\ z.vfs_state = mm.vfs_state
    BY <2>2 DEF MgrType, DrivePair, Ready
  <2> DEFINE y == [x EXCEPT !.transfer_state = next]
  <2>3. /\ y \in TransferType /\ Linked(y)
        /\ y.stream_open = mm.xfer.stream_open /\ y.stream_started = mm.xfer.stream_started
        /\ y.stream_finished = mm.xfer.stream_finished
        /\ y.transfer_timeout = mm.xfer.transfer_timeout /\ y.transfer_state = next
    BY <2>1
  <2>4. moved = [mm EXCEPT !.xfer = y]
    OBVIOUS
  <2> HIDE DEF moved, y
  <2>5. /\ moved \in MgrType /\ moved.broken = mm.broken /\ DrivePair(moved)
        /\ moved.xfer = y
        /\ moved.stream_state = mm.stream_state /\ moved.vfs_state = mm.vfs_state
    BY <2>2, <2>3, <2>4
  <2> QED BY <2>3, <2>5 DEF Finished
<1>7. verdict = SUCCESS /\ next = "finished" /\ TransferStarted(moved.xfer) =>
        Whole(moved.xfer)
  <2>1. ASSUME NEW b, x = [mm.xfer EXCEPT !.file_info_optional_finish = b]
        PROVE  /\ x.file_info_optional_finish = b
               /\ x.file_to_program = mm.xfer.file_to_program
               /\ x.file_size = mm.xfer.file_size
               /\ x.size_transferred = mm.xfer.size_transferred
               /\ x.start_sector = mm.xfer.start_sector
               /\ x.file_start_sector = mm.xfer.file_start_sector
    <3>1. mm.xfer \in TransferType
      BY FieldTypes
    <3> HIDE DEF x
    <3> QED BY <2>1, <3>1 DEF TransferType
  <2>2. /\ x.file_info_optional_finish = FileInfoDone(mm.xfer)
        /\ FileInfoDone(x) = FileInfoDone(mm.xfer)
    <3> DEFINE b == FileInfoDone(mm.xfer)
    <3> HIDE DEF b
    <3>1. x = [mm.xfer EXCEPT !.file_info_optional_finish = b]
      BY DEF b
    <3> HIDE DEF x
    <3> QED BY <2>1, <3>1 DEF b, FileInfoDone
  <2>3. /\ FileInfoDone(moved.xfer) = FileInfoDone(x)
        /\ moved.xfer.stream_optional_finish = x.stream_optional_finish
        /\ moved.xfer.stream_finished = x.stream_finished
        /\ TransferStarted(moved.xfer) = TransferStarted(x)
        /\ OutOfOrder(moved.xfer) = OutOfOrder(x)
    <3> HIDE DEF x, next
    <3>1. /\ moved.xfer = [x EXCEPT !.transfer_state = next] /\ x \in TransferType
      BY <1>2 DEF MgrType
    <3> HIDE DEF moved
    <3> QED BY <3>1 DEF TransferType, FileInfoDone, TransferStarted, OutOfOrder
  <2> HIDE DEF x, moved
  <2>4. CASE status = SUCCESS /\ x.transfer_timeout
    <3>1. TimeoutVerdict(x) = SUCCESS /\ TransferStarted(x) =>
            ~OutOfOrder(x) /\ CanBeFinished(x)
      BY DEF TimeoutVerdict, SUCCESS
    <3> QED BY <2>2, <2>3, <2>4, <3>1 DEF CanBeFinished, FileInfoDone, Whole
  <2>5. CASE status = SUCCESS /\ ~x.transfer_timeout
    <3>1. next = "finished" => MustBeFinished(x)
      BY <1>2, <2>5 DEF NextTransferState, UnfinishedState
    <3> QED BY <1>2, <2>2, <2>3, <2>5, <3>1 DEF MustBeFinished, Linked, FileInfoDone, Whole
  <2> QED BY <2>4, <2>5
<1>8. UpdateState(mm, status, close) = IF x.transfer_timeout THEN after ELSE Remount(after)
  <2>1. ~Finished(mm) /\ Check(mm, ok) = mm
    BY <1>4, CheckHolds DEF Ready
  <2>2. UpdateState(mm, status, close) =
          IF Finished(mm) THEN Check(mm, FALSE)
          ELSE LET mv == [Check(mm, ok) EXCEPT !.xfer = [x EXCEPT !.transfer_state = next]]
                   af == IF next = "finished" THEN Conclude(mv, verdict, close) ELSE mv
               IN IF x.transfer_timeout THEN af ELSE Remount(af)
    BY Zenon DEF UpdateState
  <2> HIDE DEF x, next, verdict, ok
  <2> QED BY <2>1, <2>2, Zenon
<1>9. /\ after \in MgrType /\ Sound(after, v) /\ after.vfs_state = mm.vfs_state
      /\ after.xfer.stream_started = mm.xfer.stream_started
      /\ Finished(after) <=> next = "finished"
  <2> HIDE DEF x, next, verdict, moved
  <2>1. CASE next = "finished"
    <3>1. v # "clash" => Owned(moved, v)
      BY <1>6 DEF Ready, Owned
    <3>2. /\ Sound(Conclude(moved, verdict, close), v) /\ Finished(Conclude(moved, verdict, close))
          /\ Conclude(moved, verdict, close).vfs_state = moved.vfs_state
          /\ Conclude(moved, verdict, close).xfer.stream_started = moved.xfer.stream_started
      BY <1>3, <1>6, <1>7, <2>1, <3>1, SoundConclude
    <3>3. Conclude(moved, verdict, close) \in MgrType
      BY <1>3, <1>6, ConcludeType
    <3> QED BY <1>6, <2>1, <3>2, <3>3, Zenon
  <2>2. CASE next # "finished"
    <3>1. status = SUCCESS /\ ~mm.xfer.transfer_timeout
      BY <1>2, <1>5, <2>2
    <3>2. Sound(moved, v)
      BY <1>6, <2>2, <3>1 DEF Sound, Ready, Owned
    <3> QED BY <1>6, <2>2, <3>2
  <2> QED BY <2>1, <2>2
<1>10. /\ Sound(Remount(after), v) /\ Remount(after).vfs_state = mm.vfs_state
        /\ Remount(after).xfer.stream_started = mm.xfer.stream_started
       /\ Finished(Remount(after)) <=> next = "finished"
  <2> HIDE DEF after
  <2>1. DrivePair(after)
    BY <1>9 DEF Sound
  <2> QED BY <1>9, <2>1, SoundRemount, RemountKeeps DEF Finished
<1> DEFINE Keeps(u) == /\ Sound(u, v) /\ u.vfs_state = mm.vfs_state
                       /\ u.xfer.stream_started = mm.xfer.stream_started
                       /\ Finished(u) <=> next = "finished"
<1>11. Keeps(after) /\ Keeps(Remount(after))
  BY <1>9, <1>10
<1> HIDE DEF x, next, after, Keeps
<1>12. Keeps(UpdateState(mm, status, close))
  BY <1>8, <1>11, Zenon
<1> QED BY <1>2, <1>5, <1>12, Zenon DEF Keeps

\* Between two events a transfer may change any field that neither Linked nor Sound reads.
LEMMA SoundWith ==
  ASSUME NEW v, NEW mm \in MgrType, Sound(mm, v), ~Finished(mm), NEW x \in TransferType,
         x.stream_open = mm.xfer.stream_open, x.stream_started = mm.xfer.stream_started,
         x.stream_finished = mm.xfer.stream_finished,
         x.start_sector = mm.xfer.start_sector \/ x.start_sector # NoSector,
         x.stream_optional_finish = mm.xfer.stream_optional_finish,
         x.last_ooo_sector = mm.xfer.last_ooo_sector \/ x.stream_started,
         x.transfer_timeout = mm.xfer.transfer_timeout,
         x.transfer_state = mm.xfer.transfer_state
  PROVE  LET r == [mm EXCEPT !.xfer = x]
         IN /\ r \in MgrType /\ Sound(r, v) /\ ~Finished(r) /\ r.vfs_state = mm.vfs_state
            /\ \A status \in Verdicts : Ready(r, status, v)
<1> DEFINE r == [mm EXCEPT !.xfer = x]
<1>1. r \in MgrType
  BY FieldTypes
<1>2. /\ r.xfer = x /\ r.stream_state = mm.stream_state /\ r.broken = mm.broken
      /\ r.vfs_state = mm.vfs_state /\ r.vfs_state_next = mm.vfs_state_next
  BY DEF MgrType
<1> HIDE DEF r
<1>3. ~Finished(r) /\ DrivePair(r) /\ Linked(r.xfer)
  BY <1>2 DEF Sound, Linked, DrivePair, Finished
<1>4. Sound(r, v)
  BY <1>2, <1>3 DEF Sound, Owned, Finished
<1>5. \A status \in Verdicts : Ready(r, status, v)
  BY <1>2, <1>3, <1>4 DEF Sound, Owned, Ready
<1> QED BY <1>1, <1>2, <1>3, <1>4, <1>5 DEF r

LEMMA SoundUpdateFileInfo ==
  ASSUME NEW v, NEW mm \in MgrType, Sound(mm, v), ~Finished(mm), NEW file \in Slots,
         NEW start \in SectorOrNone, NEW size \in Nat, NEW s \in Streams \cup {NoStream},
         NEW close \in CloseResults
  PROVE  LET u == UpdateFileInfo(mm, file, start, size, s, close)
         IN Sound(u, v) /\ u.vfs_state = mm.vfs_state
<1> DEFINE x == WithFileInfo(mm.xfer, file, start, s)
           y == [x EXCEPT !.file_size = size]
<1>1. /\ x \in TransferType
      /\ x.stream_open = mm.xfer.stream_open /\ x.stream_started = mm.xfer.stream_started
      /\ x.stream_finished = mm.xfer.stream_finished
      /\ x.stream_optional_finish = mm.xfer.stream_optional_finish
      /\ x.start_sector = mm.xfer.start_sector
      /\ x.last_ooo_sector = mm.xfer.last_ooo_sector
      /\ x.transfer_timeout = mm.xfer.transfer_timeout
      /\ x.transfer_state = mm.xfer.transfer_state
  <2> DEFINE f == IF mm.xfer.file_to_program = NoFile THEN file ELSE mm.xfer.file_to_program
             b == IF mm.xfer.file_start_sector = NoSector THEN start
                  ELSE mm.xfer.file_start_sector
             t == IF mm.xfer.stream = NoStream THEN s ELSE mm.xfer.stream
  <2>1. mm.xfer \in TransferType
    BY FieldTypes
  <2>2. /\ f \in Slots \cup {NoFile} /\ b \in SectorOrNone
        /\ t \in Streams \cup {NoStream}
    BY <2>1 DEF TransferType
  <2>3. x = [mm.xfer EXCEPT !.file_to_program = f, !.file_start_sector = b, !.stream = t]
    BY DEF WithFileInfo
  <2> HIDE DEF x, f, b, t
  <2> QED BY <2>1, <2>2, <2>3 DEF TransferType
<1> HIDE DEF x
<1>2. /\ y \in TransferType
      /\ y.stream_open = mm.xfer.stream_open /\ y.stream_started = mm.xfer.stream_started
      /\ y.stream_finished = mm.xfer.stream_finished
      /\ y.stream_optional_finish = mm.xfer.stream_optional_finish
      /\ y.start_sector = mm.xfer.start_sector
      /\ y.last_ooo_sector = mm.xfer.last_ooo_sector
      /\ y.transfer_timeout = mm.xfer.transfer_timeout
      /\ y.transfer_state = mm.xfer.transfer_state
  BY <1>1 DEF TransferType
<1> HIDE DEF y
<1> DEFINE p == [mm EXCEPT !.xfer = x]
           q == [mm EXCEPT !.xfer = y]
<1>3. p \in MgrType /\ Ready(p, "ERROR_DURING_TRANSFER", v) /\ p.vfs_state = mm.vfs_state
  BY <1>1, ConstantTypes, SoundWith
<1>4. q \in MgrType /\ Ready(q, SUCCESS, v) /\ q.vfs_state = mm.vfs_state
  BY <1>2, ConstantTypes, SoundWith
<1> HIDE DEF p, q
<1>5. /\ Sound(UpdateState(p, "ERROR_DURING_TRANSFER", close), v)
      /\ UpdateState(p, "ERROR_DURING_TRANSFER", close).vfs_state = mm.vfs_state
  BY <1>3, ConstantTypes, SoundUpdateState
<1>6. /\ Sound(UpdateState(q, SUCCESS, close), v)
      /\ UpdateState(q, SUCCESS, close).vfs_state = mm.vfs_state
  BY <1>4, ConstantTypes, SoundUpdateState
<1> QED BY <1>5, <1>6, Zenon DEF UpdateFileInfo, x, y, p, q

LEMMA SoundAbortRemount ==
  ASSUME NEW v, NEW mm \in MgrType, Sound(mm, v)
  PROVE  Sound(AbortRemount(mm), v) /\ AbortRemount(mm).vfs_state = mm.vfs_state
BY DEF AbortRemount, Sound, Owned, DrivePair, Finished, MgrType

\* The memory of a transfer that is not begun owns no stream.
LEMMA SoundForget ==
  ASSUME NEW v, NEW mm \in MgrType, DrivePair(mm),
         v # "clash" => ~mm.broken /\ (mm.stream_state = "closed" <=> v = "closed")
  PROVE  LET d == [mm EXCEPT !.xfer = DefaultTransfer]
         IN d \in MgrType /\ Sound(d, v) /\ d.vfs_state = mm.vfs_state
<1>1. [mm EXCEPT !.xfer = DefaultTransfer] \in MgrType
  BY ConstantTypes, FieldTypes
<1> QED BY <1>1 DEF Sound, Owned, Linked, DrivePair, Finished, DefaultTransfer, MgrType

LEMMA SoundResetFileInfo ==
  ASSUME NEW v, NEW mm \in MgrType, Sound(mm, v), ~Finished(mm)
  PROVE  Sound(ResetFileInfo(mm), v) /\ ResetFileInfo(mm).vfs_state = mm.vfs_state
<1>1. CASE mm.xfer.stream_started
  <2> DEFINE x == [mm.xfer EXCEPT !.file_to_program = NoFile, !.file_start_sector = NoSector,
                                  !.file_size = 0]
  <2>1. /\ x \in TransferType
        /\ x.stream_open = mm.xfer.stream_open /\ x.stream_started = mm.xfer.stream_started
        /\ x.stream_finished = mm.xfer.stream_finished
        /\ x.stream_optional_finish = mm.xfer.stream_optional_finish
        /\ x.start_sector = mm.xfer.start_sector
        /\ x.last_ooo_sector = mm.xfer.last_ooo_sector
        /\ x.transfer_timeout = mm.xfer.transfer_timeout
        /\ x.transfer_state = mm.xfer.transfer_state
    <3>1. mm.xfer \in TransferType /\ NoSector \in SectorOrNone
      BY FieldTypes, ConstantTypes
    <3> QED BY <3>1 DEF TransferType
  <2>2. ResetFileInfo(mm) = [mm EXCEPT !.xfer = x]
    BY <1>1 DEF ResetFileInfo, MgrType
  <2> HIDE DEF x
  <2> QED BY <2>1, <2>2, SoundWith
<1>2. CASE ~mm.xfer.stream_started
  <2>1. /\ DrivePair(mm)
        /\ v # "clash" => ~mm.broken /\ (mm.stream_state = "closed" <=> v = "closed")
    BY <1>2 DEF Sound, Owned, Linked
  <2>2. ResetFileInfo(mm) = AbortRemount([mm EXCEPT !.xfer = DefaultTransfer])
    BY <1>2 DEF ResetFileInfo
  <2> QED BY <2>1, <2>2, SoundForget, SoundAbortRemount
<1> QED BY <1>1, <1>2

\* Command files change settings and ask for a remount; no transfer is touched.
LEMMA SoundUserFileChange ==
  ASSUME NEW v, NEW mm \in MgrType, Sound(mm, v), NEW name, NEW change, NEW allowed
  PROVE  LET u == UserFileChange(mm, name, change, allowed)
         IN Sound(u, v) /\ u.vfs_state = mm.vfs_state
<1> DEFINE Keeps(u) == Sound(u, v) /\ u.vfs_state = mm.vfs_state
<1>1. ASSUME NEW x \in MgrType, Keeps(x) PROVE Keeps(CommandRemount(x))
  <2>1. Remount(x) \in MgrType /\ Keeps(Remount(x))
    BY <1>1, RemountType, SoundRemount
  <2> QED BY <2>1 DEF CommandRemount, Sound, Owned, DrivePair, Finished, MgrType
<1>2. ASSUME NEW b \in BOOLEAN
      PROVE  /\ [mm EXCEPT !.hold_in_bl = b] \in MgrType /\ Keeps([mm EXCEPT !.hold_in_bl = b])
             /\ [mm EXCEPT !.disable_msd = b] \in MgrType /\ Keeps([mm EXCEPT !.disable_msd = b])
             /\ [mm EXCEPT !.assert_set = b] \in MgrType /\ Keeps([mm EXCEPT !.assert_set = b])
  BY DEF Sound, Owned, DrivePair, Finished, MgrType
<1>3. ((image = "interface") \/ mm.hold_in_bl) \in BOOLEAN
  BY DEF MgrType
<1>4. Keeps(mm) /\ Keeps(RaiseAssert(mm))
  BY SoundRaiseAssert
<1>5. /\ Keeps(CommandRemount(mm))
      /\ \A b \in BOOLEAN : /\ Keeps(CommandRemount([mm EXCEPT !.disable_msd = b]))
                            /\ Keeps(CommandRemount([mm EXCEPT !.assert_set = b]))
      /\ Keeps(CommandRemount([mm EXCEPT !.hold_in_bl = (image = "interface") \/ @]))
  <2> DEFINE h == (image = "interface") \/ mm.hold_in_bl
  <2> HIDE DEF Keeps, h
  <2>1. h \in BOOLEAN
    BY <1>3 DEF h
  <2>2. Keeps(CommandRemount([mm EXCEPT !.hold_in_bl = h]))
    BY <1>1, <1>2, <2>1
  <2>3. \A b \in BOOLEAN : /\ Keeps(CommandRemount([mm EXCEPT !.disable_msd = b]))
                           /\ Keeps(CommandRemount([mm EXCEPT !.assert_set = b]))
    BY <1>1, <1>2
  <2> QED BY <1>1, <1>4, <2>2, <2>3 DEF h
<1> HIDE DEF Keeps
<1>6. Keeps(UserFileChange(mm, name, change, allowed))
  BY <1>4, <1>5, Zenon DEF UserFileChange
<1> QED BY <1>6 DEF Keeps

LEMMA SoundFileChange ==
  ASSUME NEW v, NEW mm \in MgrType, Sound(mm, v), NEW name, NEW change, NEW file \in Slots,
         NEW e \in Entries, NEW allowed, NEW close \in CloseResults
  PROVE  LET u == FileChange(mm, name, change, file, e, allowed, close)
         IN u \in MgrType /\ Sound(u, v) /\ u.vfs_state = mm.vfs_state
<1> DEFINE u == UserFileChange(mm, name, change, allowed)
           Keeps(r) == Sound(r, v) /\ r.vfs_state = mm.vfs_state
<1>1. u \in MgrType /\ Keeps(u)
  BY UserFileChangeType, SoundUserFileChange
<1>2. StreamOf(name) \in Streams \cup {NoStream}
  BY Zenon DEF StreamOf, Streams
<1> HIDE DEF u
<1>3. ~Finished(u) =>
        Keeps(UpdateFileInfo(u, file, StartSector(e), e.size, StreamOf(name), close))
  BY <1>1, <1>2, EntryTypes, SoundUpdateFileInfo
<1>4. ~Finished(u) => Keeps(ResetFileInfo(u))
  BY <1>1, SoundResetFileInfo
<1>5. FileChange(mm, name, change, file, e, allowed, close) \in MgrType
  BY <1>2, FileChangeType
<1> HIDE DEF Keeps
<1>6. Keeps(FileChange(mm, name, change, file, e, allowed, close))
  <2>1. FileChange(mm, name, change, file, e, allowed, close) \in
          {u} \cup (IF Finished(u) THEN {} ELSE
            {UpdateFileInfo(u, file, StartSector(e), e.size, StreamOf(name), close),
             ResetFileInfo(u)})
    BY Zenon DEF FileChange, u
  <2> QED BY <1>1, <1>3, <1>4, <2>1, Zenon
<1> QED BY <1>5, <1>6 DEF Keeps

LEMMA SoundDirChange ==
  ASSUME NEW v, NEW mm \in MgrType, Sound(mm, v), NEW file \in Slots, NEW e \in Entries,
         NEW allowed, NEW close \in CloseResults
  PROVE  LET u == DirChange(mm, file, e, allowed, close)
         IN u \in MgrType /\ Sound(u, v) /\ u.vfs_state = mm.vfs_state
<1> DEFINE changed == FileChange(mm, e.name, "changed", file, e, allowed, close)
           Keeps(r) == r \in MgrType /\ Sound(r, v) /\ r.vfs_state = mm.vfs_state
<1>1. Keeps(changed)
  BY SoundFileChange
<1> HIDE DEF changed
<1>2. /\ Keeps(FileChange(changed, dir[file], "deleted", file, e, allowed, close))
      /\ Keeps(FileChange(changed, e.name, "created", file, e, allowed, close))
  BY <1>1, SoundFileChange
<1> HIDE DEF Keeps
<1>3. Keeps(DirChange(mm, file, e, allowed, close))
  BY <1>1, <1>2, Zenon DEF DirChange, changed
<1> QED BY <1>3 DEF Keeps

\* A stream is opened only when the debug host has none open, and opening one finishes
\* nothing; after a clash it may be refused, which finishes the transfer.
LEMMA SoundTransferStreamOpen ==
  ASSUME NEW v \in {"closed", "clash"}, NEW mm \in MgrType, Sound(mm, v), ~Finished(mm),
         ~mm.xfer.stream_started, NEW s \in Streams, NEW sector \in Sectors,
         NEW close \in CloseResults
  PROVE  LET u == TransferStreamOpen(mm, s, sector, close)
         IN /\ Sound(u, v) /\ u.vfs_state = mm.vfs_state
            /\ u.xfer.stream_started => ~Finished(u)
<1> DEFINE x == [mm.xfer EXCEPT !.start_sector = IF @ = NoSector THEN sector ELSE @,
                                !.stream = IF @ = NoStream THEN s ELSE @]
           known == [mm EXCEPT !.xfer = x]
           begun == [[known EXCEPT !.stream_state = "open"]
                       EXCEPT !.xfer.file_next_sector = sector,
                              !.xfer.stream_open = TRUE, !.xfer.stream_started = TRUE]
           failed == UpdateState(known, "ERROR_DURING_TRANSFER", close)
           going == UpdateState(begun, SUCCESS, close)
           refused == UpdateState(Check(known, FALSE), "INTERNAL", close)
<1>1. /\ ~mm.xfer.stream_open /\ mm.xfer \in TransferType /\ ~mm.xfer.stream_finished
      /\ v # "clash" => mm.stream_state = "closed" /\ v = "closed"
  BY FieldTypes DEF Sound, Owned, Linked
<1>2. sector \in SectorOrNone /\ sector # NoSector /\ sector + 1 \in SectorOrNone
  BY VfsAssumption DEF Sectors, SectorOrNone, NoSector
<1>3. /\ x \in TransferType
      /\ x.stream_open = mm.xfer.stream_open /\ x.stream_started = mm.xfer.stream_started
      /\ x.stream_finished = mm.xfer.stream_finished
      /\ x.stream_optional_finish = mm.xfer.stream_optional_finish
      /\ x.start_sector # NoSector
      /\ x.last_ooo_sector = mm.xfer.last_ooo_sector
      /\ x.transfer_timeout = mm.xfer.transfer_timeout
      /\ x.transfer_state = mm.xfer.transfer_state
  BY <1>1, <1>2 DEF TransferType
<1> HIDE DEF x
<1>4. /\ known \in MgrType /\ Ready(known, "ERROR_DURING_TRANSFER", v) /\ Sound(known, v)
      /\ ~Finished(known) /\ known.vfs_state = mm.vfs_state
  BY <1>3, ConstantTypes, SoundWith
<1>5. known.xfer = x /\ known.stream_state = mm.stream_state
  BY <1>1 DEF MgrType
<1> HIDE DEF known
<1>6. /\ begun \in MgrType /\ Ready(begun, SUCCESS, v) /\ begun.vfs_state = mm.vfs_state
      /\ ~begun.xfer.stream_finished /\ ~begun.xfer.transfer_timeout
  <2> DEFINE y == [x EXCEPT !.file_next_sector = sector, !.stream_open = TRUE,
                            !.stream_started = TRUE]
  <2>1. /\ y \in TransferType /\ y.stream_open /\ y.stream_started
        /\ y.stream_finished = mm.xfer.stream_finished /\ y.start_sector # NoSector
        /\ y.transfer_timeout = mm.xfer.transfer_timeout
        /\ y.transfer_state = mm.xfer.transfer_state
    BY <1>2, <1>3 DEF TransferType
  <2>2. begun = [known EXCEPT !.stream_state = "open", !.xfer = y]
    BY <1>4, <1>5 DEF MgrType
  <2> HIDE DEF y, begun
  <2>3. /\ begun \in MgrType /\ begun.xfer = y /\ begun.stream_state = "open"
        /\ begun.broken = known.broken /\ begun.vfs_state = known.vfs_state
        /\ begun.vfs_state_next = known.vfs_state_next
    BY <1>4, <2>1, <2>2 DEF MgrType
  <2>4. ~mm.xfer.transfer_timeout
    BY DEF Sound
  <2>5. /\ Linked(y) /\ DrivePair(begun) /\ ~Finished(begun)
        /\ v # "clash" => Owned(begun, v)
    BY <1>1, <1>4, <2>1, <2>3 DEF Sound, Owned, Linked, DrivePair, Finished
  <2> QED BY <1>1, <1>4, <2>1, <2>3, <2>4, <2>5 DEF Ready
<1>7. Sound(failed, v) /\ failed.vfs_state = mm.vfs_state
  <2> HIDE DEF begun
  <2> QED BY <1>4, ConstantTypes, SoundUpdateState
<1>8. Sound(going, v) /\ going.vfs_state = mm.vfs_state /\ ~Finished(going)
  <2> HIDE DEF begun
  <2> QED BY <1>6, ConstantTypes, SoundUpdateState
<1>9. ~failed.xfer.stream_started
  <2>1. ~known.xfer.stream_started
    BY <1>3, <1>5
  <2> QED BY <1>4, <2>1, ConstantTypes, SoundUpdateState
<1>10. ASSUME v = "clash"
       PROVE  /\ Sound(refused, v) /\ refused.vfs_state = mm.vfs_state
              /\ ~refused.xfer.stream_started
  <2> DEFINE k == Check(known, FALSE)
  <2>1. DrivePair(known)
    BY <1>4 DEF Sound
  <2>2. k \in MgrType /\ k.xfer = x /\ k.vfs_state = mm.vfs_state /\ DrivePair(k)
    BY <1>4, <1>5, <2>1, CheckKeeps
  <2> HIDE DEF k
  <2>3. ~k.xfer.stream_started
    BY <1>3, <2>2
  <2>4. Ready(k, "INTERNAL", v)
    BY <1>4, <1>5, <1>10, <2>2, <2>3, Zenon DEF Ready, Finished
  <2>5. /\ Sound(UpdateState(k, "INTERNAL", close), v)
        /\ UpdateState(k, "INTERNAL", close).vfs_state = k.vfs_state
        /\ UpdateState(k, "INTERNAL", close).xfer.stream_started = k.xfer.stream_started
    BY <2>2, <2>4, ConstantTypes, SoundUpdateState
  <2> QED BY <2>2, <2>3, <2>5 DEF k
<1>11. TransferStreamOpen(mm, s, sector, close) \in
         {failed, going} \cup (IF v # "clash" THEN {} ELSE {refused})
  <2> DEFINE fields(c) == [c.xfer EXCEPT
                             !.start_sector = IF @ = NoSector THEN sector ELSE @,
                             !.stream = IF @ = NoStream THEN s ELSE @]
             given(c) == [c EXCEPT !.xfer = fields(c)]
             result(y, k) ==
               IF y.start_sector # sector \/ y.stream # s
               THEN UpdateState(k, "ERROR_DURING_TRANSFER", close)
               ELSE UpdateState(IF StreamOpenStatus(k) # SUCCESS THEN StreamOpen(k)
                                ELSE [StreamOpen(k)
                                        EXCEPT !.xfer.file_next_sector = sector,
                                               !.xfer.stream_open = TRUE,
                                               !.xfer.stream_started = TRUE],
                                StreamOpenStatus(k), close)
  <2>1. Check(mm, ~mm.xfer.stream_open) = mm
    BY <1>1, CheckHolds
  <2>2. TransferStreamOpen(mm, s, sector, close) =
          LET c == Check(mm, ~mm.xfer.stream_open) IN result(fields(c), given(c))
    BY Zenon DEF TransferStreamOpen
  <2>3. fields(mm) = x /\ given(mm) = known
    BY DEF x, known
  <2>4. CASE known.stream_state = "closed"
    <3>1. /\ StreamOpenStatus(known) = SUCCESS
          /\ StreamOpen(known) = [known EXCEPT !.stream_state = "open"]
      BY <2>4 DEF StreamOpenStatus, StreamOpen
    <3>2. result(x, known) \in {failed, going}
      BY <3>1, Zenon
    <3> HIDE DEF fields, given, result
    <3> QED BY <2>1, <2>2, <2>3, <3>2, Zenon
  <2>5. CASE known.stream_state # "closed"
    <3>1. StreamOpenStatus(known) = "INTERNAL" /\ StreamOpen(known) = Check(known, FALSE)
      BY <2>5, Zenon DEF StreamOpenStatus, StreamOpen
    <3>2. "INTERNAL" # SUCCESS /\ v = "clash"
      BY <1>1, <1>5, <2>5 DEF SUCCESS
    <3>3. result(x, known) \in {failed, refused}
      BY <3>1, <3>2, Zenon
    <3> HIDE DEF fields, given, result
    <3> QED BY <2>1, <2>2, <2>3, <3>2, <3>3, Zenon
  <2> QED BY <2>4, <2>5
<1> HIDE DEF failed, going, refused
<1> QED BY <1>7, <1>8, <1>9, <1>10, <1>11, Zenon

\* A write goes to an open stream, and a stream that ends is closed exactly once.
LEMMA SoundWriteToOpen ==
  ASSUME NEW v, NEW mm \in MgrType, Sound(mm, v), ~Finished(mm), mm.xfer.stream_started,
         ~mm.xfer.stream_finished, mm.stream_state = "open",
         NEW result \in WriteResults, NEW close \in CloseResults
  PROVE  LET u == TransferStreamData(mm, result, close)
         IN Sound(u, v) /\ u.vfs_state = mm.vfs_state
<1> DEFINE optional == result \in {DONE, MORE}
           state == CASE result = DONE -> "end" [] result = FAILED -> "error"
                      [] OTHER -> "open"
           sent == [mm EXCEPT !.stream_state = state]
           written == [sent EXCEPT !.xfer.size_processed = @ + SectorSize,
                                   !.xfer.stream_optional_finish = optional]
           closed == [written EXCEPT !.stream_state = "closed"]
           ended == [closed EXCEPT !.xfer.stream_open = FALSE,
                                   !.xfer.stream_finished = TRUE]
           Keeps(u) == Sound(u, v) /\ u.vfs_state = mm.vfs_state
<1>1. /\ mm.xfer.stream_open /\ mm.stream_state = "open" /\ mm.xfer \in TransferType
      /\ DrivePair(mm) /\ Linked(mm.xfer) /\ ~mm.xfer.transfer_timeout
      /\ v # "clash" => v = "closed" /\ ~mm.broken
  BY FieldTypes DEF Sound, Owned
<1>2. /\ state \in {"end", "error", "open"}
      /\ result = DONE => state = "end"
      /\ result = SUCCESS \/ result = MORE => state = "open"
  <2>1. /\ SUCCESS # DONE /\ SUCCESS # FAILED /\ MORE # DONE /\ MORE # FAILED
        /\ DONE # FAILED
    BY DEF SUCCESS, DONE, MORE, FAILED
  <2>2. state \in {"end", "error", "open"}
    BY <2>1, Zenon
  <2>3. ASSUME result = DONE PROVE state = "end"
    BY <2>1, <2>3, Zenon
  <2>4. ASSUME result = SUCCESS \/ result = MORE PROVE state = "open"
    <3>1. result # DONE /\ result # FAILED
      BY <2>1, <2>4
    <3> QED BY <3>1, Zenon
  <2> QED BY <2>2, <2>3, <2>4
<1> HIDE DEF state
<1>3. /\ written \in MgrType /\ Linked(written.xfer) /\ ~Finished(written)
      /\ DrivePair(written) /\ written.broken = mm.broken
      /\ written.vfs_state = mm.vfs_state
      /\ written.stream_state = state /\ written.xfer.stream_open
      /\ written.xfer.stream_started /\ ~written.xfer.stream_finished
      /\ written.xfer.stream_optional_finish = optional
  <2> DEFINE y == [mm.xfer EXCEPT !.size_processed = @ + SectorSize,
                                  !.stream_optional_finish = optional]
  <2>1. mm.xfer.size_processed + SectorSize \in Nat /\ optional \in BOOLEAN
    BY <1>1, VfsAssumption, MemberIsBoolean DEF TransferType
  <2> HIDE DEF optional
  <2>2. /\ y \in TransferType /\ Linked(y) /\ y.stream_open /\ y.stream_started
        /\ ~y.stream_finished /\ y.transfer_state = mm.xfer.transfer_state
        /\ y.stream_optional_finish = optional
    BY <1>1, <2>1 DEF Linked, TransferType
  <2>3. written = [mm EXCEPT !.stream_state = state, !.xfer = y]
    BY <1>1 DEF MgrType
  <2> HIDE DEF y, written
  <2> QED BY <1>1, <1>2, <2>2, <2>3 DEF MgrType, DrivePair, Finished
<1> HIDE DEF written
<1>4. /\ result = SUCCESS => Ready(written, SUCCESS, v)
      /\ result = MORE => Ready(written, SUCCESS, v)
      /\ result = FAILED => Ready(written, FAILED, v)
  BY <1>1, <1>2, <1>3 DEF Ready, Owned, SUCCESS, FAILED
<1>5. ASSUME result = DONE
      PROVE  ended \in MgrType /\ Ready(ended, close, v) /\ ended.vfs_state = mm.vfs_state
  <2> DEFINE z == [written.xfer EXCEPT !.stream_open = FALSE, !.stream_finished = TRUE]
  <2>1. written.xfer \in TransferType /\ written.xfer.stream_optional_finish
    BY <1>3, <1>5, FieldTypes
  <2>2. /\ z \in TransferType /\ Linked(z) /\ ~z.stream_open /\ z.stream_finished
        /\ z.transfer_state = written.xfer.transfer_state
    BY <1>3, <2>1 DEF Linked, TransferType
  <2>3. ended = [written EXCEPT !.stream_state = "closed", !.xfer = z]
    BY <1>3 DEF MgrType
  <2> HIDE DEF z, ended
  <2>4. ended \in MgrType /\ ended.xfer = z /\ ended.stream_state = "closed"
    BY <1>3, <2>2, <2>3 DEF MgrType
  <2>5. DrivePair(ended) /\ ended.broken = mm.broken /\ ended.vfs_state = mm.vfs_state
    BY <1>3, <2>3 DEF MgrType, DrivePair
  <2> QED BY <1>1, <1>3, <2>2, <2>4, <2>5 DEF Ready, Owned, Finished
<1>6. close \in Verdicts /\ SUCCESS \in Verdicts /\ FAILED \in Verdicts
  BY DEF Verdicts, CloseResults
<1> HIDE DEF ended
<1>7. /\ result = SUCCESS \/ result = MORE => Keeps(UpdateState(written, SUCCESS, close))
      /\ result = FAILED => Keeps(UpdateState(written, FAILED, close))
      /\ result = DONE => Keeps(UpdateState(ended, close, close))
  BY <1>3, <1>4, <1>5, <1>6, SoundUpdateState
<1>8. TransferStreamData(mm, result, close) =
        CASE result = DONE -> UpdateState(ended, close, close)
          [] result = MORE -> UpdateState(written, SUCCESS, close)
          [] OTHER -> UpdateState(written, result, close)
  <2> DEFINE put(c) == [StreamWrite(c, result) EXCEPT
                          !.xfer.size_processed = @ + SectorSize,
                          !.xfer.stream_optional_finish =
                            StreamWriteStatus(c, result) \in {DONE, MORE}]
             finish(w) == [StreamClose(w) EXCEPT !.xfer.stream_open = FALSE,
                                                 !.xfer.stream_finished = TRUE]
             out(status, w) ==
               CASE status = DONE ->
                      UpdateState(finish(w), StreamCloseStatus(w, close), close)
                 [] status = MORE -> UpdateState(w, SUCCESS, close)
                 [] OTHER -> UpdateState(w, status, close)
  <2>1. Check(mm, mm.xfer.stream_open) = mm
    BY <1>1, CheckHolds
  <2>2. TransferStreamData(mm, result, close) =
          LET c == Check(mm, mm.xfer.stream_open)
          IN out(StreamWriteStatus(c, result), put(c))
    BY Zenon DEF TransferStreamData
  <2>3. StreamWriteStatus(mm, result) = result /\ StreamWrite(mm, result) = sent
    BY <1>1, Zenon DEF StreamWriteStatus, StreamWrite, state
  <2>4. put(mm) = written
    BY <2>3, Zenon DEF written
  <2>5. result = DONE =>
          finish(written) = ended /\ StreamCloseStatus(written, close) = close
    <3>1. result = DONE => written.stream_state # "closed"
      BY <1>2, <1>3
    <3>2. result = DONE => Check(written, written.stream_state # "closed") = written
      BY <3>1, CheckHolds
    <3> QED BY <3>1, <3>2, Zenon DEF StreamClose, StreamCloseStatus, ended
  <2>6. TransferStreamData(mm, result, close) = out(result, written)
    <3> HIDE DEF put, out, finish
    <3> QED BY <2>1, <2>2, <2>3, <2>4, Zenon
  <2> HIDE DEF finish
  <2>7. MORE # DONE
    BY DEF MORE, DONE
  <2>8. CASE result = DONE
    BY <2>5, <2>6, <2>8, <2>7, Zenon
  <2>9. CASE result # DONE
    BY <2>6, <2>7, <2>9, Zenon
  <2> QED BY <2>8, <2>9
<1>9. result \in {SUCCESS, MORE, DONE, FAILED} /\ MORE # DONE
      /\ SUCCESS \notin {DONE, MORE} /\ FAILED \notin {DONE, MORE}
  BY DEF WriteResults, SUCCESS, MORE, DONE, FAILED
<1> HIDE DEF Keeps
<1>10. Keeps(TransferStreamData(mm, result, close))
  BY <1>7, <1>8, <1>9, Zenon
<1> QED BY <1>10 DEF Keeps

\* After a clash it may go to a stream that is not open: it fails, and so the transfer.
LEMMA SoundTransferStreamData ==
  ASSUME NEW v, NEW mm \in MgrType, Sound(mm, v), ~Finished(mm), mm.xfer.stream_started,
         ~mm.xfer.stream_finished, NEW result \in WriteResults, NEW close \in CloseResults
  PROVE  LET u == TransferStreamData(mm, result, close)
         IN Sound(u, v) /\ u.vfs_state = mm.vfs_state
<1>1. CASE mm.stream_state = "open"
  BY <1>1, SoundWriteToOpen
<1>2. CASE mm.stream_state # "open"
  <2> DEFINE k == Check(mm, FALSE)
             optional == "INTERNAL" \in {DONE, MORE}
             x == [mm.xfer EXCEPT !.size_processed = @ + SectorSize,
                                  !.stream_optional_finish = optional]
             failed == [k EXCEPT !.xfer = x]
             written == [k EXCEPT !.xfer.size_processed = @ + SectorSize,
                                  !.xfer.stream_optional_finish = optional]
  <2>1. /\ mm.xfer.stream_open /\ mm.xfer \in TransferType /\ Linked(mm.xfer)
        /\ DrivePair(mm) /\ v = "clash"
    BY <1>2, FieldTypes DEF Sound
  <2>2. k \in MgrType /\ k.xfer = mm.xfer /\ k.vfs_state = mm.vfs_state /\ DrivePair(k)
    BY <2>1, CheckKeeps
  <2> HIDE DEF k
  <2>3. /\ x \in TransferType /\ Linked(x) /\ x.stream_open
        /\ x.transfer_state = mm.xfer.transfer_state
    <3>1. mm.xfer.size_processed + SectorSize \in Nat /\ optional \in BOOLEAN
      BY <2>1, VfsAssumption, MemberIsBoolean DEF TransferType
    <3> HIDE DEF optional
    <3> QED BY <2>1, <3>1 DEF Linked, TransferType
  <2>4. written = failed
    <3> HIDE DEF optional
    <3> QED BY <2>1, <2>2 DEF MgrType
  <2> HIDE DEF x
  <2>5. /\ failed \in MgrType /\ failed.xfer = x /\ failed.vfs_state = mm.vfs_state
        /\ DrivePair(failed)
    BY <2>2, <2>3 DEF MgrType, DrivePair
  <2> HIDE DEF failed
  <2>6. Ready(failed, "INTERNAL", v)
    BY <2>1, <2>3, <2>5 DEF Ready, Finished
  <2>7. /\ Sound(UpdateState(failed, "INTERNAL", close), v)
        /\ UpdateState(failed, "INTERNAL", close).vfs_state = mm.vfs_state
    BY <2>5, <2>6, ConstantTypes, SoundUpdateState
  <2>8. TransferStreamData(mm, result, close) = UpdateState(failed, "INTERNAL", close)
    <3> DEFINE put(c) == [StreamWrite(c, result) EXCEPT
                            !.xfer.size_processed = @ + SectorSize,
                            !.xfer.stream_optional_finish =
                              StreamWriteStatus(c, result) \in {DONE, MORE}]
               finish(w) == [StreamClose(w) EXCEPT !.xfer.stream_open = FALSE,
                                                   !.xfer.stream_finished = TRUE]
               out(status, w) ==
                 CASE status = DONE ->
                        UpdateState(finish(w), StreamCloseStatus(w, close), close)
                   [] status = MORE -> UpdateState(w, SUCCESS, close)
                   [] OTHER -> UpdateState(w, status, close)
    <3>1. Check(mm, mm.xfer.stream_open) = mm
      BY <2>1, CheckHolds
    <3>2. TransferStreamData(mm, result, close) =
            LET c == Check(mm, mm.xfer.stream_open)
            IN out(StreamWriteStatus(c, result), put(c))
      BY Zenon DEF TransferStreamData
    <3>3. StreamWriteStatus(mm, result) = "INTERNAL" /\ StreamWrite(mm, result) = k
      BY <1>2, Zenon DEF StreamWriteStatus, StreamWrite, k
    <3>4. put(mm) = written
      BY <3>3, Zenon
    <3>5. "INTERNAL" # DONE /\ "INTERNAL" # MORE
      BY DEF DONE, MORE
    <3> HIDE DEF written
    <3>6. out("INTERNAL", written) = UpdateState(written, "INTERNAL", close)
      BY <3>5, Zenon
    <3> HIDE DEF put, out, finish
    <3>7. TransferStreamData(mm, result, close) = UpdateState(written, "INTERNAL", close)
      BY <3>1, <3>2, <3>3, <3>4, <3>6, Zenon
    <3> QED BY <2>4, <3>7, Zenon DEF written
  <2> QED BY <2>7, <2>8
<1> QED BY <1>1, <1>2

LEMMA SoundFileData ==
  ASSUME NEW v, NEW mm \in MgrType, Sound(mm, v), ~Finished(mm),
         NEW sector \in Sectors, NEW kind \in Streams \cup {NoStream}, NEW result \in WriteResults,
         NEW close \in CloseResults,
         ~mm.xfer.stream_started /\ kind # NoStream => v \in {"closed", "clash"}
  PROVE  LET u == FileData(mm, sector, kind, result, close)
         IN Sound(u, v) /\ u.vfs_state = mm.vfs_state
<1> DEFINE opens == ~mm.xfer.stream_started /\ kind # NoStream
           o == IF opens THEN TransferStreamOpen(mm, kind, sector, close) ELSE mm
           again == [o EXCEPT !.xfer.last_ooo_sector = IF sector < @ THEN sector ELSE @]
           taken == [o EXCEPT !.xfer.size_transferred = @ + SectorSize,
                              !.xfer.file_next_sector = sector + 1]
           Keeps(u) == Sound(u, v) /\ u.vfs_state = mm.vfs_state
<1>1. o \in MgrType /\ Keeps(o) /\ (o.xfer.stream_started => ~Finished(o))
  <2>1. opens => /\ TransferStreamOpen(mm, kind, sector, close) \in MgrType
                 /\ Keeps(TransferStreamOpen(mm, kind, sector, close))
                 /\ TransferStreamOpen(mm, kind, sector, close).xfer.stream_started =>
                      ~Finished(TransferStreamOpen(mm, kind, sector, close))
    BY TransferStreamOpenType, SoundTransferStreamOpen
  <2> HIDE DEF opens, Keeps
  <2>2. Keeps(mm)
    BY DEF Keeps
  <2> QED BY <2>1, <2>2, Zenon
<1> HIDE DEF o
<1>2. o.xfer.stream_started => Keeps(again)
  <2> DEFINE x == [o.xfer EXCEPT !.last_ooo_sector = IF sector < @ THEN sector ELSE @]
  <2>1. /\ x \in TransferType
        /\ x.stream_open = o.xfer.stream_open /\ x.stream_started = o.xfer.stream_started
        /\ x.stream_finished = o.xfer.stream_finished
        /\ x.stream_optional_finish = o.xfer.stream_optional_finish
        /\ x.start_sector = o.xfer.start_sector
        /\ x.transfer_timeout = o.xfer.transfer_timeout
        /\ x.transfer_state = o.xfer.transfer_state
    <3> DEFINE b == IF sector < o.xfer.last_ooo_sector THEN sector
                    ELSE o.xfer.last_ooo_sector
    <3>1. o.xfer \in TransferType /\ sector \in SectorOrNone
      BY <1>1, FieldTypes, ConstantTypes
    <3>2. b \in SectorOrNone
      BY <3>1 DEF TransferType
    <3> HIDE DEF b
    <3>3. x = [o.xfer EXCEPT !.last_ooo_sector = b]
      BY DEF b
    <3> HIDE DEF x
    <3> QED BY <3>1, <3>2, <3>3 DEF TransferType
  <2>2. again = [o EXCEPT !.xfer = x]
    BY <1>1 DEF MgrType
  <2> HIDE DEF x, again
  <2> QED BY <1>1, <2>1, <2>2, SoundWith
<1>3. o.xfer.stream_started =>
        /\ taken \in MgrType /\ Keeps(taken) /\ ~Finished(taken) /\ Ready(taken, SUCCESS, v)
        /\ taken.xfer.stream_started
        /\ taken.xfer.stream_finished = o.xfer.stream_finished
  <2> DEFINE x == [o.xfer EXCEPT !.size_transferred = @ + SectorSize,
                                 !.file_next_sector = sector + 1]
  <2>1. o.xfer.size_transferred + SectorSize \in Nat /\ o.xfer \in TransferType
    <3>1. o.xfer \in TransferType /\ SectorSize \in Nat
      BY <1>1, FieldTypes, VfsAssumption
    <3> QED BY <3>1 DEF TransferType
  <2>2. /\ x \in TransferType
        /\ x.stream_open = o.xfer.stream_open /\ x.stream_started = o.xfer.stream_started
        /\ x.stream_finished = o.xfer.stream_finished
        /\ x.stream_optional_finish = o.xfer.stream_optional_finish
        /\ x.start_sector = o.xfer.start_sector
        /\ x.last_ooo_sector = o.xfer.last_ooo_sector
        /\ x.transfer_timeout = o.xfer.transfer_timeout
        /\ x.transfer_state = o.xfer.transfer_state
    BY <2>1, ConstantTypes DEF TransferType
  <2>3. taken = [o EXCEPT !.xfer = x]
    BY <1>1 DEF MgrType
  <2>4. [o EXCEPT !.xfer = x].xfer = x
    BY <1>1 DEF MgrType
  <2> HIDE DEF x, taken
  <2> QED BY <1>1, <2>2, <2>3, <2>4, ConstantTypes, SoundWith
<1> HIDE DEF again, taken
<1>4. o.xfer.stream_started => Keeps(UpdateState(taken, SUCCESS, close))
  BY <1>3, ConstantTypes, SoundUpdateState
<1>5. o.xfer.stream_started /\ ~o.xfer.stream_finished =>
        Keeps(TransferStreamData(taken, result, close))
  BY <1>3, SoundTransferStreamData
<1> HIDE DEF Keeps
<1>6. Keeps(FileData(mm, sector, kind, result, close))
  <2>1. FileData(mm, sector, kind, result, close) =
          CASE ~o.xfer.stream_started \/ sector < o.xfer.start_sector -> o
            [] o.xfer.stream_started /\ sector >= o.xfer.start_sector
                 /\ sector < o.xfer.file_next_sector -> again
            [] o.xfer.stream_started /\ sector >= o.xfer.start_sector
                 /\ sector > o.xfer.file_next_sector -> o
            [] OTHER -> IF o.xfer.stream_finished THEN UpdateState(taken, SUCCESS, close)
                        ELSE TransferStreamData(taken, result, close)
    BY Zenon DEF FileData, o, again, taken
  <2>2. CASE ~o.xfer.stream_started
    <3>1. FileData(mm, sector, kind, result, close) = o
      BY <2>1, <2>2, Zenon
    <3> QED BY <1>1, <3>1, Zenon
  <2>3. CASE o.xfer.stream_started
    <3>1. FileData(mm, sector, kind, result, close) \in
            {o, again} \cup (IF o.xfer.stream_finished
                             THEN {UpdateState(taken, SUCCESS, close)}
                             ELSE {TransferStreamData(taken, result, close)})
      BY <2>1, <2>3, Zenon
    <3> QED BY <1>1, <1>2, <1>4, <1>5, <2>3, <3>1, Zenon
  <2> QED BY <2>2, <2>3
<1> QED BY <1>6 DEF Keeps

(***************************************************************************)
(* The inductive invariant.  Away from the bus no transfer owns a stream,  *)
(* so building the file system anew forgets none that is open; the idle    *)
(* time never exceeds the time the host has been quiet.                    *)
(***************************************************************************)
Steady ==
  /\ Sound(m, vendor)
  /\ m.vfs_state # "connected" => ~m.xfer.stream_open
  /\ Running => media = (m.vfs_state = "connected")
  /\ idle <= quiet

LEMMA InitSteady == Init => Steady
<1> SUFFICES ASSUME Init PROVE Steady
  OBVIOUS
<1>1. /\ idle = 0 /\ quiet = 0 /\ media = (m.vfs_state = "connected")
      /\ m.stream_state = "closed" /\ ~m.broken /\ m.xfer = DefaultTransfer
      /\ DrivePair(m) /\ vendor = "closed"
  BY VfsAssumption DEF Init, BootMemory, DrivePair
<1> QED BY <1>1 DEF Steady, Sound, Owned, Linked, Finished, DefaultTransfer

LEMMA BootSteady == Boot => Steady'
<1> SUFFICES ASSUME Boot PROVE Steady'
  OBVIOUS
<1>1. /\ idle' = 0 /\ quiet' = 0 /\ media' = (m'.vfs_state = "connected")
      /\ m'.stream_state = "closed" /\ ~m'.broken /\ m'.xfer = DefaultTransfer
      /\ DrivePair(m') /\ vendor' = "closed"
  BY DEF Boot, BootMemory, DrivePair
<1> QED BY <1>1 DEF Steady, Sound, Owned, Linked, Finished, DefaultTransfer, Running

LEMMA HostWritesSteady ==
  TypeOK /\ Steady /\ HostWrites => Steady' /\ m'.vfs_state = m.vfs_state
<1> SUFFICES ASSUME TypeOK, Steady, HostWrites
             PROVE  Steady' /\ m'.vfs_state = m.vfs_state
  OBVIOUS
<1> DEFINE Keeps(u, v) == Sound(u, v) /\ u.vfs_state = m.vfs_state
<1>1. m \in MgrType /\ Keeps(m, vendor) /\ vendor \in {"closed", "open", "clash"}
  BY DEF TypeOK, Steady
<1>2. /\ Running /\ media /\ idle' = 0 /\ quiet' = 0 /\ media' = media /\ image' = image
  BY DEF HostWrites, HostWritesEntry, HostWritesData, HostWriteCommon
<1>3. ASSUME HostWritesEntry PROVE Keeps(m', vendor')
  <2>1. PICK file \in Slots, e \in Entries, allowed \in {Automation, TRUE},
             close \in CloseResults :
          /\ e.deleted => e.name = dir[file]
          /\ ~e.deleted => e.name # AssertTxt
          /\ e.hidden => ~e.deleted /\ StreamOf(e.name) # NoStream
          /\ IF Finished(m) THEN UNCHANGED <<m, dir>>
             ELSE LET d == DirChange(m, file, e, allowed, close)
                  IN /\ m' = IF Finished(d) THEN d
                             ELSE FileData(d, DirSector, NoStream, SUCCESS, close)
                     /\ dir' = [dir EXCEPT ![file] = IF e.deleted THEN NoName ELSE e.name]
    BY <1>3, Zenon DEF HostWritesEntry
  <2>3. DirSector \in Sectors /\ SUCCESS \in WriteResults
    BY VfsAssumption DEF DirSector, Sectors, WriteResults
  <2> DEFINE d == DirChange(m, file, e, allowed, close)
             f == FileData(d, DirSector, NoStream, SUCCESS, close)
  <2>4. d \in MgrType /\ Keeps(d, vendor)
    BY <1>1, SoundDirChange
  <2>5. ~Finished(d) => Keeps(f, vendor)
    <3> HIDE DEF d
    <3>1. NoStream \in Streams \cup {NoStream}
      OBVIOUS
    <3> QED BY <2>3, <2>4, <3>1, SoundFileData
  <2>6. m' \in {m, d} \cup (IF Finished(d) THEN {} ELSE {f})
    BY <2>1, Zenon
  <2>7. vendor' = vendor
    BY <1>3 DEF HostWritesEntry
  <2> HIDE DEF Keeps, d, f
  <2> QED BY <1>1, <2>4, <2>5, <2>6, <2>7, Zenon
<1>4. ASSUME HostWritesData PROVE Keeps(m', vendor')
  <2>1. PICK sector \in Sectors \ {DirSector},
             kind \in IF m.xfer.stream_started THEN {NoStream} ELSE Streams \cup {NoStream},
             result \in WriteResults, close \in CloseResults :
          /\ m' = IF Finished(m) THEN m ELSE FileData(m, sector, kind, result, close)
          /\ vendor' = IF vendor = "open" /\ ~Finished(m) /\ kind # NoStream
                       THEN "clash" ELSE vendor
    BY <1>4, Zenon DEF HostWritesData
  <2>2. kind \in Streams \cup {NoStream} /\ vendor' \in {vendor, "clash"}
    BY <2>1, Zenon
  <2>3. Keeps(m, vendor')
    BY <1>1, <2>2, SoundClash
  <2>4. ~Finished(m) /\ kind # NoStream => vendor' # "open"
    BY <2>1
  <2>5. vendor' \in {"closed", "open", "clash"}
    BY <1>1, <2>2
  <2>6. ~Finished(m) => Keeps(FileData(m, sector, kind, result, close), vendor')
    BY <1>1, <2>2, <2>3, <2>4, <2>5, SoundFileData
  <2> HIDE DEF Keeps
  <2> QED BY <2>1, <2>3, <2>6, Zenon
<1>5. Keeps(m', vendor')
  <2> HIDE DEF Keeps
  <2> QED BY <1>3, <1>4 DEF HostWrites
<1>6. m.vfs_state = "connected"
  BY <1>2 DEF Steady
<1>7. m'.vfs_state = m.vfs_state /\ Sound(m', vendor')
  BY <1>5
<1>8. media' = (m'.vfs_state = "connected")
  BY <1>2, <1>6, <1>7 DEF TypeOK
<1>9. Sound(m, vendor)'
  BY <1>7 DEF Sound, Owned, Linked, DrivePair, Finished
<1>10. (Running => media = (m.vfs_state = "connected"))'
  BY <1>8, Zenon
<1>11. (m.vfs_state # "connected" => ~m.xfer.stream_open)'
  BY <1>6, <1>7
<1>12. (idle <= quiet)'
  BY <1>2
<1>13. Steady'
  BY <1>9, <1>10, <1>11, <1>12, Zenon DEF Steady
<1> QED BY <1>7, <1>13, Zenon

LEMMA SoundCloseTransfer ==
  ASSUME NEW v, NEW mm \in MgrType, Sound(mm, v), NEW close \in CloseResults
  PROVE  LET c == CloseTransfer(mm, close)
         IN /\ Sound(c, v) /\ Finished(c) /\ c.vfs_state = mm.vfs_state /\ ~c.commanded
            /\ Finished(mm) => c.xfer = mm.xfer /\ c.fail_reason = mm.fail_reason
<1> DEFINE timed == [mm EXCEPT !.xfer.transfer_timeout = TRUE]
           closed == IF Finished(mm) THEN mm ELSE UpdateState(timed, SUCCESS, close)
           Keeps(u) == Sound(u, v) /\ Finished(u) /\ u.vfs_state = mm.vfs_state
<1>1. ASSUME ~Finished(mm)
      PROVE  /\ timed \in MgrType /\ Ready(timed, SUCCESS, v)
             /\ timed.xfer.transfer_timeout /\ timed.vfs_state = mm.vfs_state
  <2> DEFINE x == [mm.xfer EXCEPT !.transfer_timeout = TRUE]
  <2>1. mm.xfer \in TransferType
    BY FieldTypes
  <2>2. /\ x \in TransferType /\ Linked(x) /\ x.transfer_timeout
        /\ x.stream_open = mm.xfer.stream_open /\ x.stream_started = mm.xfer.stream_started
        /\ x.stream_finished = mm.xfer.stream_finished
        /\ x.stream_optional_finish = mm.xfer.stream_optional_finish
        /\ x.transfer_state = mm.xfer.transfer_state
    BY <2>1 DEF TransferType, Sound, Linked
  <2>3. timed = [mm EXCEPT !.xfer = x]
    BY DEF MgrType
  <2> HIDE DEF x, timed
  <2>4. /\ timed \in MgrType /\ timed.xfer = x /\ timed.stream_state = mm.stream_state
        /\ timed.broken = mm.broken /\ timed.vfs_state = mm.vfs_state /\ DrivePair(timed)
    BY <2>2, <2>3 DEF MgrType, Sound, DrivePair
  <2> QED BY <1>1, <2>2, <2>4 DEF Ready, Sound, Owned, Finished
<1> HIDE DEF timed
<1>2. /\ closed \in MgrType /\ Keeps(closed)
      /\ Finished(mm) => closed = mm
  <2>1. ASSUME ~Finished(mm)
        PROVE  /\ UpdateState(timed, SUCCESS, close) \in MgrType
               /\ Keeps(UpdateState(timed, SUCCESS, close))
    BY <1>1, <2>1, ConstantTypes, SoundUpdateState, UpdateStateType
  <2>2. Finished(mm) => Keeps(mm)
    OBVIOUS
  <2> HIDE DEF Keeps
  <2> QED BY <2>1, <2>2, Zenon
<1>3. CloseTransfer(mm, close) = [closed EXCEPT !.commanded = FALSE]
  <2>1. CloseTransfer(mm, close) =
          [Check(closed, Finished(closed)) EXCEPT !.commanded = FALSE]
    BY Zenon DEF CloseTransfer, timed
  <2>2. Check(closed, Finished(closed)) = closed
    BY <1>2, CheckHolds
  <2> HIDE DEF closed
  <2> QED BY <2>1, <2>2, Zenon
<1> HIDE DEF closed
<1>4. Keeps([closed EXCEPT !.commanded = FALSE])
  BY <1>2 DEF Sound, Owned, Finished, DrivePair, MgrType
<1>5. /\ ~[closed EXCEPT !.commanded = FALSE].commanded
      /\ Finished(mm) => /\ [closed EXCEPT !.commanded = FALSE].xfer = mm.xfer
                         /\ [closed EXCEPT !.commanded = FALSE].fail_reason = mm.fail_reason
  BY <1>2 DEF MgrType
<1> QED BY <1>3, <1>4, <1>5

\* Leaving the connected state concludes the transfer; any other transition builds the
\* file system anew.
LEMMA TransitionSteady ==
  ASSUME TypeOK, Steady, Changing(m), NEW close \in CloseResults, Transition(close)
  PROVE  /\ Sound(m', vendor) /\ (m'.vfs_state # "connected" => ~m'.xfer.stream_open)
         /\ media' = (m'.vfs_state = "connected")
         /\ m.vfs_state = "connected" =>
              /\ m'.vfs_state # "connected"
              /\ Finished(m) => Finished(m') /\ m'.fail_reason = m.fail_reason
         /\ m.vfs_state # "connected" => m'.vfs_state = "connected"
         /\ m'.commanded => m.vfs_state # "connected" /\ m.commanded
<1> DEFINE next == m.vfs_state_next
           moved == [m EXCEPT !.vfs_state = next,
                              !.vfs_state_next = IF next = "reconnecting"
                                                 THEN "connected" ELSE next]
           left == IF m.vfs_state = "connected" THEN CloseTransfer(moved, close) ELSE moved
<1>1. m \in MgrType /\ Sound(m, vendor)
  BY DEF TypeOK, Steady
<1>2. /\ m.vfs_state = "connected" => next = "reconnecting"
      /\ m.vfs_state # "connected" => next = "connected"
  BY <1>1 DEF Sound, DrivePair, Changing, MgrType, DriveStates
<1>3. /\ moved \in MgrType /\ moved.vfs_state = next /\ moved.xfer = m.xfer
      /\ moved.stream_state = m.stream_state /\ moved.broken = m.broken
      /\ moved.fail_reason = m.fail_reason /\ moved.commanded = m.commanded
  BY <1>1 DEF MgrType, DriveStates
<1>4. DrivePair(moved)
  BY <1>1, <1>2 DEF DrivePair, MgrType
<1>5. Sound(moved, vendor)
  <2> HIDE DEF moved
  <2> QED BY <1>1, <1>3, <1>4 DEF Sound, Owned, Finished
<1>6. m' = EnterState(left) /\ media' = (next = "connected")
  BY Zenon DEF Transition
<1> HIDE DEF moved
<1>7. CASE m.vfs_state = "connected"
  <2> DEFINE c == CloseTransfer(moved, close)
  <2>1. /\ Sound(c, vendor) /\ Finished(c) /\ c.vfs_state = "reconnecting" /\ ~c.commanded
        /\ Finished(moved) => c.xfer = moved.xfer /\ c.fail_reason = moved.fail_reason
    BY <1>1, <1>2, <1>3, <1>5, <1>7, SoundCloseTransfer
  <2>2. left = c
    BY <1>7
  <2> HIDE DEF c, left
  <2>3. m' = c
    BY <1>6, <2>1, <2>2 DEF EnterState
  <2>4. ~c.xfer.stream_open
    BY <2>1 DEF Sound
  <2> QED BY <1>2, <1>3, <1>6, <1>7, <2>1, <2>3, <2>4 DEF Finished
<1>8. CASE m.vfs_state # "connected"
  <2> DEFINE d == [moved EXCEPT !.xfer = DefaultTransfer]
  <2>1. m' = d
    BY <1>2, <1>3, <1>6, <1>8 DEF EnterState
  <2>2. vendor # "clash" => ~moved.broken /\ (moved.stream_state = "closed" <=> vendor = "closed")
    BY <1>1, <1>3, <1>8 DEF Steady, Sound, Owned
  <2>3. Sound(d, vendor) /\ d.vfs_state = "connected"
    BY <1>2, <1>3, <1>4, <1>8, <2>2, SoundForget
  <2>4. d.commanded = m.commanded
    BY <1>3 DEF MgrType
  <2> HIDE DEF d
  <2> QED BY <1>2, <1>6, <1>8, <2>1, <2>3, <2>4
<1> QED BY <1>7, <1>8

LEMMA KnownTransition ==
  ASSUME TypeOK, Steady, Changing(m)
  PROVE  TransitionKnown(m)
BY DEF TypeOK, Steady, Sound, DrivePair, Changing, TransitionKnown, MgrType, DriveStates

\* What one call of vfs_mngr_periodic may do.
LEMMA PeriodicSteps ==
  ASSUME TypeOK, Steady, Periodic
  PROVE  /\ Steady'
         /\ \/ m' = m
            \/ /\ Changing(m) /\ ReadyForStateChange
               /\ m.vfs_state = "connected" =>
                    /\ m'.vfs_state # "connected"
                    /\ Finished(m) => Finished(m') /\ m'.fail_reason = m.fail_reason
               /\ m.vfs_state # "connected" => m'.vfs_state = "connected"
<1>1. /\ Running /\ vendor' = vendor /\ quiet' = Capped(quiet) /\ idle \in Nat /\ quiet \in Nat
      /\ idle <= quiet /\ quiet <= MaxEventTime /\ MaxEventTime \in Nat
  BY VfsAssumption DEF Periodic, TypeOK, Steady
<1>2. idle <= quiet' /\ Capped(idle) <= quiet' /\ 0 <= quiet'
  BY <1>1 DEF Capped
<1>3. CASE ~Changing(m)
  <2>1. m' = m /\ media' = media /\ idle' = idle /\ image' = image
    BY <1>3 DEF Periodic
  <2> QED BY <1>1, <1>2, <2>1 DEF Steady, Running, Sound, Owned, Linked, DrivePair, Finished
<1>4. CASE Changing(m) /\ ReadyForStateChange
  <2>1. PICK close \in CloseResults : Transition(close)
    BY <1>4, Zenon DEF Periodic
  <2>2. idle' = 0
    BY <2>1, Zenon DEF Transition
  <2>3. /\ Sound(m', vendor) /\ (m'.vfs_state # "connected" => ~m'.xfer.stream_open)
        /\ media' = (m'.vfs_state = "connected")
        /\ m.vfs_state = "connected" =>
             /\ m'.vfs_state # "connected"
             /\ Finished(m) => Finished(m') /\ m'.fail_reason = m.fail_reason
        /\ m.vfs_state # "connected" => m'.vfs_state = "connected"
    BY <1>4, <2>1, TransitionSteady
  <2>4. Sound(m, vendor)'
    BY <1>1, <2>3 DEF Sound, Owned, Linked, DrivePair, Finished
  <2>5. (Running => media = (m.vfs_state = "connected"))'
    BY <2>3, Zenon
  <2>6. (m.vfs_state # "connected" => ~m.xfer.stream_open)'
    BY <2>3, Zenon
  <2>7. (idle <= quiet)'
    BY <1>2, <2>2
  <2>8. Steady'
    BY <2>4, <2>5, <2>6, <2>7, Zenon DEF Steady
  <2> QED BY <1>4, <2>3, <2>8, Zenon
<1>5. CASE Changing(m) /\ ~ReadyForStateChange
  <2>1. /\ idle' = Capped(idle) /\ m' = Check(m, TransitionKnown(m))
        /\ media' = media /\ image' = image
    BY <1>5, Zenon DEF Periodic
  <2>2. m' = m
    BY <1>5, <2>1, KnownTransition, CheckHolds
  <2> QED BY <1>1, <1>2, <2>1, <2>2
         DEF Steady, Running, Sound, Owned, Linked, DrivePair, Finished
<1> QED BY <1>3, <1>4, <1>5

LEMMA AssertElsewhereSteady ==
  ASSUME TypeOK, Steady, AssertElsewhere
  PROVE  /\ Steady' /\ m'.vfs_state = m.vfs_state
         /\ m'.xfer = m.xfer /\ m'.fail_reason = m.fail_reason
<1> DEFINE Keeps(u) == /\ Sound(u, vendor) /\ u.vfs_state = m.vfs_state
                       /\ u.xfer = m.xfer /\ u.fail_reason = m.fail_reason
           a == [m EXCEPT !.assert_set = TRUE]
<1>1. m \in MgrType /\ Sound(m, vendor)
  BY DEF TypeOK, Steady
<1>2. Keeps(m)
  BY <1>1
<1>3. a \in MgrType /\ Keeps(a)
  BY <1>1 DEF Sound, Owned, DrivePair, Finished, MgrType
<1>4. Keeps(RaiseAssert(m))
  <2>1. Keeps(Remount(a))
    <3> HIDE DEF a
    <3>1. DrivePair(a)
      BY <1>3 DEF Sound
    <3> QED BY <1>3, <3>1, SoundRemount, RemountKeeps
  <2> QED BY <1>2, <2>1 DEF RaiseAssert
<1>5. /\ Keeps(m') /\ media' = media /\ idle' = idle /\ quiet' = quiet
      /\ image' = image /\ vendor' = vendor
  <2> HIDE DEF Keeps
  <2>1. m' \in {a, RaiseAssert(m)}
    BY Zenon DEF AssertElsewhere
  <2> QED BY <1>3, <1>4, <2>1 DEF AssertElsewhere
<1>6. Sound(m, vendor)'
  BY <1>5 DEF Sound, Owned, Linked, DrivePair, Finished
<1>7. Steady'
  BY <1>5, <1>6 DEF Steady, Running
<1> QED BY <1>5, <1>7

\* The debug host's own hand on the stream leaves everything else as it is, and as
\* long as it keeps its order and the drive is elsewhere, fails no assertion.
LEMMA DebugHostSteady ==
  ASSUME TypeOK, Steady, DebugHost
  PROVE  /\ Steady' /\ m'.vfs_state = m.vfs_state
         /\ m'.xfer = m.xfer /\ m'.fail_reason = m.fail_reason
         /\ m'.commanded = m.commanded
<1> DEFINE Keeps(u) == /\ u \in MgrType /\ DrivePair(u) /\ u.xfer = m.xfer
                       /\ u.fail_reason = m.fail_reason /\ u.vfs_state = m.vfs_state
                       /\ u.commanded = m.commanded
           Moved(u, st) == Keeps(u) /\ u.stream_state = st /\ u.broken = m.broken
<1>1. m \in MgrType /\ DrivePair(m) /\ Sound(m, vendor)
  BY DEF TypeOK, Steady, Sound
<1>2. ASSUME NEW ok PROVE Keeps(Check(m, ok))
  BY <1>1, CheckKeeps
<1>3. ASSUME NEW u, Keeps(u), NEW st \in {"closed", "open", "end", "error"}
      PROVE  Keeps([u EXCEPT !.stream_state = st])
  BY <1>3 DEF MgrType, DrivePair
<1>4. ASSUME NEW st \in {"closed", "open", "end", "error"}
      PROVE  Moved([m EXCEPT !.stream_state = st], st)
  BY <1>1 DEF MgrType, DrivePair
<1>5. Keeps(Check(m, FALSE))
  <2> HIDE DEF Keeps
  <2> QED BY <1>2, Zenon
<1> HIDE DEF Keeps, Moved
\* each command moves the stream if it may, or leaves a clash
<1>6. \/ Keeps(m') /\ vendor' = "clash"
      \/ vendor = "closed" /\ vendor' = "open" /\ Moved(m', "open")
      \/ /\ vendor = "open" /\ vendor' = "open"
         /\ Moved(m', "open") \/ Moved(m', "end") \/ Moved(m', "error")
      \/ vendor = "open" /\ vendor' = "closed" /\ Moved(m', "closed")
  <2>1. CASE VendorOpens
    <3>1. PICK known \in BOOLEAN :
            /\ m' = IF known THEN StreamOpen(m) ELSE Check(m, FALSE)
            /\ vendor' = IF known /\ vendor = "closed" /\ m.stream_state = "closed"
                         THEN "open" ELSE "clash"
      BY <2>1, Zenon DEF VendorOpens
    <3>2. StreamOpen(m) = IF m.stream_state = "closed" THEN [m EXCEPT !.stream_state = "open"]
                                                      ELSE Check(m, FALSE)
      BY Zenon DEF StreamOpen
    <3>3. Moved([m EXCEPT !.stream_state = "open"], "open")
      BY <1>4
    <3>4. Keeps([m EXCEPT !.stream_state = "open"])
      BY <3>3 DEF Moved
    <3> QED BY <1>5, <3>1, <3>2, <3>3, <3>4, Zenon
  <2>2. CASE VendorWrites
    <3>1. PICK result \in WriteResults : m' = StreamWrite(m, result)
      BY <2>2, Zenon DEF VendorWrites
    <3>2. vendor' = IF vendor = "open" /\ m.stream_state = "open" THEN "open" ELSE "clash"
      BY <2>2, Zenon DEF VendorWrites
    <3> DEFINE st == CASE result = DONE -> "end" [] result = FAILED -> "error"
                       [] OTHER -> "open"
    <3>3. st \in {"end", "error", "open"}
      BY Zenon
    <3>4. StreamWrite(m, result) = IF m.stream_state # "open" THEN Check(m, FALSE)
                                   ELSE [m EXCEPT !.stream_state = st]
      BY Zenon DEF StreamWrite
    <3> HIDE DEF st
    <3>5. Moved([m EXCEPT !.stream_state = st], st)
      BY <1>4, <3>3
    <3>6. Keeps([m EXCEPT !.stream_state = st])
      BY <3>5 DEF Moved
    <3> QED BY <1>5, <3>1, <3>2, <3>3, <3>4, <3>5, <3>6, Zenon
  <2>3. CASE VendorCloses
    <3> DEFINE ok == m.stream_state # "closed"
               k == Check(m, ok)
    <3>1. /\ m' = [k EXCEPT !.stream_state = "closed"]
          /\ vendor' = IF vendor = "open" THEN "closed" ELSE "clash"
      BY <2>3, Zenon DEF VendorCloses, StreamClose
    <3>2. Keeps([k EXCEPT !.stream_state = "closed"])
      <4>1. Keeps(k)
        BY <1>2
      <4> HIDE DEF k
      <4> QED BY <1>3, <4>1
    <3>3. vendor = "open" => k = m
      <4>1. vendor = "open" => ok
        BY <1>1 DEF Sound, Owned
      <4> HIDE DEF ok
      <4> QED BY <4>1, CheckHolds
    <3>4. Moved([m EXCEPT !.stream_state = "closed"], "closed")
      BY <1>4
    <3> HIDE DEF k, ok
    <3> QED BY <3>1, <3>2, <3>3, <3>4, Zenon
  <2> QED BY <2>1, <2>2, <2>3 DEF DebugHost
<1>7. Keeps(m')
  BY <1>6 DEF Moved
<1>8. media' = media /\ idle' = idle /\ quiet' = quiet /\ image' = image
  BY Zenon DEF DebugHost, VendorOpens, VendorWrites, VendorCloses, VendorCommand
<1>9. vendor' # "clash" =>
        Owned(m', vendor') /\ (m'.xfer.stream_open => m'.stream_state = "open")
  <2> SUFFICES ASSUME vendor' # "clash"
               PROVE  Owned(m', vendor') /\ (m'.xfer.stream_open => m'.stream_state = "open")
    OBVIOUS
  <2>1. ~m.xfer.stream_open /\ ~m.broken
    <3>1. vendor = "closed" /\ vendor' = "open" => ~m.xfer.stream_open
      <4>1. vendor = "closed" /\ vendor' = "open" => m.stream_state = "closed"
        BY Zenon DEF DebugHost, VendorOpens, VendorWrites, VendorCloses
      <4> QED BY <1>1, <4>1 DEF Sound, Owned
    <3>2. vendor = "open" => ~m.xfer.stream_open
      BY <1>1 DEF Sound, Owned
    <3>3. vendor # "clash" => ~m.broken
      BY <1>1 DEF Sound, Owned
    <3> QED BY <1>6, <3>1, <3>2, <3>3
  <2> QED BY <1>6, <2>1 DEF Owned, Moved, Keeps
<1>10. Sound(m', vendor')
  BY <1>1, <1>7, <1>9 DEF Sound, Keeps, Finished
<1>11. Sound(m, vendor)'
  BY <1>10 DEF Sound, Owned, Linked, DrivePair, Finished
<1>12. Steady'
  BY <1>7, <1>8, <1>11 DEF Steady, Running, Keeps
<1> QED BY <1>7, <1>12 DEF Keeps

LEMMA StutterSteady == Steady /\ UNCHANGED vars => Steady'
BY DEF vars, Steady, Running, Sound, Owned, Linked, DrivePair, Finished

\* The memory handlers see and leave is sound, whatever the constants are.
THEOREM SteadyInvariant == Spec => [](TypeOK /\ Steady)
<1>1. Init => TypeOK /\ Steady
  BY InitType, InitSteady
<1>2. TypeOK /\ Steady /\ [Next]_vars => (TypeOK /\ Steady)'
  <2> SUFFICES ASSUME TypeOK, Steady, [Next]_vars PROVE TypeOK' /\ Steady'
    OBVIOUS
  <2>1. CASE HostWrites
    BY <2>1, HostWritesType, HostWritesSteady
  <2>2. CASE Periodic
    BY <2>2, PeriodicType, PeriodicSteps
  <2>3. CASE AssertElsewhere
    BY <2>3, AssertElsewhereType, AssertElsewhereSteady
  <2>4. CASE Boot
    BY <2>4, BootType, BootSteady
  <2>5. CASE UNCHANGED vars
    <3>1. TypeOK'
      BY <2>5, Zenon DEF vars, TypeOK
    <3> QED BY <2>5, <3>1, StutterSteady
  <2>6. CASE DebugHost
    BY <2>6, DebugHostType, DebugHostSteady
  <2> QED BY <2>1, <2>2, <2>3, <2>4, <2>5, <2>6 DEF Next
<1> QED BY <1>1, <1>2, PTL DEF Spec

\* In every order of directory writes, data writes, ticks, remounts, resets and commands
\* of a debug host, no util_assert of vfs_manager.c or file_stream.c fails before the
\* debug host has met the drive on the stream, or broken the order open, write, close.
THEOREM AssertsHold == Spec => []NoAssertFails
<1>1. TypeOK /\ Steady => NoAssertFails
  BY DEF Steady, Sound, Owned, NoAssertFails
<1> QED BY <1>1, SteadyInvariant, PTL

\* What the transfer notes of its stream agrees with its state, whatever the debug host
\* does; until they met, a stream is open between two events exactly when one of them
\* owns it.
THEOREM StreamsOwned == Spec => []StreamOwned
<1>1. TypeOK /\ Steady => StreamOwned
  <2> SUFFICES ASSUME Steady PROVE StreamOwned
    OBVIOUS
  <2>1. m.xfer.stream_open => m.xfer.stream_started /\ ~m.xfer.stream_finished /\ ~Finished(m)
    BY DEF Steady, Sound, Linked
  <2>2. vendor # "clash" =>
          IF m.xfer.stream_open THEN m.stream_state = "open" /\ vendor = "closed"
                                ELSE m.stream_state = "closed" <=> vendor = "closed"
    BY DEF Steady, Sound, Owned
  <2> QED BY <2>1, <2>2, Zenon DEF StreamOwned
<1> QED BY <1>1, SteadyInvariant, PTL

\* The medium is ready exactly in the connected state, and every pending transition of
\* the drive is one the periodic function has a delay for.
THEOREM DriveAgrees == Spec => []DriveConsistent
<1>1. TypeOK /\ Steady => DriveConsistent
  <2> SUFFICES ASSUME TypeOK, Steady PROVE DriveConsistent
    OBVIOUS
  <2>1. Running => (media <=> m.vfs_state = "connected")
    BY DEF Steady
  <2>2. Changing(m) => TransitionKnown(m)
    BY KnownTransition
  <2>3. m.vfs_state = "reconnecting" => Changing(m)
    BY DEF Steady, Sound, DrivePair, Changing
  <2> QED BY <2>1, <2>2, <2>3 DEF DriveConsistent
<1> QED BY <1>1, SteadyInvariant, PTL

\* The drive leaves the bus only after the host has left it alone for the delay of the
\* state of the transfer: every tick that counts as idle is one without a write.
THEOREM DetachesQuietly == Spec => DetachesOnlyWhenQuiet
<1> DEFINE step ==
      m.vfs_state = "connected" /\ m'.vfs_state # "connected" /\ Running =>
        quiet > IF m.xfer.transfer_state = "in_progress" THEN TransferTimeout
                                                         ELSE DisconnectDelay
<1>1. TypeOK /\ Steady /\ [Next]_vars => [step]_vars
  <2> SUFFICES ASSUME TypeOK, Steady, [Next]_vars, m.vfs_state = "connected",
                      m'.vfs_state # "connected", Running
               PROVE  quiet > IF m.xfer.transfer_state = "in_progress"
                              THEN TransferTimeout ELSE DisconnectDelay
    OBVIOUS
  <2>1. ~HostWrites /\ ~DebugHost /\ ~AssertElsewhere /\ ~Boot
    BY HostWritesSteady, DebugHostSteady, AssertElsewhereSteady DEF Boot
  <2>2. Periodic /\ m' # m
    BY <2>1 DEF Next, vars
  <2>3. ReadyForStateChange
    BY <2>2, PeriodicSteps
  <2>4. DelayOf(m) = IF m.xfer.transfer_state = "in_progress" THEN TransferTimeout
                                                              ELSE DisconnectDelay
    BY DEF DelayOf
  <2>5. idle <= quiet /\ idle \in Nat /\ quiet \in Nat
    BY VfsAssumption DEF TypeOK, Steady
  <2>6. (IF m.xfer.transfer_state = "in_progress" THEN TransferTimeout
                                                  ELSE DisconnectDelay) \in Nat
    BY VfsAssumption
  <2> QED BY <2>3, <2>4, <2>5, <2>6 DEF ReadyForStateChange
<1> QED BY <1>1, SteadyInvariant, PTL DEF Spec, DetachesOnlyWhenQuiet

\* The verdict on a finished transfer stays what it is until the drive is built anew.
THEOREM VerdictsFinal == Spec => VerdictFinal
<1> DEFINE step ==
      Finished(m) /\ Running' /\ Running =>
        \/ Finished(m') /\ m'.fail_reason = m.fail_reason
        \/ m.vfs_state # "connected" /\ m'.vfs_state = "connected"
<1>1. TypeOK /\ Steady /\ [Next]_vars => [step]_vars
  <2> SUFFICES ASSUME TypeOK, Steady, [Next]_vars, Finished(m), Running
               PROVE  \/ Finished(m') /\ m'.fail_reason = m.fail_reason
                      \/ m.vfs_state # "connected" /\ m'.vfs_state = "connected"
    BY Zenon
  <2>1. CASE HostWrites
    <3>1. m' = m
      BY <2>1 DEF HostWrites, HostWritesEntry, HostWritesData
    <3> QED BY <3>1
  <2>2. CASE Periodic
    BY <2>2, PeriodicSteps
  <2>3. CASE AssertElsewhere
    BY <2>3, AssertElsewhereSteady DEF Finished
  <2>4. CASE Boot
    BY <2>4 DEF Boot
  <2>5. CASE UNCHANGED vars
    BY <2>5 DEF vars
  <2>6. CASE DebugHost
    BY <2>6, DebugHostSteady DEF Finished
  <2> QED BY <2>1, <2>2, <2>3, <2>4, <2>5, <2>6 DEF Next
<1> QED BY <1>1, SteadyInvariant, PTL DEF Spec, VerdictFinal

\* A transfer is reported as a success only with a file named, all of its size taken in
\* at its own start sector, and a stream that could end there.
THEOREM SuccessesComplete == Spec => SuccessIsComplete
<1> DEFINE step ==
      ~Finished(m) /\ Finished(m') /\ m'.fail_reason = SUCCESS
        /\ TransferStarted(m'.xfer) =>
        /\ m'.xfer.file_to_program # NoFile /\ m'.xfer.file_size > 0
        /\ m'.xfer.size_transferred >= m'.xfer.file_size
        /\ m'.xfer.start_sector = m'.xfer.file_start_sector
        /\ m'.xfer.stream_optional_finish
        /\ OutOfOrder(m'.xfer) => m'.xfer.stream_finished
<1>1. (TypeOK /\ Steady)' => [step]_vars
  BY DEF Steady, Sound, Whole, Finished, TransferStarted, OutOfOrder
<1> QED BY <1>1, SteadyInvariant, PTL DEF SuccessIsComplete

(***************************************************************************)
(* The remount a command asked for.  It waits until the drive leaves the   *)
(* bus; of all handlers only the one that forgets a transfer withdraws it. *)
(* Kept is what every other call of a handler hands on, SameFile which     *)
(* file a transfer is about and whether its stream has started.            *)
(***************************************************************************)
CommandPending ==
  m.commanded => m.vfs_state = "connected" /\ m.vfs_state_next = "reconnecting"

\* A write of the directory that deletes the file of a transfer without a stream.
ForgetsTransfer ==
  /\ m.xfer.file_to_program \in Slots /\ ~m.xfer.stream_started
  /\ dir'[m.xfer.file_to_program] = NoName

Kept(mm) ==
  /\ {"vfs_state", "vfs_state_next", "commanded"} \subseteq DOMAIN mm
  /\ mm.vfs_state = "connected" /\ mm.vfs_state_next \in {"connected", "reconnecting"}
  /\ mm.commanded => mm.vfs_state_next = "reconnecting"

LEMMA KeptRemount ==
  ASSUME NEW mm, Kept(mm)
  PROVE  Kept(Remount(mm)) /\ Remount(mm).vfs_state_next = "reconnecting"
BY DEF Kept, Remount, Changing

LEMMA KeptAssert ==
  ASSUME NEW mm, Kept(mm)
  PROVE  Kept(RaiseAssert(mm)) /\ Kept(Check(mm, FALSE))
<1> DEFINE a == [mm EXCEPT !.assert_set = TRUE]
<1>1. Kept(a)
  BY DEF Kept
<1> HIDE DEF a
<1>2. Kept(RaiseAssert(mm))
  BY <1>1, KeptRemount, Zenon DEF RaiseAssert, a
<1> DEFINE b == [RaiseAssert(mm) EXCEPT !.broken = TRUE]
<1>3. Kept(b)
  BY <1>2 DEF Kept
<1> HIDE DEF b
<1> QED BY <1>2, <1>3, Zenon DEF Check, b

LEMMA KeptCheck ==
  ASSUME NEW mm, Kept(mm), NEW ok
  PROVE  Kept(Check(mm, ok))
BY KeptAssert, Zenon DEF Check

\* The fields of the transfer, of the stream and of the verdict are others.
LEMMA KeptFields ==
  ASSUME NEW mm, Kept(mm), NEW v
  PROVE  /\ Kept([mm EXCEPT !.xfer = v]) /\ Kept([mm EXCEPT !.stream_state = v])
         /\ Kept([mm EXCEPT !.fail_reason = v]) /\ Kept([mm EXCEPT !.hold_in_bl = v])
         /\ Kept([mm EXCEPT !.disable_msd = v]) /\ Kept([mm EXCEPT !.assert_set = v])
BY DEF Kept

LEMMA KeptStreamClose ==
  ASSUME NEW mm, Kept(mm)
  PROVE  Kept(StreamClose(mm))
<1>1. \A ok : Kept(Check(mm, ok))
  BY KeptCheck
<1>2. \A ok : Kept([Check(mm, ok) EXCEPT !.stream_state = "closed"])
  BY <1>1, KeptFields
<1> QED BY <1>2, Zenon DEF StreamClose

LEMMA KeptConclude ==
  ASSUME NEW mm, Kept(mm), NEW verdict, NEW close
  PROVE  Kept(Conclude(mm, verdict, close))
<1> DEFINE s == StreamClose(mm)
           v == IF verdict = SUCCESS THEN StreamCloseStatus(mm, close) ELSE verdict
           c == [s EXCEPT !.xfer.stream_open = FALSE, !.fail_reason = v]
           d == [mm EXCEPT !.fail_reason = verdict]
<1>1. Kept(s)
  BY KeptStreamClose
<1> HIDE DEF s, v
<1>2. Kept(c)
  BY <1>1 DEF Kept
<1>3. Kept(d)
  BY KeptFields
<1> HIDE DEF c, d
<1> QED BY <1>2, <1>3, Zenon DEF Conclude, c, d, s, v

LEMMA KeptUpdateState ==
  ASSUME NEW mm, Kept(mm), NEW status, NEW close
  PROVE  Kept(UpdateState(mm, status, close))
<1>1. ASSUME NEW ok, NEW x PROVE Kept([Check(mm, ok) EXCEPT !.xfer = x])
  BY KeptCheck, KeptFields
<1>2. ASSUME NEW ok, NEW x, NEW verdict
      PROVE  Kept(Conclude([Check(mm, ok) EXCEPT !.xfer = x], verdict, close))
  BY <1>1, KeptConclude
<1>3. Kept(Check(mm, FALSE))
  BY KeptAssert, Zenon
<1>4. ASSUME NEW after, Kept(after), NEW b, UpdateState(mm, status, close) =
               IF b THEN after ELSE Remount(after)
      PROVE  Kept(UpdateState(mm, status, close))
  BY <1>4, KeptRemount, Zenon
<1> DEFINE x == [mm.xfer EXCEPT !.file_info_optional_finish = FileInfoDone(mm.xfer)]
           next == NextTransferState(x, status)
           verdict == IF status = SUCCESS /\ x.transfer_timeout
                      THEN TimeoutVerdict(x) ELSE status
           ok == /\ status \notin {DONE, MORE}
                 /\ x.last_ooo_sector # NoSector => x.start_sector # NoSector
           y == [x EXCEPT !.transfer_state = next]
           moved == [Check(mm, ok) EXCEPT !.xfer = y]
           after == IF next = "finished" THEN Conclude(moved, verdict, close) ELSE moved
<1>5. UpdateState(mm, status, close) =
        IF Finished(mm) THEN Check(mm, FALSE)
        ELSE IF x.transfer_timeout THEN after ELSE Remount(after)
  BY Zenon DEF UpdateState
<1> HIDE DEF x, next, verdict, ok, y
<1>6. Kept(moved) /\ Kept(Conclude(moved, verdict, close))
  BY <1>1, <1>2
<1> HIDE DEF moved
<1>7. Kept(after)
  BY <1>6, Zenon
<1> HIDE DEF after
<1> QED BY <1>3, <1>4, <1>5, <1>7, Zenon

LEMMA KeptUpdateFileInfo ==
  ASSUME NEW mm, Kept(mm), NEW file, NEW start, NEW size, NEW s, NEW close
  PROVE  Kept(UpdateFileInfo(mm, file, start, size, s, close))
<1>1. Kept(Check(mm, FALSE))
  BY KeptAssert, Zenon
<1>2. ASSUME NEW x, NEW status PROVE Kept(UpdateState([mm EXCEPT !.xfer = x], status, close))
  BY KeptFields, KeptUpdateState
<1> QED BY <1>1, <1>2, Zenon DEF UpdateFileInfo

LEMMA KeptUserFileChange ==
  ASSUME NEW mm, Kept(mm), NEW name, NEW change, NEW allowed
  PROVE  Kept(UserFileChange(mm, name, change, allowed))
<1>1. ASSUME NEW x, Kept(x) PROVE Kept(CommandRemount(x))
  <2>1. Kept(Remount(x)) /\ Remount(x).vfs_state_next = "reconnecting"
    BY <1>1, KeptRemount
  <2> DEFINE r == Remount(x)
  <2> HIDE DEF r
  <2>2. Kept([r EXCEPT !.commanded = TRUE])
    BY <2>1 DEF Kept, r
  <2> QED BY <2>2, Zenon DEF CommandRemount, r
<1>2. ASSUME NEW v
      PROVE  /\ Kept(CommandRemount([mm EXCEPT !.hold_in_bl = v]))
             /\ Kept(CommandRemount([mm EXCEPT !.disable_msd = v]))
             /\ Kept(CommandRemount([mm EXCEPT !.assert_set = v]))
  BY <1>1, KeptFields
<1>3. Kept(CommandRemount(mm)) /\ Kept(RaiseAssert(mm))
  BY <1>1, KeptAssert, Zenon
<1> QED BY <1>2, <1>3, Zenon DEF UserFileChange

\* Only the deletion of the file of a transfer resets the file information.
LEMMA KeptFileChange ==
  ASSUME NEW mm, Kept(mm), NEW name, NEW change, NEW file, NEW e, NEW allowed, NEW close
  PROVE  LET u == UserFileChange(mm, name, change, allowed)
             r == FileChange(mm, name, change, file, e, allowed, close)
         IN \/ Kept(r)
            \/ change = "deleted" /\ file = u.xfer.file_to_program /\ r = ResetFileInfo(u)
<1> DEFINE u == UserFileChange(mm, name, change, allowed)
<1>1. Kept(u)
  BY KeptUserFileChange
<1> HIDE DEF u
<1>2. Kept(UpdateFileInfo(u, file, StartSector(e), e.size, StreamOf(name), close))
  BY <1>1, KeptUpdateFileInfo
<1> QED BY <1>1, <1>2, Zenon DEF FileChange, u

LEMMA KeptStreamData ==
  ASSUME NEW mm, Kept(mm), NEW result, NEW close
  PROVE  Kept(TransferStreamData(mm, result, close))
<1>1. ASSUME NEW x, Kept(x) PROVE Kept(StreamWrite(x, result))
  BY <1>1, KeptAssert, KeptFields, Zenon DEF StreamWrite
<1> DEFINE checked == Check(mm, mm.xfer.stream_open)
           status == StreamWriteStatus(checked, result)
           optional == status \in {DONE, MORE}
           sent == StreamWrite(checked, result)
           written == [sent EXCEPT !.xfer.size_processed = @ + SectorSize,
                                   !.xfer.stream_optional_finish = optional]
           shut == StreamClose(written)
           closed == [shut EXCEPT !.xfer.stream_open = FALSE, !.xfer.stream_finished = TRUE]
<1>2. TransferStreamData(mm, result, close) \in
        {Check(mm, FALSE), UpdateState(closed, StreamCloseStatus(written, close), close),
         UpdateState(written, SUCCESS, close), UpdateState(written, status, close)}
  BY Zenon DEF TransferStreamData
<1>3. Kept(checked) /\ Kept(Check(mm, FALSE))
  <2>1. Kept(checked)
    BY KeptCheck
  <2>2. Kept(Check(mm, FALSE))
    BY KeptAssert, Zenon
  <2> QED BY <2>1, <2>2, Zenon
<1> HIDE DEF checked, status, optional
<1>4. Kept(sent)
  BY <1>1, <1>3
<1> HIDE DEF sent
<1>5. Kept(written)
  BY <1>4 DEF Kept
<1> HIDE DEF written
<1>6. Kept(shut)
  BY <1>5, KeptStreamClose
<1> HIDE DEF shut
<1>7. Kept(closed)
  BY <1>6 DEF Kept
<1> HIDE DEF closed
<1>8. /\ Kept(UpdateState(closed, StreamCloseStatus(written, close), close))
      /\ Kept(UpdateState(written, SUCCESS, close))
      /\ Kept(UpdateState(written, status, close))
  BY <1>5, <1>7, KeptUpdateState
<1> QED BY <1>2, <1>3, <1>8, Zenon

LEMMA KeptStreamOpen ==
  ASSUME NEW mm, Kept(mm), NEW s, NEW sector, NEW close
  PROVE  Kept(TransferStreamOpen(mm, s, sector, close))
<1>1. ASSUME NEW x, Kept(x) PROVE Kept(StreamOpen(x))
  BY <1>1, KeptAssert, KeptFields, Zenon DEF StreamOpen
<1> DEFINE checked == Check(mm, ~mm.xfer.stream_open)
           x == [checked.xfer EXCEPT !.start_sector = IF @ = NoSector THEN sector ELSE @,
                                     !.stream = IF @ = NoStream THEN s ELSE @]
           known == [checked EXCEPT !.xfer = x]
           opened == StreamOpen(known)
           begun == [opened EXCEPT !.xfer.file_next_sector = sector,
                                   !.xfer.stream_open = TRUE, !.xfer.stream_started = TRUE]
           status == StreamOpenStatus(known)
<1>2. TransferStreamOpen(mm, s, sector, close) \in
        {UpdateState(known, "ERROR_DURING_TRANSFER", close),
         UpdateState(opened, status, close), UpdateState(begun, status, close)}
  BY Zenon DEF TransferStreamOpen
<1>3. Kept(checked)
  BY KeptCheck
<1> HIDE DEF checked, x
<1>4. Kept(known)
  BY <1>3, KeptFields
<1> HIDE DEF known
<1>5. Kept(opened)
  BY <1>1, <1>4
<1> HIDE DEF opened
<1>6. Kept(begun)
  BY <1>5 DEF Kept
<1> HIDE DEF begun, status
<1>7. /\ Kept(UpdateState(known, "ERROR_DURING_TRANSFER", close))
      /\ Kept(UpdateState(opened, status, close)) /\ Kept(UpdateState(begun, status, close))
  BY <1>4, <1>5, <1>6, KeptUpdateState
<1> QED BY <1>2, <1>7, Zenon

LEMMA KeptFileData ==
  ASSUME NEW mm, Kept(mm), NEW sector, NEW kind, NEW result, NEW close
  PROVE  Kept(FileData(mm, sector, kind, result, close))
<1> DEFINE o == IF ~mm.xfer.stream_started /\ kind # NoStream
                THEN TransferStreamOpen(mm, kind, sector, close) ELSE mm
           taken == [o EXCEPT !.xfer.size_transferred = @ + SectorSize,
                              !.xfer.file_next_sector = sector + 1]
           again == [o EXCEPT !.xfer.last_ooo_sector = IF sector < @ THEN sector ELSE @]
<1>1. FileData(mm, sector, kind, result, close) \in
        {o, again, UpdateState(taken, SUCCESS, close), TransferStreamData(taken, result, close)}
  BY Zenon DEF FileData
<1>2. Kept(o)
  BY KeptStreamOpen, Zenon
<1> HIDE DEF o
<1>3. Kept(taken) /\ Kept(again)
  BY <1>2 DEF Kept
<1> HIDE DEF taken, again
<1>4. Kept(UpdateState(taken, SUCCESS, close)) /\ Kept(TransferStreamData(taken, result, close))
  BY <1>3, KeptUpdateState, KeptStreamData
<1> QED BY <1>1, <1>2, <1>3, <1>4, Zenon

SameFile(mm, x) ==
  /\ "xfer" \in DOMAIN mm /\ {"file_to_program", "stream_started"} \subseteq DOMAIN mm.xfer
  /\ mm.xfer.file_to_program = x.file_to_program
  /\ mm.xfer.stream_started = x.stream_started

LEMMA SameFileRemount ==
  ASSUME NEW mm, NEW x, SameFile(mm, x)
  PROVE  SameFile(Remount(mm), x)
BY DEF SameFile, Remount

LEMMA SameFileAssert ==
  ASSUME NEW mm, NEW x, SameFile(mm, x)
  PROVE  SameFile(RaiseAssert(mm), x) /\ SameFile([RaiseAssert(mm) EXCEPT !.broken = TRUE], x)
<1> DEFINE a == [mm EXCEPT !.assert_set = TRUE]
<1>1. SameFile(a, x)
  BY DEF SameFile
<1> HIDE DEF a
<1>2. SameFile(RaiseAssert(mm), x)
  BY <1>1, SameFileRemount, Zenon DEF RaiseAssert, a
<1>3. SameFile([RaiseAssert(mm) EXCEPT !.broken = TRUE], x)
  BY <1>2 DEF SameFile
<1> QED BY <1>2, <1>3

LEMMA SameFileCheck ==
  ASSUME NEW mm, NEW x, SameFile(mm, x), NEW ok
  PROVE  SameFile(Check(mm, ok), x)
BY SameFileAssert, Zenon DEF Check

LEMMA SameFileConclude ==
  ASSUME NEW mm, NEW x, SameFile(mm, x), NEW verdict, NEW close
  PROVE  SameFile(Conclude(mm, verdict, close), x)
<1> DEFINE checked == Check(mm, mm.stream_state # "closed")
           s == StreamClose(mm)
           v == IF verdict = SUCCESS THEN StreamCloseStatus(mm, close) ELSE verdict
           c == [s EXCEPT !.xfer.stream_open = FALSE, !.fail_reason = v]
           d == [mm EXCEPT !.fail_reason = verdict]
<1>1. SameFile(checked, x) /\ s = [checked EXCEPT !.stream_state = "closed"]
  BY SameFileCheck, Zenon DEF StreamClose
<1> HIDE DEF checked, s, v
<1>2. SameFile(s, x)
  BY <1>1 DEF SameFile
<1>3. SameFile(c, x)
  BY <1>2 DEF SameFile
<1>4. SameFile(d, x)
  BY DEF SameFile
<1> HIDE DEF c, d
<1> QED BY <1>3, <1>4, Zenon DEF Conclude, c, d, s, v

\* transfer_update_state neither names the file nor starts the stream.
LEMMA SameFileUpdateState ==
  ASSUME NEW mm, NEW z, SameFile(mm, z), NEW status, NEW close
  PROVE  SameFile(UpdateState(mm, status, close), z)
<1> DEFINE b == FileInfoDone(mm.xfer)
           x == [mm.xfer EXCEPT !.file_info_optional_finish = b]
           next == NextTransferState(x, status)
           verdict == IF status = SUCCESS /\ x.transfer_timeout
                      THEN TimeoutVerdict(x) ELSE status
           ok == /\ status \notin {DONE, MORE}
                 /\ x.last_ooo_sector # NoSector => x.start_sector # NoSector
           checked == Check(mm, ok)
           y == [x EXCEPT !.transfer_state = next]
           moved == [checked EXCEPT !.xfer = y]
           after == IF next = "finished" THEN Conclude(moved, verdict, close) ELSE moved
           broken == [RaiseAssert(mm) EXCEPT !.broken = TRUE]
<1>1. UpdateState(mm, status, close) =
        IF Finished(mm) THEN broken
        ELSE IF x.transfer_timeout THEN after ELSE Remount(after)
  BY Zenon DEF UpdateState, Check
<1>2. SameFile(checked, z) /\ SameFile(broken, z)
  BY SameFileCheck, SameFileAssert
<1> HIDE DEF b, next, verdict, checked, broken
<1>3. /\ {"file_to_program", "stream_started"} \subseteq DOMAIN y
      /\ y.file_to_program = z.file_to_program /\ y.stream_started = z.stream_started
  BY DEF SameFile
<1> HIDE DEF x, y
<1>4. SameFile(moved, z)
  BY <1>2, <1>3 DEF SameFile
<1> HIDE DEF moved
<1>5. SameFile(after, z)
  BY <1>4, SameFileConclude, Zenon
<1> HIDE DEF after
<1>6. SameFile(Remount(after), z)
  BY <1>5, SameFileRemount
<1> QED BY <1>1, <1>2, <1>5, <1>6, Zenon

LEMMA SameFileUserFileChange ==
  ASSUME NEW mm, NEW x, SameFile(mm, x), NEW name, NEW change, NEW allowed
  PROVE  SameFile(UserFileChange(mm, name, change, allowed), x)
<1>1. ASSUME NEW y, SameFile(y, x) PROVE SameFile(CommandRemount(y), x)
  <2> DEFINE r == Remount(y)
  <2>1. SameFile(r, x)
    BY <1>1, SameFileRemount
  <2> HIDE DEF r
  <2>2. SameFile([r EXCEPT !.commanded = TRUE], x)
    BY <2>1 DEF SameFile
  <2> QED BY <2>2, Zenon DEF CommandRemount, r
<1>2. ASSUME NEW v
      PROVE  /\ SameFile([mm EXCEPT !.hold_in_bl = v], x)
             /\ SameFile([mm EXCEPT !.disable_msd = v], x)
             /\ SameFile([mm EXCEPT !.assert_set = v], x)
  BY DEF SameFile
<1>3. ASSUME NEW v
      PROVE  /\ SameFile(CommandRemount([mm EXCEPT !.hold_in_bl = v]), x)
             /\ SameFile(CommandRemount([mm EXCEPT !.disable_msd = v]), x)
             /\ SameFile(CommandRemount([mm EXCEPT !.assert_set = v]), x)
  BY <1>1, <1>2
<1>4. SameFile(CommandRemount(mm), x) /\ SameFile(RaiseAssert(mm), x)
  BY <1>1, SameFileAssert
<1> QED BY <1>3, <1>4, Zenon DEF UserFileChange

\* What is done with "changed" names no file that was not named before.
LEMMA SameFileChanged ==
  ASSUME NEW mm, NEW x, SameFile(mm, x), NEW file, file # NoFile,
         NEW name, NEW e, NEW allowed, NEW close
  PROVE  SameFile(FileChange(mm, name, "changed", file, e, allowed, close), x)
<1> DEFINE u == UserFileChange(mm, name, "changed", allowed)
           start == StartSector(e)
           s == StreamOf(name)
           y == WithFileInfo(u.xfer, file, start, s)
           given == [u EXCEPT !.xfer = y]
           sized == [u EXCEPT !.xfer = [y EXCEPT !.file_size = e.size]]
           broken == [RaiseAssert(u) EXCEPT !.broken = TRUE]
<1>1. SameFile(u, x)
  BY SameFileUserFileChange
<1> HIDE DEF u, start, s
<1>2. FileChange(mm, name, "changed", file, e, allowed, close) \in
        {u} \cup (IF file = u.xfer.file_to_program
                  THEN {UpdateFileInfo(u, file, start, e.size, s, close)} ELSE {})
  BY Zenon DEF FileChange, u, start, s
<1>3. UpdateFileInfo(u, file, start, e.size, s, close) \in
        {broken, UpdateState(given, "ERROR_DURING_TRANSFER", close),
         UpdateState(sized, SUCCESS, close)}
  BY Zenon DEF UpdateFileInfo, Check
<1>4. file = u.xfer.file_to_program => SameFile(given, x) /\ SameFile(sized, x)
  BY <1>1 DEF SameFile, WithFileInfo
<1>5. SameFile(broken, x)
  BY <1>1, SameFileAssert
<1> HIDE DEF given, sized, broken
<1>6. file = u.xfer.file_to_program =>
        /\ SameFile(UpdateState(given, "ERROR_DURING_TRANSFER", close), x)
        /\ SameFile(UpdateState(sized, SUCCESS, close), x)
  BY <1>4, SameFileUpdateState
<1> QED BY <1>1, <1>2, <1>3, <1>5, <1>6, Zenon

\* A change of the directory withdraws the remount only with the file of a transfer
\* whose stream has not started.
LEMMA KeptDirChange ==
  ASSUME NEW mm \in MgrType, Kept(mm), NEW file \in Slots, NEW e, NEW allowed, NEW close
  PROVE  \/ Kept(DirChange(mm, file, e, allowed, close))
         \/ e.deleted /\ file = mm.xfer.file_to_program /\ ~mm.xfer.stream_started
<1> DEFINE changed == FileChange(mm, e.name, "changed", file, e, allowed, close)
           deleted == FileChange(changed, dir[file], "deleted", file, e, allowed, close)
           created == FileChange(changed, e.name, "created", file, e, allowed, close)
           u == UserFileChange(changed, dir[file], "deleted", allowed)
<1>1. DirChange(mm, file, e, allowed, close) \in
        {changed, created} \cup (IF e.deleted THEN {deleted} ELSE {})
  BY Zenon DEF DirChange
<1>2. SameFile(mm, mm.xfer)
  BY FieldTypes DEF SameFile, MgrType, TransferType
<1>3. file # NoFile
  BY VfsAssumption
<1>4. Kept(changed) /\ SameFile(changed, mm.xfer)
  BY <1>2, <1>3, KeptFileChange, SameFileChanged
<1> HIDE DEF changed
<1>5. Kept(created)
  BY <1>4, KeptFileChange
<1>6. Kept(deleted) \/ (file = u.xfer.file_to_program /\ deleted = ResetFileInfo(u))
  BY <1>4, KeptFileChange
<1>7. Kept(u) /\ SameFile(u, mm.xfer)
  BY <1>4, KeptUserFileChange, SameFileUserFileChange
<1> HIDE DEF u, created, deleted
<1>8. u.xfer.stream_started => Kept(ResetFileInfo(u))
  BY <1>7 DEF Kept, ResetFileInfo
<1>9. \/ Kept(deleted)
      \/ file = mm.xfer.file_to_program /\ ~mm.xfer.stream_started
  BY <1>6, <1>7, <1>8 DEF SameFile
<1> QED BY <1>1, <1>4, <1>5, <1>9, Zenon

LEMMA HostWritesKeep ==
  ASSUME TypeOK, Steady, CommandPending, HostWrites
  PROVE  CommandPending' \/ ForgetsTransfer
<1>1. m \in MgrType /\ DrivePair(m) /\ dir \in [Slots -> Names \cup {NoName}]
  BY DEF TypeOK, Steady, Sound
<1>2. m.vfs_state = "connected"
  BY DEF HostWrites, HostWritesEntry, HostWritesData, HostWriteCommon, Steady
<1>3. Kept(m)
  BY <1>1, <1>2 DEF Kept, DrivePair, CommandPending, MgrType
<1>4. Kept(m') => CommandPending'
  BY DEF Kept, CommandPending
<1>5. CASE HostWritesEntry
  <2>1. PICK file \in Slots, e \in Entries, allowed \in {Automation, TRUE},
             close \in CloseResults :
          /\ e.deleted => e.name = dir[file]
          /\ ~e.deleted => e.name # AssertTxt
          /\ e.hidden => ~e.deleted /\ StreamOf(e.name) # NoStream
          /\ IF Finished(m) THEN UNCHANGED <<m, dir>>
             ELSE LET d == DirChange(m, file, e, allowed, close)
                  IN /\ m' = IF Finished(d) THEN d
                             ELSE FileData(d, DirSector, NoStream, SUCCESS, close)
                     /\ dir' = [dir EXCEPT ![file] = IF e.deleted THEN NoName ELSE e.name]
    BY <1>5, Zenon DEF HostWritesEntry
  <2> DEFINE d == DirChange(m, file, e, allowed, close)
             f == FileData(d, DirSector, NoStream, SUCCESS, close)
             name == IF e.deleted THEN NoName ELSE e.name
  <2>2. m' \in {m, d, f} /\ (~Finished(m) => dir' = [dir EXCEPT ![file] = name])
    BY <2>1, Zenon
  <2>3. \/ Kept(d)
        \/ e.deleted /\ file = m.xfer.file_to_program /\ ~m.xfer.stream_started
    BY <1>1, <1>3, KeptDirChange
  <2> HIDE DEF d
  <2>4. Kept(d) => Kept(f)
    BY KeptFileData
  <2>5. CASE Kept(d)
    <3> HIDE DEF f
    <3> QED BY <1>3, <1>4, <2>2, <2>4, <2>5, Zenon
  <2>6. CASE Finished(m)
    <3>1. m' = m
      BY <2>1, <2>6
    <3> QED BY <1>3, <1>4, <3>1
  <2>7. CASE ~Kept(d) /\ ~Finished(m)
    BY <1>1, <2>2, <2>3, <2>7 DEF ForgetsTransfer
  <2> QED BY <2>5, <2>6, <2>7
<1>6. CASE HostWritesData
  <2>1. PICK sector \in Sectors \ {DirSector},
             kind \in IF m.xfer.stream_started THEN {NoStream} ELSE Streams \cup {NoStream},
             result \in WriteResults, close \in CloseResults :
          /\ m' = IF Finished(m) THEN m ELSE FileData(m, sector, kind, result, close)
          /\ vendor' = IF vendor = "open" /\ ~Finished(m) /\ kind # NoStream
                       THEN "clash" ELSE vendor
    BY <1>6, Zenon DEF HostWritesData
  <2>2. Kept(FileData(m, sector, kind, result, close))
    BY <1>3, KeptFileData
  <2> QED BY <1>3, <1>4, <2>1, <2>2, Zenon
<1> QED BY <1>5, <1>6 DEF HostWrites

LEMMA PeriodicKeeps ==
  ASSUME TypeOK, Steady, CommandPending, Periodic
  PROVE  CommandPending'
<1>1. CASE ~Changing(m)
  BY <1>1 DEF Periodic, CommandPending
<1>2. CASE Changing(m) /\ ~ReadyForStateChange
  <2>1. m' = Check(m, TransitionKnown(m))
    BY <1>2, Zenon DEF Periodic
  <2>2. m' = m
    BY <1>2, <2>1, KnownTransition, CheckHolds
  <2> QED BY <2>2 DEF CommandPending
<1>3. CASE Changing(m) /\ ReadyForStateChange
  <2>1. PICK close \in CloseResults : Transition(close)
    BY <1>3, Zenon DEF Periodic
  <2>2. m'.commanded => m.vfs_state # "connected" /\ m.commanded
    BY <1>3, <2>1, TransitionSteady
  <2> QED BY <2>2 DEF CommandPending
<1> QED BY <1>1, <1>2, <1>3

LEMMA AssertElsewhereKeeps ==
  ASSUME TypeOK, Steady, CommandPending, AssertElsewhere
  PROVE  CommandPending'
<1>1. m \in MgrType /\ DrivePair(m)
  BY DEF TypeOK, Steady, Sound
<1> DEFINE a == [m EXCEPT !.assert_set = TRUE]
<1>2. m' \in {m, a, Remount(a)}
  BY Zenon DEF AssertElsewhere, RaiseAssert
<1>3. /\ a.commanded = m.commanded /\ a.vfs_state = m.vfs_state
      /\ a.vfs_state_next = m.vfs_state_next /\ a \in MgrType
  BY <1>1 DEF MgrType
<1> HIDE DEF a
<1>4. /\ Remount(a).commanded = a.commanded /\ Remount(a).vfs_state = a.vfs_state
      /\ Remount(a).vfs_state_next \in {a.vfs_state_next, "reconnecting"}
  BY <1>3 DEF Remount, MgrType
<1> QED BY <1>2, <1>3, <1>4 DEF CommandPending

LEMMA DebugHostKeeps ==
  ASSUME TypeOK, Steady, CommandPending, DebugHost
  PROVE  CommandPending'
<1>1. m \in MgrType /\ m'.commanded = m.commanded
  BY DebugHostSteady DEF TypeOK
<1>2. CASE ~m.commanded
  BY <1>1, <1>2 DEF CommandPending
<1>3. CASE m.commanded
  <2>1. Kept(m)
    BY <1>1, <1>3 DEF Kept, CommandPending, MgrType
  <2>2. Kept(StreamOpen(m)) /\ Kept(StreamClose(m)) /\ Kept(Check(m, FALSE))
    BY <2>1, KeptAssert, KeptFields, KeptStreamClose, Zenon DEF StreamOpen
  <2>3. \A result : Kept(StreamWrite(m, result))
    BY <2>1, <2>2, KeptFields, Zenon DEF StreamWrite
  <2>4. Kept(m')
    BY <2>2, <2>3, Zenon DEF DebugHost, VendorOpens, VendorWrites, VendorCloses
  <2> QED BY <2>4 DEF Kept, CommandPending
<1> QED BY <1>2, <1>3

\* Once a command asked for a remount, it is pending until the drive leaves the bus; the
\* only step that withdraws it is a write of the directory that deletes the file of a
\* transfer whose stream has not started.
CommandKept == [][CommandPending => CommandPending' \/ ForgetsTransfer]_vars

THEOREM CommandsKept == Spec => CommandKept
<1> DEFINE step == CommandPending => CommandPending' \/ ForgetsTransfer
<1>1. TypeOK /\ Steady /\ [Next]_vars => [step]_vars
  <2> SUFFICES ASSUME TypeOK, Steady, [Next]_vars, CommandPending
               PROVE  CommandPending' \/ ForgetsTransfer
    BY Zenon
  <2>1. CASE HostWrites
    BY <2>1, HostWritesKeep
  <2>2. CASE Periodic
    BY <2>2, PeriodicKeeps
  <2>3. CASE AssertElsewhere
    BY <2>3, AssertElsewhereKeeps
  <2>4. CASE Boot
    <3>1. PICK img \in {"interface", "bootloader"} : m' = BootMemory(img, m)
      BY <2>4, Zenon DEF Boot
    <3> QED BY <3>1 DEF BootMemory, CommandPending
  <2>5. CASE UNCHANGED vars
    BY <2>5 DEF vars, CommandPending
  <2>6. CASE DebugHost
    BY <2>6, DebugHostKeeps
  <2> QED BY <2>1, <2>2, <2>3, <2>4, <2>5, <2>6 DEF Next
<1> QED BY <1>1, SteadyInvariant, PTL DEF Spec, CommandKept
=============================================================================
