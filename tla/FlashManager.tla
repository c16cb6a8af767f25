---------------------------- MODULE FlashManager ----------------------------
(***************************************************************************)
(* flash_manager.c: gathers the data of an image into blocks, erases the   *)
(* chip or each sector it enters, and programs the blocks through a flash  *)
(* interface (target_flash.c or iap_flash_intf.c) any call of which may    *)
(* fail.  flash_manager_data is split at the calls of the interface and at *)
(* each turn of its loop; `at' is where it stands.  An address is counted  *)
(* in units; a unit of flash holds old contents, is erased, or was         *)
(* programmed with the data of the session.                                *)
(***************************************************************************)
EXTENDS Naturals

CONSTANTS
  NumUnits,      \* bound: size of the flash
  SectorSize,    \* erase_sector_size, the same for the whole flash
  BufSize,       \* sizeof(buf)
  MaxSize,       \* bound: units passed to one flash_manager_data call
  MaxCalls,      \* bound: calls of flash_manager_data in a session
  Contiguous,    \* whether the decoder passes the data of a binary file; a hex
                 \* file may leave gaps and go back
  PageErase,     \* values page_erase_enabled takes
  Toggles        \* whether the debugger changes it during a session

ASSUME FlashAssumption ==
  /\ SectorSize \in Nat \ {0} /\ BufSize \in Nat \ {0} /\ NumUnits \in Nat
  \* util_assert: blocks divide sectors, or a sector fits the buffer
  /\ SectorSize % BufSize = 0 \/ SectorSize < BufSize
  /\ NumUnits % SectorSize = 0 /\ MaxSize \in Nat /\ MaxCalls \in Nat
  /\ Contiguous \in BOOLEAN
  /\ PageErase \subseteq BOOLEAN /\ Toggles \in BOOLEAN

Units == 0 .. NumUnits - 1
Addrs == 0 .. NumUnits
Contents == {"old", "blank", "data", "garbage"}

VARIABLES
  state,                     \* of the manager: "closed", "open", "error"
  page_erase_enabled,
  buf, buf_empty,            \* offsets of buf that hold data; the flag
  current_sector_valid,
  current_write_block_addr, current_write_block_size,
  current_sector_addr, current_sector_size,
  last_addr,
  at,                        \* where flash_manager_data stands, or "idle"
  addr, size,                \* its variables, while it runs
  flash,                     \* contents of the flash
  intf_open,                 \* the interface was initialised and not closed
  given, calls,              \* history: units passed in, calls of the session
  failed,                    \* history: a call of the interface failed
  success,                   \* the session ended without any error
  entered,                   \* history: sectors set up in the session
  losses                     \* history: the ways to lose data the session took

block == <<buf, buf_empty, current_write_block_addr>>
sector == <<current_sector_addr, current_sector_size, current_write_block_size>>
session == <<current_sector_valid, last_addr>>
history == <<given, calls, success>>
vars == <<state, page_erase_enabled, block, sector, session, at, addr, size,
          flash, intf_open, history, failed, entered, losses>>

RoundUp(a, n) == a + n - (a % n)   \* fault: the wrong end
RoundDown(a, n) == a - (a % n)
Smaller(a, b) == IF a < b THEN a ELSE b

Cleared ==
  /\ buf' = {} /\ buf_empty' = TRUE
  /\ current_sector_valid' = FALSE /\ last_addr' = 0
  /\ current_write_block_addr' = 0 /\ current_write_block_size' = 0
  /\ current_sector_addr' = 0 /\ current_sector_size' = 0

Init ==
  /\ state = "closed" /\ page_erase_enabled \in PageErase
  /\ buf = {} /\ buf_empty = TRUE
  /\ current_sector_valid = FALSE /\ last_addr = 0
  /\ current_write_block_addr = 0 /\ current_write_block_size = 0
  /\ current_sector_addr = 0 /\ current_sector_size = 0
  /\ at = "idle" /\ addr = 0 /\ size = 0
  /\ flash = [u \in Units |-> "old"] /\ intf_open = FALSE
  /\ given = {} /\ calls = 0
  /\ failed = FALSE /\ success = FALSE
  /\ entered = {} /\ losses = {}

(***************************************************************************)
(* The flash interface                                                     *)
(***************************************************************************)
\* program_page of a buffer that has data at the given offsets, 0xFF elsewhere
Programmed(start, offsets) ==
  [u \in Units |->
     IF u >= start /\ u - start \in offsets
     THEN IF flash[u] = "blank" THEN "data" ELSE "garbage"
     ELSE flash[u]]

Erased(start, length) ==
  [u \in Units |-> IF u \in start .. start + length - 1 THEN "blank" ELSE flash[u]]

\* intf->uninit
CloseIntf == intf_open' = FALSE

(***************************************************************************)
(* flash_manager_init                                                      *)
(***************************************************************************)
IntfAfterEraseFailedOpen == TRUE   \* fault: the interface is left open
IntfAfterEraseFailed == FALSE      \* intf->uninit()

Open ==
  /\ state = "closed" /\ at = "idle"
  /\ Cleared
  /\ given' = {} /\ calls' = 0 /\ success' = FALSE
  /\ entered' = {} /\ losses' = {}
  /\ \/ /\ state' = "closed" /\ failed' = TRUE /\ UNCHANGED intf_open   \* init fails
        /\ flash' = [u \in Units |-> "old"]
     \/ /\ page_erase_enabled
        /\ state' = "open" /\ failed' = FALSE /\ intf_open' = TRUE
        /\ flash' = [u \in Units |-> "old"]
     \/ /\ ~page_erase_enabled
        /\ state' = "open" /\ failed' = FALSE /\ intf_open' = TRUE
        /\ flash' = Erased(0, NumUnits)
     \/ /\ ~page_erase_enabled                                 \* erase_chip fails
        /\ state' = "closed" /\ failed' = TRUE /\ intf_open' = IntfAfterEraseFailed
        /\ flash' \in {[u \in Units |-> "old"], Erased(0, NumUnits)}
  /\ UNCHANGED <<page_erase_enabled, at, addr, size>>

(***************************************************************************)
(* flash_manager_data                                                      *)
(***************************************************************************)
Follows(a) == Contiguous => calls = 0 \/ a = last_addr

\* The decoder passes data for addresses it did not pass before.
Data ==
  /\ state = "open" /\ at = "idle" /\ calls < MaxCalls
  /\ \E a \in Units, n \in 0 .. MaxSize :
       /\ a + n <= NumUnits /\ Follows(a) /\ (a .. a + n - 1) \cap given = {}
       /\ addr' = a /\ size' = n
       /\ given' = given \cup (a .. a + n - 1) /\ calls' = calls + 1
  /\ at' = "first"
  /\ UNCHANGED <<state, page_erase_enabled, block, sector, session, flash,
                 intf_open, failed, success, entered, losses>>

\* a step of flash_manager_data that fails: it returns, and the decoder stops
Fails == state' = "error" /\ at' = "idle" /\ failed' = TRUE
Returns == IF at' = "idle" THEN addr' = 0 /\ size' = 0 ELSE UNCHANGED <<addr, size>>

BlockAfterFlushStays(a) == current_write_block_addr   \* fault: not moved
BlockAfterFlush(a) == RoundDown(a, current_write_block_size)

\* flush_current_block(a): the buffer is reset even if programming it failed
Flush(a) ==
  /\ buf' = {} /\ buf_empty' = TRUE
  /\ current_write_block_addr' = BlockAfterFlush(a)
FlushCurrentBlock(next) ==
  /\ Flush(addr)
  /\ \/ /\ flash' = IF buf_empty THEN flash ELSE Programmed(current_write_block_addr, buf)
        /\ at' = next
        /\ UNCHANGED <<state, failed>>
     \/ /\ ~buf_empty /\ Fails
        /\ flash' \in {flash, Programmed(current_write_block_addr, buf)}
  /\ UNCHANGED <<sector, intf_open, entered, losses>>

ErasedSectorForgotten(start) == flash   \* fault: no sector is erased
ErasedSector(start) ==
  IF page_erase_enabled THEN Erased(start, SectorSize) ELSE flash

\* setup_next_sector(addr): flash_algo_set, then erase_sector
SetupNextSector(next) ==
  LET start == RoundDown(addr, SectorSize)
  IN /\ current_sector_addr' = start /\ current_sector_size' = SectorSize
     /\ entered' = entered \cup {start}
     /\ losses' = losses \cup IF page_erase_enabled /\ start \in entered
                              THEN {"erased again"} ELSE {}
     /\ current_write_block_addr' = start
     /\ current_write_block_size' = Smaller(SectorSize, BufSize)
     /\ \/ /\ flash' = ErasedSector(start)
           /\ buf' = {} /\ at' = next
           /\ UNCHANGED <<buf_empty, state, failed, intf_open>>
        \/ /\ Fails /\ CloseIntf
           /\ flash' \in {flash, ErasedSector(start)}
           /\ UNCHANGED <<buf, buf_empty>>

FirstSector ==
  /\ at = "first"
  /\ \/ /\ ~current_sector_valid
        /\ SetupNextSector("block")
        /\ IF at' = "block" THEN current_sector_valid' = TRUE /\ last_addr' = addr
                            ELSE UNCHANGED session
     \/ /\ current_sector_valid
        /\ at' = "block"
        /\ UNCHANGED <<state, block, sector, session, flash, intf_open, failed, entered, losses>>
  /\ Returns
  /\ UNCHANGED <<page_erase_enabled, history>>

\* "non-increasing address support"
BlockOfLast ==
  /\ at = "block"
  /\ IF RoundDown(addr, current_write_block_size)
          # RoundDown(last_addr, current_write_block_size)
     THEN FlushCurrentBlock("sector")
     ELSE /\ at' = "sector"
          /\ UNCHANGED <<state, block, sector, flash, intf_open, failed, entered, losses>>
  /\ Returns
  /\ UNCHANGED <<page_erase_enabled, session, history>>

SectorOfLast ==
  /\ at = "sector"
  /\ IF RoundDown(addr, current_sector_size) # RoundDown(last_addr, current_sector_size)
     THEN SetupNextSector("loop")
     ELSE /\ at' = "loop"
          /\ UNCHANGED <<state, block, sector, flash, intf_open, failed, entered, losses>>
  /\ Returns
  /\ UNCHANGED <<page_erase_enabled, session, history>>

\* the head of the loop: flush if necessary
LoopFlush ==
  /\ at = "loop"
  /\ IF addr >= current_write_block_addr + current_write_block_size
     THEN FlushCurrentBlock("body")
     ELSE /\ at' = "body"
          /\ UNCHANGED <<state, block, sector, flash, intf_open, failed, entered, losses>>
  /\ Returns
  /\ UNCHANGED <<page_erase_enabled, session, history>>

LoopEnd ==
  /\ at = "body" /\ size = 0
  /\ at' = "idle" /\ last_addr' = addr
  /\ Returns
  /\ UNCHANGED <<state, page_erase_enabled, block, sector, current_sector_valid,
                 flash, intf_open, history, failed, entered, losses>>

\* change sector if necessary
LoopSector ==
  /\ at = "body" /\ size > 0
  /\ IF addr >= current_sector_addr + current_sector_size
     THEN SetupNextSector("copy")
     ELSE /\ at' = "copy"
          /\ UNCHANGED <<state, block, sector, flash, intf_open, failed, entered, losses>>
  /\ Returns
  /\ UNCHANGED <<page_erase_enabled, session, history>>

\* What fits into the block.  The subtraction is unsigned: behind the end of the
\* block the room left wraps around and everything is copied, past the buffer.
CopySize ==
  LET pos == addr - current_write_block_addr
  IN IF pos > current_write_block_size THEN size
     ELSE Smaller(size, current_write_block_size - pos)

LoopCopy ==
  /\ at = "copy"
  /\ LET pos == addr - current_write_block_addr
     IN buf' = buf \cup ((pos .. pos + CopySize - 1) \cap (0 .. BufSize - 1))
  /\ buf_empty' = (CopySize = 0)
  /\ losses' = losses \cup IF addr - current_write_block_addr > current_write_block_size
                           THEN {"overrun"} ELSE {}
  /\ addr' = addr + CopySize /\ size' = size - CopySize
  /\ at' = "loop"
  /\ UNCHANGED <<state, page_erase_enabled, current_write_block_addr, sector, session,
                 flash, intf_open, history, failed, entered>>

(***************************************************************************)
(* flash_manager_uninit, and flash_manager_set_page_erase                  *)
(***************************************************************************)
UninitResult(written, closed) == closed /\ written

Close ==
  /\ state # "closed" /\ at = "idle"
  /\ \E written \in BOOLEAN, closed \in BOOLEAN :
       LET flushed == state = "open" /\ ~buf_empty
       IN /\ ~written => flushed
          /\ flash' \in IF ~flushed THEN {flash}
                       ELSE {Programmed(current_write_block_addr, buf)} \cup
                            (IF written THEN {} ELSE {flash})
          /\ failed' = (failed \/ ~written \/ ~closed)
          /\ success' = (state = "open" /\ UninitResult(written, closed))
  /\ CloseIntf
  /\ Cleared
  /\ state' = "closed"
  /\ UNCHANGED <<page_erase_enabled, at, addr, size, given, calls, entered, losses>>

\* The vendor commands of the debugger.  They come between two calls of the decoder,
\* which initialises the manager and passes the first data in one.
SetPageErase ==
  /\ at = "idle"
  /\ state = "closed" \/ (Toggles /\ given # {})
  /\ page_erase_enabled' \in PageErase \ {page_erase_enabled}
  /\ losses' = IF state = "closed" THEN losses ELSE losses \cup {"toggled"}
  /\ UNCHANGED <<state, block, sector, session, at, addr, size, flash, intf_open,
                 history, failed, entered>>

DataStep == \/ FirstSector \/ BlockOfLast \/ SectorOfLast
            \/ LoopFlush \/ LoopEnd \/ LoopSector \/ LoopCopy
Next == Open \/ Data \/ DataStep \/ Close \/ SetPageErase

Spec == Init /\ [][Next]_vars

\* a call runs until it returns; nobody owes one
FairSpec == Spec /\ WF_vars(DataStep)

(***************************************************************************)
(* Properties                                                              *)
(***************************************************************************)
\* Every variable keeps its type.
TypeOK ==
  /\ state \in {"closed", "open", "error"}
  /\ page_erase_enabled \in BOOLEAN /\ buf_empty \in BOOLEAN
  /\ current_sector_valid \in BOOLEAN /\ intf_open \in BOOLEAN /\ failed \in BOOLEAN
  /\ success \in BOOLEAN
  /\ buf \subseteq 0 .. BufSize - 1 /\ flash \in [Units -> Contents]
  /\ current_write_block_addr \in Addrs /\ current_sector_addr \in Addrs
  /\ last_addr \in Addrs /\ addr \in Addrs /\ calls \in 0 .. MaxCalls
  /\ current_write_block_size \in 0 .. BufSize
  /\ current_sector_size \in 0 .. SectorSize /\ size \in 0 .. MaxSize
  /\ at \in {"idle", "first", "block", "sector", "loop", "body", "copy"}
  /\ given \subseteq Units /\ entered \subseteq Units
  /\ losses \subseteq {"erased again", "toggled", "overrun"}

\* docs/USERS-GUIDE.md: a file copied to the drive is programmed, or FAIL.TXT appears.
\* Here: when the session ended without an error, all the data that was passed in
\* is in the flash.
ImageWritten == success => \A u \in given : flash[u] = "data"

\* It holds for every image, in whatever order its data comes and whatever calls of
\* the interface fail, unless the session erased a sector a second time, switched the
\* erase mode, or jumped behind the block at the start of a new sector.
ImageWrittenUnlessLost == losses = {} => ImageWritten

\* Unless the erase mode was switched nothing is programmed over old contents, and
\* nothing but the data passed in is programmed anywhere.
ProgramsErased ==
  \A u \in Units : /\ flash[u] = "garbage" => "toggled" \in losses
                   /\ flash[u] = "data" => u \in given

\* A failure of any call of the interface is reported: such a session is no success.
FailureReported == failed => ~success

\* A closed manager leaves no interface open, whatever failed.
InterfaceReleased == state = "closed" => ~intf_open

\* iap_flash_intf.c:135 asserts that a closed interface is not closed again, which
\* flash_manager_uninit does with any manager that is not closed itself.
ClosesInterfaceOnce == state # "closed" => intf_open

\* Every call of flash_manager_data returns, whatever its address and size.
CallsReturn == at # "idle" ~> at = "idle"
=============================================================================
