# A verification model of DAPLink

DAPLink is the firmware of an on-board debug probe. Over one USB connection it
offers a mass-storage drive onto which a firmware image is dropped, a CMSIS-DAP
debug channel (bulk and HID), and a serial port. This directory holds TLA+ models
of its core logic, the TLC configurations that check them, and TLAPS proofs. Paths
below are relative to `source/` of the repository unless they start with `docs/`.

Contents: [Inventory](#inventory), [Modules and code](#modules-and-code),
[Runs](#runs), [Disagreements found](#disagreements-found), [Proofs](#proofs),
[What is not modelled](#what-is-not-modelled), [Plan](#plan).

To check one run: `tlc -workers 2 -config Bulk.cfg BulkDap`. To check the proofs: `tlapm M.tla`
with M one of `RingProofs`, `BulkProofs`, `HidProofs`, `VfsManagerProofs`, `BootProofs`,
`FlashProofs`, `TargetProofs` and `UartProofs`. In the text "tick" is the 90 ms event of the
main task.

## Inventory

Almost all of the firmware runs in one task, `main_task` (`daplink/interface/
main_interface.c`), that waits for event flags: USB events, the 90 ms tick, the
30 ms tick, and the serial port's own event. A handler runs to its end before the
next starts, so between handlers of the main task there is ordering but no
interleaving. What truly interleaves with it are interrupt handlers (UART, SysTick,
USB, which only queues events), the host on the other side of each endpoint, the
target, and resets.

| Component | State | Operations | Hard behaviour | What makes it correct |
|---|---|---|---|---|
| Drive manager (`daplink/drag-n-drop/vfs_manager.c`) | the transfer, drive state and pending drive state, idle time, verdict | USB sector writes, file change callbacks, tick, remount requests | the host writes directory and data in any order, more than once, deletes and renames in between; timeouts; a handler that concludes the transfer half way; a debug host that uses the same stream | no assertion fails, the stream is neither leaked nor closed twice, the verdict is final and a success is complete, every transfer ends |
| File stream (`file_stream.c`) | closed, open, end, error; the current stream | open, write, close | a write that ends the stream inside a transfer step | called only in the states it allows |
| Drive contents and command files (`vfs_user.c`) | settings RAM, remount wish | file created or deleted, leaving the drive | a command while a transfer runs; a reset while leaving | every command remounts |
| Virtual FAT (`virtual_fs.c`) | layout, current directory | read, write sector | directory sectors are diffed against the old one | changed, deleted, created reported once each |
| Assertions (`daplink/util.c`) | assertion record in RAM that survives a reset | assert, clear | from interrupt handlers too | shown once |
| Settings (`daplink/settings/`) | RAM copy, flash page | get and set | a power cut between erase and program | a setting is old or new |
| Flash manager (`flash_manager.c`) | state, one block buffer, current sector and block | init, data, uninit, set page erase | any interface call fails; gaps; going back; erase mode switched meanwhile | what a success reports is in the flash; failures are reported |
| Flash decoder (`flash_decoder.c`) | buffered vector table, detected type | open, write, close | detection over partial data | data goes to the right flash |
| IAP interface, bootloader update (`iap_flash_intf.c`, `interface/bootloader_update.c`, `bootloader/main_bootloader.c`) | update state, current sector and page, CRC, the first sector's new contents | init, uninit, sector and chip erase, program; the update check at start | power cuts and failing flash operations anywhere in the replacement of the image that starts the chip | an image that starts at any time; what is reported as done is done; an interrupted update is taken up |
| Target flash interface (`interface/target_flash.c`, part of `interface/swd_host.c`) | open or closed, current algorithm and function; behind them the target's pins, core and RAM | init, uninit, set region, erase, program | drag-n-drop, erase.act, the reset button, the serial break and a vendor command all act on one target; any operation fails | no function runs without its algorithm in place; a success was written |
| Request queue (`daplink/cmsis-dap/DAP_queue.c`) | ring, two counters, two indexes | execute, get response | slot freed before its response was copied | responses in order, none overwritten |
| CMSIS-DAP over bulk (`usb/bulk/usbd_bulk.c`) | idle flag, receive length | OUT and IN endpoint events | OUT and IN events in either order; a bus reset the driver is not told of | one answer per request, in order |
| CMSIS-DAP over HID (`usb/hid/`) | idle flag, report in flight | OUT, IN, SOF, Get_Report, configure | three readers of one queue; a wait loop in the task that must end it; bus reset | as above, no endless wait |
| CMSIS-DAP interpreter, SWD/JTAG, SWO (`daplink/cmsis-dap/`) | port configuration, trace buffer | commands | protocol with the target | outside these models |
| Byte ring and serial bridge (`daplink/circ_buf.c`, `daplink/usb2uart/`, `hic_hal/*/uart.c`) | two rings, transmit interrupt enable | copy loops in the main task, UART interrupt | the interrupt handler pops what the main task counted | nothing overflows, order kept, loss announced, line served |
| USB CDC and MSC classes (`usb/cdc`, `usb/msc`) | endpoint buffers, bulk-only phases | endpoint events, resets | host errors and resets between phases | phases follow the standard |
| Main task state machine (`main_interface.c`) | USB state, countdowns, reset button | ticks | host that never configures | connects and resets once |

How they interact: the MSC class calls `usbd_msc_write_sect` in the drive manager,
which calls the virtual FAT, whose callbacks come back to the drive manager and to
`vfs_user.c`, all in one call chain. The drive manager feeds the stream, the stream
the decoder, the decoder the flash manager, the manager one of two flash
interfaces. The drive manager is entered by `vfs_mngr_periodic`, by USB events and, through
`vfs_mngr_fs_remount`, by an assertion anywhere. The stream has a second entry: the vendor
commands `ID_DAP_MSD_Open`, `_Write` and `_Close` of `DAP_vendor.c` call `stream_open`,
`stream_write` and `stream_close` for a debug host, past the drive manager. The debug
endpoints call the queue and the interpreter. The serial bridge shares two rings
with the UART interrupt. `PROJECT.json` lists the components with their status and
the hazards, each at its line.

## Modules and code

**VfsManager** models `vfs_manager.c` with the outer machine of `file_stream.c`, the command
files of `vfs_user.c`, `write_dir`'s callbacks, `util_assert`, and reset and boot of both
images. The record `m` is the memory its handlers share: `m.xfer` is `file_transfer_state` field
by field. Handlers are operators from memory to memory with the names of the C functions
(`UpdateState` is `transfer_update_state`), so a handler with all the calls it makes is one
action: `HostWritesEntry` and `HostWritesData` are one `usbd_msc_write_sect`, `Periodic` is one
`vfs_mngr_periodic`, `AssertElsewhere` an assertion of other code, `Boot` what follows
`SystemReset`. `VendorOpens`, `VendorWrites` and `VendorCloses` are the stream commands of a
debug host, which may come between any two of these; the history variable `vendor` says whether
the debug host has a stream open, and turns to "clash" once its use of the stream met the
drive's (either found the other's stream open) or broke the order open, write, close. Nothing in
the code keeps the two apart, so what the asserts of `file_stream.c` demand can be promised only
up to that point, and is. What a stream answers to a write or a close is chosen by the
environment, independently, also when one write opens the stream and closes it (its parser is
not in this module), as are the names, sizes and start sectors the host writes. A directory
sector with several changed entries is a sequence of one-entry writes; a USB transfer of several
sectors a sequence of one. Real time is ticks: each delay is at most the largest idle time that
is counted, as the code's compile-time assertions demand.

**DapQueue** is `DAP_queue.c` as operators on a record. A response is the number of its
request, which is all the properties tell apart. **BulkDap** composes it with the
endpoint handlers of `usbd_bulk.c`, a host and the two endpoint buffers: `HandleOut`
and `HandleIn` are the two events, a request may take several packets, and `BusReset` is a reset
of which `usb_lib.c` tells this driver nothing.
**HidDap** composes it with `usbd_user_hid.c` and the endpoint part of `usbd_hid.c`:
besides the two events there are the idle timer (`StartOfFrame`), Get_Report on the
control pipe (`HostGetsReport`), abort reports and bus resets. The frozen variable
`host` says what the host does. Set_Report on the control pipe calls the same
handler as the OUT endpoint and is not separate.
**DapService** is the abstract specification of both: as long as the host leaves at
most `Window` requests unanswered, each is answered once, in order.

**FlashManager** is `flash_manager.c`. `flash_manager_data` is split at each flash
interface call and each turn of its loop (`at` says where it stands). A failing call
may have done its work or nothing. A unit of flash is old, blank, data or garbage
(programmed twice or over old contents); the whole flash has one sector size.
`losses` is history: it records that the session set up a sector a second time with
page erase on ("erased again"), that the erase mode was switched while it was open
("toggled"), or that a copy ran past the block buffer ("overrun").

**IapFlash** holds the state of `iap_flash_intf.c`, the chip's flash and what an operation
makes of it, with the checks of each call as operators. A page of flash holds its part of
an image, which is the version of that image, or it is blank, the interface's vector table,
or garbage; so the CRC of what was received is the version all of it belongs to. **BootUpdate**
is the behaviour: the bootloader's start (`PowerOn`: `main` of `main_bootloader.c` and
what the chip does with the first page), the update check (`CheckUpdate`), images dropped on
either drive (`DropBegins`, `DropCalls`: calls in any order, as the decoder may make them), and
`iap_flash_intf.c` cut at each operation of the chip (`iap.at`): `EraseSector`, `ProgramVectors`,
`ChipStep`, `ProgramPage`, and the two halves of `critical_erase_and_program` (`EraseFirst`,
`ProgramFirst`). Every operation may succeed, fail having damaged its pages or not, or be cut
by the power; `PowerCut` cuts between two. `lost` is history: the first sector was hit inside
one of the two critical sections, for which nothing can be promised.

**TargetFlash** is `target_flash.c`, whose handlers run to their end in the main task. A call is
an operator from a machine (the C variables, and the target: pins, core, the algorithm in RAM
and the function it is initialised for, the flash) to the set of its outcomes, so that one
action is one handler with all it calls: the flash manager's session (`SessionOpens`,
`SessionEnters`, `SessionPrograms`, `SessionCloses`), an erase by erase.act or by
`file_data_handler` (`OthersErase`), button, serial break, main task and vendor command that
reset the target, and settings. A function that does not stop in time fails and leaves the core
running (`RunsOn`), so that every later call fails until somebody resets the target. `wrong` and
`unclosed` are history: a function called on an algorithm that was not loaded or not initialised
for it, and a close that failed.

**CircBuf** is `circ_buf.c` as operators; **UartBridge** composes two rings with
`cdc_process_event`, the k20dx driver and its interrupt handler. Every critical
section is a step of its own, because the handler can run between any two of them;
`circ_buf_read` and `circ_buf_write` count once and then move byte after byte. Bytes
are numbered; 0 is a byte of the overflow message. The setting for overflow detection
is a frozen variable, so one run covers both.

Definitions whose comment says `fault:` are deliberate mistakes (a dropped guard, a
missing reset). Putting one in place of the definition below it must break the
property it is listed with in `PROJECT.json`; they are used for nothing else.

## Runs

| Run | What it asks | Bounds, and why they suffice |
|---|---|---|
| `VfsTransfer` | Transfers: no assertion fails, stream ownership, verdict final, detach only when quiet, success complete; once the host is silent, every transfer ends | two entries, a binary name (data of either kind, so the kinds can conflict), two data sectors, sizes that are empty and that span both sectors, idle time up to 2 ticks with delays of 0 and 1: short and long delay are distinct, and files start at the first or the last sector, so data comes before, in and behind its file. A debug host that uses the stream is left to `VfsCommands`: it could keep a transfer's stream from opening |
| `VfsCommands` | All kinds of command files beside an ordinary one, stream commands of a debug host in any order, assertions in and outside interrupt handlers, resets of both images: no assertion of the drive or the stream fails and none is leaked before the debug host met the drive, drive state and medium agree in any case, every command remounts | one entry; no file has a firmware name (see `VfsCommandLost`), but data that looks like one still starts transfers, so the stream has two users. The delays are all 0: `VfsTransfer` tells them apart |
| `Bulk` | The ring, the idle flag, no response overwritten, no request dropped or response stranded unless a bus reset cut one short; implements `DapService` for a plain host | three slots, a window of three, seven requests of one to three packets, up to two bus resets by one of the two kinds of host: the ring goes round twice and fills |
| `Hid` | The same service over HID, for a plain host and one that resets the bus while another program reads the control pipe; no endless wait, and the assertion fails only after a reset | as above, one bus reset, idle timer on |
| `Flash` | A success means the data is in the flash (unless a named loss happened), nothing programmed over old contents, interface released, calls return | two sectors of two blocks of two units, three calls of up to five units at any addresses in any order, chip and page erase and switches between them: calls end inside, at and behind block and sector ends |
| `Uart` | Rings against the interrupt handler, with and without overflow detection: no assertion, order kept, no silent loss, the line is served | rings of five places, copies of up to three bytes, overflow message of two, six bytes each way: the rings fill, wrap and drop |
| `Boot` | Replacing the images: whenever the power fails outside the critical sections something starts; a reported success is a whole bootloader; an interrupted update is taken up again | regions of three sectors of two blocks: a first, a middle and a last sector, each with a first and a last block; two versions, so images can be older, newer, equal, and mixed; power cuts, failures and drops are not bounded |
| `Target` | Algorithms run only where they are loaded and initialised, a success was written, the busy flag tells | two regions whose algorithms differ in each property (initialised per function or once, own verify or read back, buffer smaller than a block or not), so that every change of algorithm and function occurs; the board re-initialises after a chip erase, which includes the state a board without it is in, because a session with page erase skips the erase; actors and failures are not bounded |
| `VfsCommandLost`, `HidBusReset`, `FlashGap`, `FlashDoubleClose` | the disagreements below | the smallest instances that show them |

The bounds on requests, bytes, calls and resets are the constants `MaxRequests`,
`MaxBytes`, `MaxCalls` and `MaxResets`; deadlock is not checked where a bounded
host simply stops. `Boot` and `Target` have no such bound, and there it is checked.

**Fairness.** `VfsManager`: weak fairness of `Periodic` and `Boot` only; the main loop
handles its tick event whatever the host does, and a device that was reset boots. The
hosts are never fair: the liveness properties assume instead that it falls silent
(`HostSilent`), because a host that writes forever rightly keeps the drive.
`CommandsRemount` is about the commands that ask for a remount; ASSERT.ACT does not ask, its
assertion does.
`BulkDap` and `HidDap`: weak fairness of the endpoint events, which the USB stack
queues and the main task handles, and of the host's reads: the service is promised to
a host that reads. `UartBridge`: the main task, whose event sets itself again, and the
transmit interrupt once enabled. `FlashManager`: a call under way goes on; nobody owes
the next call. `BootUpdate`: the update check and its calls (`CheckUpdate`, `Step`), which are
one loop of code before the main task starts. Neither a start (`PowerOn`) nor the person who
drops files is fair, nor is a power failure; `SelfHeals` allows for it instead.

## Disagreements found

Each is a run that TLC must find violated, with the code line in `PROJECT.json`.

* `VfsCommandLost`: `docs/MSD_COMMANDS.md:19` says every command completes by
  remounting. Deleting a file with a firmware extension before the drive has left (20 s while
  its transfer is in progress) withdraws any pending remount, the command's too: `abort_remount`
  (`vfs_manager.c:561`) does not know who asked for it.
* `HidBusReset`: after a bus reset with a report in flight the driver never becomes
  idle again, the ring fills, and the assertion in `usbd_hid_set_report` fails although
  the host keeps to the packet count. `Hid` shows that it cannot fail without a reset.
* `FlashGap`: data that ends at a sector end, followed by data behind the first block
  of the next sector, is copied past the block buffer and lost, and the session
  succeeds.
* `FlashDoubleClose`: a failed sector erase closes the interface and closing the manager
  closes it again, which the IAP interface asserts against.

The bulk driver has the defect of `HidBusReset` too. A bus reset takes the response in flight
and its event; `usb_lib.c` tells only the CDC and mass-storage classes of a reset (and HID of
the configuration that follows), so `USB_ResponseIdle` stays false, responses wait in the ring
with nothing to send them, and once it is full requests are dropped unanswered
(`usbd_bulk.c:79`). A reset between two packets of a request leaves the driver with its receive
length. There is no assertion to fail; `DroppedOnlyAfterCut` and `StrandedOnlyAfterCut` state
that this needs a reset that came while a request or a response was under way, and that a reset
of an idle driver does no harm.

The stream commands of `DAP_vendor.c` (line 149) check nothing: a debug host that opens, writes
or closes a stream while the drive has one open, or out of order, makes the assertions of
`file_stream.c` (lines 138, 163, 191) fail, can close the stream of a transfer under it, or
leaves one open that makes the next transfer fail. `NoAssertFails` and `StreamOwned` name this
as their only exception.

Met while modelling and covered by the guard of `ImageWrittenUnlessLost` rather than by
runs of their own: with page erase, an image that returns to a sector it left erases
what it programmed there ("erased again"; `flash_manager.c:139` says that
non-increasing addresses are supported), and switching the erase mode in the middle of
a session leaves sectors unerased ("toggled"). Also, the comment at `vfs_manager.c:83`
says that the recorded file size only increases; `transfer_update_file_info` assigns
any size that is zero or not below what was received.

In `target_flash.c`, each read off the model while writing it:

* `target_flash_program_page` initialises the algorithm for programming once, before its loop
  over chunks of the program buffer. If the algorithm has a verify function and automation is
  allowed, verifying the first chunk initialises it for that, and the next chunk is programmed
  without going back. It takes a buffer smaller than the flash manager's block, as the
  board files of GR-PEACH, GR-Lychee, the QSPI of Musca A and B, and M252KG have. `AlgorithmReady`
  names this as its only exception, and the algorithms that can meet it: initialised for each
  function, verifying, with a small buffer (`AlgorithmAlwaysReady` proves both).
* An algorithm whose UnInit fails leaves `state` open when the session has closed: the button and the
  serial break then do nothing until the next session (`BusyTells` states exactly when).
* The button and the break ask whether the flash is busy when they begin, and reset the target
  when they end. A session may have begun in between; it fails, or ends with its data
  written (`SuccessIsWritten`), but the target is reset under it.
* `file_data_handler` erases the target before the decoder has seen whether the image is for
  the target at all; an image for DAPLink itself erases it too.

## Proofs

TLAPS checks the following for every value of the constants that satisfies the named
assumptions; TLC evaluates those assumptions in the runs.

**`BulkProofs`** (from `PacketCountAssumption` and `BulkAssumption`: at least one slot; a window
no larger than the ring, which is what DAP_Info reports). The inductive invariant `IInv` has
four parts besides types. The order of the ring (`RingHolds`) and `Endpoint` (an idle driver has
nothing in flight and nothing in the ring) survive bus resets, and with them that no response is
overwritten. `Accounted` holds until a reset cuts a request or a response short: a busy driver
has an event to come, host and driver agree on the packets of the next request, and every
unanswered request is in exactly one place, which together with the window bounds the ring. A
reset that cuts nothing short finds the driver idle, so the ring is empty and all of this is
true of it again. `PlainInOrder` is what a host that never resets sees. The lemmas
`SentLeavesRing` and `ExecutedEntersRing` (in `RingProofs`, which serves both USB classes) say
what the two queue operations do to a ring that holds its responses in order; both rest on
`SlotWraps`, which turns the remainder into a comparison. One lemma per action follows.
Theorems: type correctness, each of the run's invariants (`CutBeforeDrop`, `CutBeforeStranded`
and their siblings), and `AnswersInOrder`: for a plain host the initial state and every step of
the driver map to `DapService`, the safety half of `ImplementsService`.

**`HidProofs`** (from `PacketCountAssumption` and `HidAssumption`) rests on the same lemmas.
`NeverHangs` is part of `Endpoint`: the driver's record of the report in flight agrees with the
endpoint, and the driver is idle only with nothing in flight and nothing in the ring. The last
is needed because the start-of-frame timer sends from the ring without making the driver busy.
`Endpoint` and the order of the ring survive bus resets; the count of requests (`Accounted`) does
not, and this is exactly where the assertion can fail: `ResetBeforeAssert` proves it cannot
before. For a plain host `AnswersInOrder` is the safety half of `ImplementsService`.

**`UartProofs`** (from `SizeAssumption` and `UartAssumption`): every safety property of the
`Uart` run and `NoSilentLoss`, for rings, messages and chunks of any size. First the ring:
`PushAppends`, `PopRemoves` and `RunAppends` say what the operations do to its i-th byte.
`Counts` says what the main task may rely on between two critical sections: the bytes it counted
are still there, although the handler may have replaced them, and the room it counted has only
grown. `Ordered` is the order of the read ring with what was taken and what came. `NoSilentLoss`
needs `NoGaps`: between two bytes in the ring that are not neighbours, in front of the first and
behind the last there is a whole message, and less than the place for one is free only behind
one. `Push`, `Pop`, the message and a dropped byte each keep it (`NoGapsPush` and its siblings).

**`VfsManagerProofs`** (from `VfsAssumption`): type correctness and every safety property of the
drive manager's runs, for any number of entries, sectors, sizes and delays. One lemma per
handler says that it maps memories to memories; a second one says that it leaves a memory
`Sound` that it found so. `Sound` is what holds between two events: `Linked` (a started stream
has a start sector; a sector out of order has one too, which is the second assertion of
`transfer_update_state`; a stream that ended could end there), `DrivePair` (which transitions
can be pending), `Owned` until the debug host and the drive met (no assertion failed, and the
stream is open exactly for the transfer or exactly for the debug host), a finished transfer owns
none and, if it succeeded, is `Whole`. `Sound` has the debug host's use of the stream as a
parameter; that it grows weaker when that turns to "clash" is `SoundClash`, and so every handler
is proved once, for a stream of its own and for one that is anybody's. Inside a handler `Sound`
does not hold (a write has ended or broken the stream and nobody has closed it, and the close
may fail as well, also in the write that opened the stream), so `transfer_update_state` is
proved from the weaker `Ready`, and `SoundUpdateState` is the lemma the others rest on. The
inductive invariant `Steady` adds that away from the bus no transfer owns a stream (so building
the file system anew forgets none) and that the idle time never exceeds the time the host was
quiet. Theorems: `AssertsHold`, `StreamsOwned`, `DriveAgrees`, `DetachesQuietly`,
`VerdictsFinal`, `SuccessesComplete`. `CommandsKept` says what is left of the statement that
`VfsCommandLost` refutes: once a command asked for a remount it stays pending until the drive
leaves the bus, unless the host deletes the file of a transfer whose stream has not started.
`Kept` is the fact about a memory that every handler but `transfer_reset_file_info` hands on;
that the file deleted is the one the transfer was about before the write needs `SameFile`,
because each entry is handled as "changed" first, and only then as "deleted".

**`BootProofs`** (from `IapAssumption`: a region is a whole number, at least two, of sectors of
at least one block; versions are positive numbers): `TypeCorrect`, `AlwaysRecoverable` and
`TrueVerdict`, for regions of any size, any versions, any sequence of calls, failures and power
cuts. None of the three is inductive. That the chip starts after a cut needs to know what the
first sector holds at each point of the replacement (`Placed`): the interface's vectors from the
moment the first sector was erased until the end, then the new contents. That these complete a
bootloader needs to know that the other sectors hold one image when the CRC of what came was
right (`Copied`), which in turn needs that every block was blank when it was programmed; and
that needs the order of sectors and pages that the calls enforce (`Sectors`). `Images` says that
whatever runs is there, because the region that runs is never written. Together with types and
who may be writing (`Calm`) this is `IInv`. `ErasesNext` and `ProgramsNext` say what a call that
passed all checks may rely on; `OperationStops` treats every failure and every cut of the power
at once, `GoesOn` what success leaves alone; then there is one lemma per action.

**`FlashProofs`** (from `FlashAssumption`: blocks divide sectors or a sector fits the buffer,
sectors divide the flash): type correctness and the three safety properties of the `Flash` run,
for flash, sectors, blocks, calls and sessions of any size, any addresses in any order, and any
call of the interface failing. `ImageWrittenUnlessLost` is a statement about the end of a
session; what makes it inductive is where every unit is before that. `Given` and `Written`: a
unit that was passed in is pending in the call, in the buffer, or programmed, and never two of
these. `Blocks` says where the buffer lies at each point of `flash_manager_data`: in the current
sector, or empty and ahead of a change of sector that is still to come; this is why changing the
sector, which resets the buffer without flushing it, drops no data (`SetupKeeps` needs `buf =
{}` and each caller must supply it). `Blankness` says which units are erased, and so why a block
that is programmed lies on erased flash unless the erase mode was switched. A sector erased
twice, a mode switched and a copy past the end of the block are the only steps that break the
chain: the theorem shows that the list of losses in the property is complete. The arithmetic
rests on five lemmas about rounding (`RoundsDown`, `Apart`, `RoundIs`, `SectorMultiple`,
`BlockInSector`); `Stops` treats every failure, `Passes` every step that only moves on, and then
there is one lemma per action.

Two more theorems say when the manager keeps the statements that `FlashGap` and
`FlashDoubleClose` refute. `BinaryImagesWritten`: if the data is contiguous, as that of a binary
file is, a session without an error wrote all of it, unless the erase mode was switched. It
needs that data leaves a sector only at its end (`ContiguousData`), so the next one is entered
at its first unit, no copy starts behind its block, and no sector is entered twice.
`ClosesOnceUnlessFailed`: while no call of the interface failed, closing the manager finds the
interface open.

**`TargetProofs`** (from `TargetAssumption`: at least one region): type correctness, the other
two invariants and the action property of the `Target` run, for any number of regions and any
mix of algorithms. One lemma per call says what all its outcomes leave, in three degrees.
`Sound` holds always: a function noted as started has its algorithm in RAM, if the target
answers at all. `Started` (the algorithm is initialised for it) is lost when Init fails after
UnInit, because `last_flash_func` still names the function before; `Loaded` (the current
algorithm is in RAM) when a download fails. The invariant needs no more than this: an open
session, which goes on calling, finds all three (`Ready`), and a session that failed only closes
the interface, for which `Sound` suffices. That an erase by somebody else leaves `Ready` under
an open session (`EraseTargetOutcomes`) is the step a reader would doubt: after the erase
started one function only, a close that fails leaves that function initialised.
`SuccessIsWritten` becomes inductive as `WrittenInv`: every verified block is written until the
end, because a block that is entered again is no longer counted. The loop over the regions is a
recursive function; `AfterRegionsExists` and `RegionsErasedOutcomes` are inductions from the
least counterexample (`Least`).

`FlashProofs` also proves that every failed call makes a session end in an error
(`FailuresReported`).

Every invariant and action property of the passing runs is proved, and for each disagreement a
condition under which the statement does hold (`ResetBeforeAssert` for `HidBusReset`). Only
model-checked: liveness and `ENABLED` (`TransfersConclude`, `CommandsRemount`, `CallsReturn`,
`LineServed`, `SelfHeals` and the fair half of `ImplementsService`), because the prover has no
rules for them here.

## What is not modelled

* The parsers inside the streams and the decoder: an answer is any answer, a decoded image any
  sequence of calls that starts where an image of its kind does. `intelhex.c` turns bytes into
  records without shared state, which tests can enumerate better than a model.
* `sync_mutex` of the drive manager: all its users run in the main task.
* The contents of DETAILS.TXT, FAIL.TXT and other generated files, LEDs, strings.
* The UART commands of `DAP_vendor.c`. `ID_DAP_UART_Write` (line 114) ignores how many bytes
  `uart_write_data` took, so what the ring has no room for is lost; `ID_DAP_UART_Read` (line 103) is a second
  reader of the read ring. Both run in the main task, between two turns of `cdc_process_event`.
  The properties of `UartBridge` are about the serial port, without them.
* A debugger that works on the target through CMSIS-DAP while a drag-n-drop session, a command or a
  reset does: `TargetFlash` has every other actor on the target.
* Bytes with framing or noise errors (dropped by the driver before the ring), the
  break signal on the line itself, and the DMA variants of the UART drivers.
* Flash with sectors of different sizes. The code recomputes the sector size at each
  sector, so a boundary between sizes is a sector boundary like the others.
* Regions of a target that share one algorithm (Musca, M467): `target_flash_set` does not
  initialise it again for the second region, although its Init gets the address of the
  first. `TargetFlash` gives every region an algorithm of its own.
* The wire protocols (SWD, JTAG, SWO): timing and bits on pins, below what TLC can look at.
* The settings page: an unreadable page is replaced by the defaults, and nothing else depends on
  it. page_on.act, which changes the setting in RAM and not the flash manager's copy, is one
  missing assignment; `FlashManager` has both modes and switches between them.
* USB CDC and MSC classes, USB core and real-time kernel: vendored (ARM RL-USB and RTX). Chip
  and board support (`hic_hal`, `board`, `family`) is generated headers and register
  access, by far the most of the repository's lines: constants and bit fields, without
  behaviour a state machine could show.

## Plan

What is left, in this order; each new run would answer a question no present one does.

1. `FlashDecoder` composed with `FlashManager` and with either flash interface: the decoder supplies
   the calls that `Data` and `DropCalls` now choose.
2. `MainTask`: the USB connect state machine and the countdowns, whose hazard is a host that
   configures the device late or never.
3. `MscTransport`, `CdcClass`: bulk-only phases; the buffers in front of `UartBridge`.
4. Theorems about those modules; first that the decoder passes a binary file as contiguous data,
   which `BinaryImagesWritten` assumes of it.
