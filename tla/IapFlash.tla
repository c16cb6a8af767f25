------------------------------ MODULE IapFlash ------------------------------
(***************************************************************************)
(* iap_flash_intf.c: the flash interface through which the running image   *)
(* of DAPLink replaces the other one.  The bootloader's region comes first *)
(* in the flash, the interface's behind it.  Addresses are counted in the  *)
(* blocks the flash manager programs.  When the interface replaces the     *)
(* bootloader the calls are intercepted: the first sector, from which the  *)
(* chip starts, gets the interface's vector table before anything else is  *)
(* touched, and its new contents, kept in sector_buf, after all the rest.  *)
(* Every erase or program operation of the chip may fail, and the power    *)
(* may fail in the middle of it or between two of them.                    *)
(***************************************************************************)
EXTENDS Integers

CONSTANTS
  NumPages,      \* blocks of a region
  SectorPages,   \* blocks of an erase sector
  Versions       \* versions of the images, which the interface and the bootloader
                 \* built together share

ASSUME IapAssumption ==
  \* the compile-time assertions of iap_flash_intf.c; the vector table of a region
  \* and its CRC lie in different sectors
  /\ SectorPages \in Nat \ {0} /\ NumPages \in Nat
  /\ \E k \in 1 .. NumPages : NumPages = k * SectorPages
  /\ SectorPages < NumPages
  /\ Versions \subseteq Nat \ {0}

\* A page holds its part of an image (the version) or one of these.
Blank == 0
Vectors == -1       \* the first page with the interface's vector table
Garbage == -2       \* half erased or written, corrupt, zeros
Data == Versions \cup {Garbage}
Contents == Data \cup {Blank, Vectors}

BLStart == 0                    \* DAPLINK_ROM_BL_START
IFStart == NumPages             \* DAPLINK_ROM_IF_START
Behind == 2 * NumPages          \* the first page that belongs to neither
Addrs == 0 .. Behind - 1
None == -1                      \* a current sector or page that is not set

VARIABLES
  flash,
  running,    \* "off", "stuck", "bootloader", "starting" (interface), "interface"
  iap         \* the static variables of iap_flash_intf.c, and where a call stands

\* iap.at: the call under way has to program the interface's vectors, to
\* replace the first sector, to program its new contents, or is in the chip loop
IapType ==
  [state : {"closed", "open", "error"},
   at : {"idle", "chip", "vectors", "swap", "swapping"},
   chip : (0 .. Behind) \cup {None},                    \* addr of the chip loop
   mass_erase_performed : BOOLEAN, update_complete : BOOLEAN,
   current_sector : (0 .. Behind) \cup {None},
   current_page : (0 .. Behind) \cup {None},
   crc : Data \cup {0},                                 \* the image it belongs to
   sector_buf : [0 .. SectorPages - 1 -> Data]]

IapClosed ==
  [state |-> "closed", at |-> "idle", chip |-> None,
   mass_erase_performed |-> FALSE, update_complete |-> FALSE,
   current_sector |-> None, current_page |-> None,
   crc |-> 0, sector_buf |-> [p \in 0 .. SectorPages - 1 |-> Garbage]]

\* init: everything is reset
IapOpened == [IapClosed EXCEPT !.state = "open"]

UpdateStart == IF running = "bootloader" THEN IFStart ELSE BLStart
UpdateEnd == UpdateStart + NumPages
AppStart == IF running = "bootloader" THEN BLStart ELSE IFStart
Intercepts == running # "bootloader"

(***************************************************************************)
(* The chip: what an operation on some pages makes of the flash            *)
(***************************************************************************)
Sector(s) == s .. s + SectorPages - 1

\* the operation failed in the middle, or the power did
Damaged(pages) == [a \in Addrs |-> IF a \in pages THEN Garbage ELSE flash[a]]
ErasedSector(s) == [a \in Addrs |-> IF a \in Sector(s) THEN Blank ELSE flash[a]]
\* programming a page that is not blank yields garbage
ProgrammedPage(p, d) ==
  [flash EXCEPT ![p] = IF flash[p] = Blank THEN d ELSE Garbage]
ProgrammedFirst ==
  [a \in Addrs |-> IF a \notin Sector(0) THEN flash[a]
                   ELSE IF flash[a] = Blank THEN iap.sector_buf[a] ELSE Garbage]

(***************************************************************************)
(* The checks of erase_sector and program_page, and the CRC                *)
(***************************************************************************)
SectorSequential(s) ==
  iap.current_sector # None => s = iap.current_sector + SectorPages

SectorEraseAllowed(s) == ~(s >= AppStart /\ s < AppStart + NumPages)

\* the page is in a sector that was erased, and follows the one before
PageErased(p) ==
  ~iap.mass_erase_performed =>
    /\ iap.current_sector # None
    /\ p >= iap.current_sector /\ p < iap.current_sector + SectorPages
PageSequential(p) == iap.current_page # None => p = iap.current_page + 1

PageProgramAllowed(p) == ~(p < AppStart + NumPages /\ p + 1 > AppStart)

InBounds(a) == a >= UpdateStart /\ a < UpdateEnd

\* crc32_continue, for the images of all versions: the image all of whose pages up
\* to p the data was, or none
CrcContinueSum(p, d) == iap.crc + d   \* fault: a sum, which grows
CrcContinue(p, d) ==
  IF (p = UpdateStart /\ iap.crc = 0) \/ iap.crc = d THEN d ELSE Garbage

CrcMatchesAlways(d) == TRUE   \* fault: the CRC in the image is not compared
CrcMatches(d) == d \in Versions

(***************************************************************************)
(* What a call does to the state of the interface                          *)
(***************************************************************************)
Failing(i) == [i EXCEPT !.state = "error", !.at = "idle", !.chip = None]

\* erase_sector returned: to the loop of erase_chip, or to the caller
SectorDone(i) ==
  IF i.chip = None THEN [i EXCEPT !.at = "idle"]
  ELSE [i EXCEPT !.at = "chip", !.chip = @ + SectorPages]

ChipDone(i) == [i EXCEPT !.mass_erase_performed = TRUE, !.at = "idle", !.chip = None]

\* program_page up to the operation
WithPage(p, d) ==
  [iap EXCEPT !.current_page = p,
              !.crc = IF Intercepts THEN CrcContinue(p, d) ELSE @]

\* the last page ends an update that was not intercepted
PageDone(i, p) == [i EXCEPT !.update_complete = @ \/ p + 1 >= UpdateEnd]

\* The first sector was replaced, or that failed: the update is taken for complete.
Swapped(i) == [i EXCEPT !.update_complete = TRUE, !.at = "idle"]
=============================================================================
