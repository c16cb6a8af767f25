----------------------------- MODULE BootUpdate -----------------------------
(***************************************************************************)
(* How DAPLink replaces its own images: the bootloader starts (main of     *)
(* main_bootloader.c) and jumps to the interface, the interface replaces   *)
(* an older bootloader by the one it carries (bootloader_update.c), and    *)
(* images of either are dropped on the drive of the other one.  All writes *)
(* go through IapFlash, one action per operation of the chip, and the      *)
(* power may fail at any time.                                             *)
(***************************************************************************)
EXTENDS IapFlash

VARIABLES
  session,    \* who writes through the flash manager, and its erase mode
  verdict,    \* what the last one to write was told
  lost        \* history: the first sector was hit while it was being replaced

vars == <<flash, running, iap, session, verdict, lost>>

NoSession == [user |-> "none", page_erase |-> FALSE]

Complete(start, v) == \A a \in start .. start + NumPages - 1 : flash[a] = v
BLComplete == \E v \in Versions : Complete(BLStart, v)
IFComplete == \E v \in Versions : Complete(IFStart, v)
\* an interface whose end alone is wrong may run
IFRuns == \E v \in Versions : \A a \in IFStart .. Behind - 2 : flash[a] = v

Init ==
  /\ \E b, i \in Versions :
       flash = [a \in Addrs |-> IF a < IFStart THEN b ELSE i]
  /\ running = "off"
  /\ iap = IapClosed
  /\ session = NoSession
  /\ verdict = "none"
  /\ lost = FALSE

(***************************************************************************)
(* Starting: the bootloader, and the update check of the interface         *)
(***************************************************************************)
\* what becomes of a jump to the interface
Jump ==
  IF IFComplete THEN {"starting"} ELSE IF IFRuns THEN {"starting", "stuck"} ELSE {"stuck"}

\* validate_bin_nvic looks at the vector table and nothing else.
NvicValid == IF flash[IFStart] \in Versions THEN {TRUE}
             ELSE IF flash[IFStart] = Blank THEN {FALSE} ELSE BOOLEAN

\* The button, or the setting, holds the bootloader.
BootsBootloader ==
  /\ flash[BLStart] \in Versions /\ BLComplete
  /\ \E hold \in BOOLEAN, valid \in NvicValid :
       running' \in IF ~hold /\ valid THEN Jump ELSE {"bootloader"}

PowerOn ==
  /\ running = "off"
  /\ \/ BootsBootloader
     \/ flash[BLStart] = Vectors /\ running' \in Jump
     \/ flash[BLStart] # Vectors /\ ~BLComplete /\ running' = "stuck"
  /\ verdict' = "none"
  /\ UNCHANGED <<flash, iap, session, lost>>

\* The version the running interface was built with, and carries a bootloader of
Own == flash[IFStart]

\* info_get_bootloader_present, by the key of the build: not the interface's vectors
BootloaderPresent == flash[BLStart] \in Versions

UpdateNeededIfPresent ==   \* fault: only a bootloader that is there is replaced
  /\ BootloaderPresent /\ flash[BLStart] <= Own
  /\ IFComplete /\ ~Complete(BLStart, Own)
UpdateNeeded ==
  /\ ~(BootloaderPresent /\ flash[BLStart] > Own)
  /\ IFComplete /\ ~Complete(BLStart, Own)

\* flash_manager_init: after init, erase_chip follows unless sectors are erased singly
Begin(user, page_erase) ==
  /\ iap' = IF page_erase THEN IapOpened
            ELSE [IapOpened EXCEPT !.at = "chip", !.chip = UpdateStart]
  /\ session' = [user |-> user, page_erase |-> page_erase]
  /\ verdict' = "none"

\* bootloader_check_and_update, up to the flash manager; init of the chip may fail
CheckUpdate ==
  /\ running = "starting" /\ session.user = "none"
  /\ \/ /\ UpdateNeeded
        /\ \E page_erase \in BOOLEAN : Begin("update", page_erase)
        /\ UNCHANGED running
     \/ /\ running' = "interface" /\ verdict' = IF UpdateNeeded THEN "failed" ELSE verdict
        /\ UNCHANGED <<iap, session>>
  /\ UNCHANGED <<flash, lost>>

\* The decoder takes an image that starts where the region of its kind starts.
DropBegins ==
  /\ running \in {"bootloader", "interface"} /\ session.user = "none"
  /\ \E page_erase \in BOOLEAN :
       /\ page_erase => running = "interface"
       /\ Begin("drop", page_erase)
  /\ UNCHANGED <<flash, running, lost>>

(***************************************************************************)
(* The chip.  The flash has effect on some pages when the operation is     *)
(* done; it may fail, or be cut by the power.                              *)
(***************************************************************************)
PowerLost == running' = "off" /\ iap' = IapClosed /\ session' = NoSession

Operation(pages, effect, done, failed) ==
  \/ flash' = effect /\ iap' = done /\ UNCHANGED <<running, session>>
  \/ flash' \in {flash, Damaged(pages)} /\ iap' = failed /\ UNCHANGED <<running, session>>
  \/ flash' = Damaged(pages) /\ PowerLost

Refused == iap' = Failing(iap) /\ UNCHANGED <<flash, running, session, lost>>

\* intercept_sector_erase: this erase makes room for the interface's vectors
TakesVectorsLast(s) == Intercepts /\ s = UpdateEnd - SectorPages  \* fault: in the end
TakesVectors(s) == Intercepts /\ s = UpdateStart

\* erase_sector.  The erase of the first sector is critical_erase_and_program's.
EraseSector(s) ==
  /\ UNCHANGED verdict
  /\ IF ~SectorSequential(s) \/ ~SectorEraseAllowed(s) \/ ~InBounds(s) THEN Refused
     ELSE LET i == [iap EXCEPT !.current_sector = s]
          IN IF TakesVectors(s)
             THEN /\ Operation(Sector(s), ErasedSector(s),
                               [i EXCEPT !.at = "vectors"], Failing(i))
                  /\ lost' = (lost \/ iap'.at # "vectors")
             ELSE /\ Operation(Sector(s), ErasedSector(s), SectorDone(i), Failing(i))
                  /\ UNCHANGED lost

\* The first page of the interface, with its vectors, goes to the first page.
ProgramVectors ==
  /\ iap.at = "vectors"
  /\ Operation({BLStart}, ProgrammedPage(BLStart, Vectors), SectorDone(iap), Failing(iap))
  /\ lost' = (iap' # SectorDone(iap))
  /\ UNCHANGED verdict

ChipStep ==
  /\ iap.at = "chip"
  /\ \/ iap.chip < UpdateEnd /\ EraseSector(iap.chip)
     \/ /\ iap.chip >= UpdateEnd /\ iap' = ChipDone(iap)
        /\ UNCHANGED <<flash, running, session, verdict, lost>>

\* program_page: intercepted in the first sector; the last page is checked, and the
\* first sector is replaced after it
ProgramPage(p, d) ==
  /\ UNCHANGED <<verdict, lost>>
  /\ IF ~PageErased(p) \/ ~PageSequential(p) \/ ~PageProgramAllowed(p) \/ ~InBounds(p)
     THEN iap' = Failing(iap) /\ UNCHANGED <<flash, running, session>>
     ELSE LET i == WithPage(p, d)
              last == p = UpdateEnd - 1
          IN IF Intercepts /\ p \in Sector(UpdateStart)
             THEN /\ iap' = [i EXCEPT !.sector_buf[p - UpdateStart] = d]
                  /\ UNCHANGED <<flash, running, session>>
             ELSE IF Intercepts /\ last /\ ~CrcMatches(i.crc)
             THEN iap' = Failing(i) /\ UNCHANGED <<flash, running, session>>
             ELSE Operation({p}, ProgrammedPage(p, d),
                            IF Intercepts /\ last THEN [i EXCEPT !.at = "swap"] ELSE PageDone(i, p),
                            Failing(i))

\* critical_erase_and_program for the bootloader's first sector
EraseFirst ==
  /\ iap.at = "swap"
  /\ Operation(Sector(BLStart), ErasedSector(BLStart),
               [iap EXCEPT !.at = "swapping"], Failing(Swapped(iap)))
  /\ lost' = (lost \/ iap'.at # "swapping")
  /\ UNCHANGED verdict

ProgramFirst ==
  /\ iap.at = "swapping"
  /\ Operation(Sector(BLStart), ProgrammedFirst, Swapped(iap), Failing(Swapped(iap)))
  /\ lost' = (iap' # Swapped(iap))
  /\ UNCHANGED verdict

(***************************************************************************)
(* Those who write: the image goes in block by block, the first at the     *)
(* start of the region, until a call fails                                 *)
(***************************************************************************)
Calling(user) == session.user = user /\ iap.state = "open" /\ iap.at = "idle"

NextPage == IF iap.current_page = None THEN UpdateStart ELSE iap.current_page + 1
NeedsErase(p) ==
  session.page_erase /\ (iap.current_sector = None \/ p = iap.current_sector + SectorPages)

\* The image the interface carries is whole, and all of it is written.
UpdateCalls ==
  /\ Calling("update") /\ NextPage < UpdateEnd
  /\ IF NeedsErase(NextPage) THEN EraseSector(NextPage) ELSE ProgramPage(NextPage, Own)

\* What is dropped may have gaps, run over the end, or be no image at all.
DropCalls ==
  /\ Calling("drop")
  /\ \/ /\ session.page_erase
        /\ \E k \in 0 .. Behind \div SectorPages :
             /\ iap.current_sector = None => k * SectorPages = UpdateStart
             /\ EraseSector(k * SectorPages)
     \/ \E p \in 0 .. Behind, d \in Data : ProgramPage(p, d)

\* uninit; the update check ends with it, and the interface goes on
Close ==
  /\ session.user # "none" /\ iap.at = "idle"
  /\ session.user = "update" => iap.state = "error" \/ NextPage >= UpdateEnd
  /\ \E uninit_fails \in BOOLEAN :
       verdict' = IF \/ iap.state = "error" \/ uninit_fails
                     \/ Intercepts /\ ~iap.update_complete
                  THEN "failed" ELSE "ok"
  /\ iap' = [iap EXCEPT !.state = "closed"]
  /\ session' = NoSession
  /\ running' = IF session.user = "update" THEN "interface" ELSE running
  /\ UNCHANGED <<flash, lost>>

\* Between two operations; the first sector is then whole, or about to be programmed.
PowerCut ==
  /\ running # "off" /\ PowerLost
  /\ lost' = (lost \/ iap.at \in {"vectors", "swapping"})
  /\ UNCHANGED <<flash, verdict>>

Step == ChipStep \/ ProgramVectors \/ EraseFirst \/ ProgramFirst \/ UpdateCalls \/ Close
Next == PowerOn \/ CheckUpdate \/ DropBegins \/ Step \/ DropCalls \/ PowerCut

Spec == Init /\ [][Next]_vars
\* A call that was made returns, and the update check runs to its end.
FairSpec == Spec /\ WF_vars(CheckUpdate) /\ WF_vars(Step)

(***************************************************************************)
(* Properties                                                              *)
(***************************************************************************)
\* The state stays within the types of the C variables.
TypeOK ==
  /\ flash \in [Addrs -> Contents]
  /\ running \in {"off", "stuck", "bootloader", "starting", "interface"}
  /\ iap \in IapType
  /\ session \in [user : {"none", "update", "drop"}, page_erase : BOOLEAN]
  /\ verdict \in {"none", "ok", "failed"}
  /\ lost \in BOOLEAN

\* docs/BOOTLOADER_UPDATES.md, and the order in which intercept_sector_erase and
\* intercept_page_write replace the bootloader: whenever the power fails, the chip
\* starts again, with a whole bootloader or with the interface, unless it fails in
\* the two critical sections, between erasing and programming the first sector.
Recoverable ==
  \/ lost \/ iap.at \in {"vectors", "swapping"}
  \/ BLComplete
  \/ flash[BLStart] = Vectors /\ IFRuns

\* bootloader_check_and_update and the drive report the replacement of the bootloader
\* as done only when one image is there from its first page to its last.
VerdictTrue == running = "interface" /\ verdict = "ok" => BLComplete

\* An update that was interrupted is taken up at the next start: the interface that
\* starts whole, with its vectors in the place of the bootloader's, ends with its
\* bootloader written, or with an error, or the power fails again.
SelfHeals ==
  (running = "starting" /\ flash[BLStart] = Vectors /\ IFComplete)
    ~> (Complete(BLStart, Own) \/ verdict = "failed" \/ running = "off")
=============================================================================
