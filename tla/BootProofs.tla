----------------------------- MODULE BootProofs -----------------------------
(***************************************************************************)
(* Proofs about BootUpdate, for images of any number of sectors of any     *)
(* number of blocks, and any versions.  The invariant IInv says where in   *)
(* the replacement of the bootloader the interface stands: what the first  *)
(* sector holds, which blocks are blank, and which hold the image whose    *)
(* CRC was continued.                                                      *)
(***************************************************************************)
EXTENDS BootUpdate, TLAPS

USE DEF Blank, Vectors, Garbage, None, BLStart, IFStart, Behind

(***************************************************************************)
(* The inductive invariant                                                 *)
(***************************************************************************)
Aligned(s) == \E k \in Nat : s = k * SectorPages

\* who may be writing, and what was said last
Calm ==
  /\ session.user = "none" <=> iap.state = "closed"
  /\ iap.at # "idle" => iap.state = "open"
  /\ session.user = "update" => running = "starting"
  /\ session.user = "drop" => running \in {"bootloader", "interface"}
  /\ session.user # "none" => verdict = "none"
  /\ running = "starting" => verdict # "ok"

\* what runs is there
Images ==
  /\ running = "bootloader" => BLComplete
  /\ running \in {"starting", "interface"} => IFRuns

\* the sectors that are erased, and the call under way
Sectors == iap.state = "open" =>
  /\ iap.current_sector # None =>
       Aligned(iap.current_sector - UpdateStart) /\ iap.current_sector < UpdateEnd
  /\ iap.current_page # None =>
       /\ iap.current_sector # None /\ iap.current_page < iap.current_sector + SectorPages
       /\ iap.current_page >= UpdateStart
  /\ iap.at = "chip" =>
       /\ iap.current_page = None
       /\ iap.chip = IF iap.current_sector = None THEN UpdateStart
                     ELSE iap.current_sector + SectorPages
  /\ iap.at = "vectors" =>
       /\ Intercepts /\ iap.current_sector = BLStart /\ iap.current_page = None
       /\ iap.chip \in {None, BLStart}
  /\ iap.chip # None => iap.at \in {"chip", "vectors"} /\ ~session.page_erase
  /\ iap.mass_erase_performed =>
       /\ ~session.page_erase /\ iap.current_sector # None
       /\ iap.current_sector + SectorPages >= UpdateEnd
  /\ ~Intercepts => iap.at \in {"idle", "chip"}

\* the first sector, when the interface replaces the bootloader
Placed == iap.state = "open" /\ Intercepts =>
  /\ iap.at \in {"swap", "swapping"} =>
       iap.crc \in Versions /\ iap.current_page = UpdateEnd - 1
  /\ iap.at \in {"vectors", "swapping"} => \A a \in Sector(BLStart) : flash[a] = Blank
  /\ iap.update_complete =>
       BLComplete /\ iap.current_page = UpdateEnd - 1 /\ iap.at = "idle"
  /\ iap.current_sector # None /\ ~iap.update_complete /\ iap.at \notin {"vectors", "swapping"} =>
       flash[BLStart] = Vectors

\* the other sectors, then: erased and still blank, or holding the image
Copied == iap.state = "open" /\ Intercepts /\ ~iap.update_complete =>
  /\ iap.current_sector # None =>
       \A a \in SectorPages .. iap.current_sector + SectorPages - 1 :
         a > iap.current_page => flash[a] = Blank
  /\ iap.crc \in Versions =>
       /\ iap.current_page # None
       /\ \A a \in 0 .. iap.current_page :
            IF a < SectorPages THEN iap.sector_buf[a] = iap.crc ELSE flash[a] = iap.crc

IInv ==
  /\ TypeOK /\ Calm /\ Images /\ Sectors /\ Placed /\ Copied
  /\ Recoverable /\ VerdictTrue

(***************************************************************************)
(* Sizes and sectors                                                       *)
(***************************************************************************)
\* A region has at least two blocks, and the first sector is not all of it.
LEMMA Sizes ==
  /\ SectorPages \in Nat /\ NumPages \in Nat /\ 0 < SectorPages /\ SectorPages < NumPages
  /\ \A v \in Versions : v \in Nat /\ v # 0
  BY IapAssumption

\* A sector that starts in a region ends in it.
LEMMA SectorEnds ==
  ASSUME NEW s \in Int, Aligned(s), s < NumPages
  PROVE  s >= 0 /\ s + SectorPages <= NumPages /\ Aligned(s + SectorPages)
<1>1. PICK i \in Nat : s = i * SectorPages
  BY DEF Aligned
<1>2. PICK j \in Nat : NumPages = j * SectorPages
  BY IapAssumption
<1>3. i < j
  <2>1. SUFFICES ASSUME j <= i PROVE FALSE
    BY <1>1, <1>2
  <2>2. PICK d \in Nat : i = j + d
    <3>1. i - j \in Nat /\ i = j + (i - j)
      BY <2>1
    <3> QED BY <3>1
  <2>3. i * SectorPages = j * SectorPages + d * SectorPages
    BY <2>2, Sizes
  <2>4. d * SectorPages >= 0
    BY Sizes
  <2> QED BY <1>1, <1>2, <2>3, <2>4, Sizes
<1>4. PICK d \in Nat : j = i + 1 + d
  <2>1. j - (i + 1) \in Nat /\ j = i + 1 + (j - (i + 1))
    BY <1>3
  <2> QED BY <2>1
<1>5. NumPages = i * SectorPages + SectorPages + d * SectorPages
  BY <1>2, <1>4, Sizes
<1>6. d * SectorPages >= 0 /\ i * SectorPages >= 0
  BY Sizes
<1>7. s + SectorPages = (i + 1) * SectorPages /\ i + 1 \in Nat
  BY <1>1, Sizes
<1> QED BY <1>1, <1>5, <1>6, <1>7, Sizes DEF Aligned

(***************************************************************************)
(* What does not disturb the invariant                                     *)
(***************************************************************************)
\* An interface that is not open has nothing under way.
LEMMA NotOpen ==
  ASSUME iap'.state # "open"
  PROVE  Sectors' /\ Placed' /\ Copied'
  BY DEF Sectors, Placed, Copied

\* The image that runs is there as long as its region is not written.
AppKept == \A a \in AppStart .. AppStart + NumPages - 1 : flash'[a] = flash[a]

LEMMA RunningKept ==
  ASSUME Images, AppKept
  PROVE  /\ running = "bootloader" => BLComplete'
         /\ running \in {"starting", "interface"} => IFRuns'
<1>1. ASSUME running = "bootloader" PROVE BLComplete'
  <2>1. PICK v \in Versions : \A a \in 0 .. NumPages - 1 : flash[a] = v
    BY <1>1, Sizes DEF Images, BLComplete, Complete
  <2>2. \A a \in 0 .. NumPages - 1 : flash'[a] = v
    BY <1>1, <2>1, Sizes DEF AppKept, AppStart
  <2> QED BY <2>2, Sizes DEF BLComplete, Complete
<1>2. ASSUME running \in {"starting", "interface"} PROVE IFRuns'
  <2>1. PICK v \in Versions : \A a \in NumPages .. 2 * NumPages - 2 : flash[a] = v
    BY <1>2 DEF Images, IFRuns
  <2>2. \A a \in NumPages .. 2 * NumPages - 2 : flash'[a] = v
    BY <1>2, <2>1, Sizes DEF AppKept, AppStart
  <2> QED BY <2>2 DEF IFRuns
<1> QED BY <1>1, <1>2

LEMMA ImagesKept ==
  ASSUME Images, AppKept, running' \in {running, "off"}
  PROVE  Images'
  BY RunningKept DEF Images

\* Somebody is writing: it is the bootloader, or the interface.
LEMMA Writing ==
  ASSUME IInv, session.user # "none"
  PROVE  /\ running \in {"bootloader", "starting", "interface"}
         /\ verdict = "none" /\ iap.state \in {"open", "error"}
  BY DEF IInv, TypeOK, Calm, IapType

\* A write that spares the running image, and the interface's vectors in the place of
\* the bootloader's, leaves a chip that starts again.
LEMMA SafeWrite ==
  ASSUME IInv, session.user # "none", AppKept,
         Intercepts => flash[BLStart] = Vectors /\ flash'[BLStart] = flash[BLStart]
  PROVE  Recoverable'
<1>1. CASE running = "bootloader"
  BY <1>1, RunningKept DEF IInv, Recoverable
<1>2. CASE running # "bootloader"
  BY <1>2, Writing, RunningKept DEF IInv, Recoverable, Intercepts
<1> QED BY <1>1, <1>2

\* A call that fails, or is cut by the power, only has to leave the flash so that the
\* chip starts again.
LEMMA Stopped ==
  ASSUME IInv, session.user # "none", verdict' = verdict,
         flash' \in [Addrs -> Contents], iap' \in IapType, lost' \in BOOLEAN,
         AppKept,
         \/ /\ iap'.state = "error" /\ iap'.at = "idle"
            /\ running' = running /\ session' = session
         \/ PowerLost,
         Recoverable'
  PROVE  IInv'
<1>1. iap'.state \in {"error", "closed"} /\ iap'.at = "idle" /\ running' \in {running, "off"}
  BY DEF PowerLost, IapClosed
<1>2. Sectors' /\ Placed' /\ Copied'
  BY <1>1, NotOpen
<1>3. Images'
  BY <1>1, ImagesKept DEF IInv
<1>4. TypeOK'
  <2>1. session' \in [user : {"none", "update", "drop"}, page_erase : BOOLEAN]
    <3>1. NoSession \in [user : {"none", "update", "drop"}, page_erase : BOOLEAN]
      BY DEF NoSession
    <3>2. session' = session \/ session' = NoSession
      BY DEF PowerLost
    <3> QED BY <3>1, <3>2 DEF IInv, TypeOK
  <2>2. running' \in {"off", "stuck", "bootloader", "starting", "interface"}
    BY <1>1 DEF IInv, TypeOK
  <2>3. verdict' \in {"none", "ok", "failed"}
    BY DEF IInv, TypeOK
  <2> QED BY <2>1, <2>2, <2>3 DEF TypeOK
<1>5. Calm' /\ VerdictTrue'
  BY DEF IInv, TypeOK, Calm, VerdictTrue, PowerLost, NoSession, IapClosed
<1> QED BY <1>2, <1>3, <1>4, <1>5 DEF IInv

\* What the chip makes of the flash is of its type.
LEMMA FlashTypes ==
  ASSUME TypeOK
  PROVE  /\ \A pages : Damaged(pages) \in [Addrs -> Contents]
         /\ \A s \in Int : ErasedSector(s) \in [Addrs -> Contents]
         /\ \A p \in Addrs, d \in Contents : ProgrammedPage(p, d) \in [Addrs -> Contents]
         /\ ProgrammedFirst \in [Addrs -> Contents]
<1>1. flash \in [Addrs -> Contents] /\ Garbage \in Contents /\ Blank \in Contents
  BY DEF TypeOK, Contents, Data
<1>2. \A a \in Addrs : a \in Sector(0) => iap.sector_buf[a] \in Contents
  <2>1. \A a \in Addrs : a \in Sector(0) => a \in 0 .. SectorPages - 1
    BY Sizes DEF Sector
  <2>2. iap.sector_buf \in [0 .. SectorPages - 1 -> Data]
    BY DEF TypeOK, IapType
  <2> QED BY <2>1, <2>2 DEF Contents
<1>3. \A pages : Damaged(pages) \in [Addrs -> Contents]
  BY <1>1 DEF Damaged
<1>4. \A s \in Int : ErasedSector(s) \in [Addrs -> Contents]
  BY <1>1 DEF ErasedSector
<1>5. \A p \in Addrs, d \in Contents : ProgrammedPage(p, d) \in [Addrs -> Contents]
  BY <1>1 DEF ProgrammedPage
<1>6. ProgrammedFirst \in [Addrs -> Contents]
  BY <1>1, <1>2 DEF ProgrammedFirst
<1> QED BY <1>3, <1>4, <1>5, <1>6

LEMMA ClosedType == IapClosed \in IapType /\ IapOpened \in IapType
<1>1. [p \in 0 .. SectorPages - 1 |-> Garbage] \in [0 .. SectorPages - 1 -> Data]
  BY DEF Data
<1> QED BY <1>1 DEF IapClosed, IapOpened, IapType

LEMMA FailingType ==
  ASSUME NEW i \in IapType
  PROVE  Failing(i) \in IapType /\ Failing(i).state = "error" /\ Failing(i).at = "idle"
  BY DEF Failing, IapType

\* An operation of the chip that fails or is cut keeps the invariant if it spares the
\* running image, and the interface's vectors or else counts as one of the critical ones.
Stops(pages, failed) ==
  \/ flash' \in {flash, Damaged(pages)} /\ iap' = failed /\ UNCHANGED <<running, session>>
  \/ flash' = Damaged(pages) /\ PowerLost

LEMMA OperationStops ==
  ASSUME IInv, session.user # "none", verdict' = verdict, NEW pages, NEW failed \in IapType,
         failed.state = "error", failed.at = "idle", Stops(pages, failed),
         \A a \in AppStart .. AppStart + NumPages - 1 : a \notin pages,
         lost' \in BOOLEAN,
         \/ lost'
         \/ Intercepts => flash[BLStart] = Vectors /\ BLStart \notin pages
  PROVE  IInv'
<1>1. flash' \in {flash, Damaged(pages)} /\ flash \in [Addrs -> Contents]
  BY DEF Stops, IInv, TypeOK
<1>2. flash' \in [Addrs -> Contents]
  BY <1>1, FlashTypes DEF IInv
<1>3. \A a \in Addrs : a \notin pages => flash'[a] = flash[a]
  BY <1>1 DEF Damaged
<1>4. AppKept
  <2>1. \A a \in AppStart .. AppStart + NumPages - 1 : a \in Addrs
    BY Sizes DEF AppStart, Addrs
  <2> QED BY <1>3, <2>1 DEF AppKept
<1>5. iap' \in IapType
  BY ClosedType DEF Stops, PowerLost
<1>6. Recoverable'
  <2>1. CASE lost'
    BY <2>1 DEF Recoverable
  <2>2. CASE Intercepts => flash[BLStart] = Vectors /\ BLStart \notin pages
    <3>1. BLStart \in Addrs
      BY Sizes DEF Addrs
    <3> QED BY <2>2, <3>1, <1>3, <1>4, SafeWrite
  <2> QED BY <2>1, <2>2
<1>7. \/ /\ iap'.state = "error" /\ iap'.at = "idle"
         /\ running' = running /\ session' = session
      \/ PowerLost
  BY DEF Stops
<1> QED BY <1>2, <1>4, <1>5, <1>6, <1>7, Stopped

\* An operation that succeeds leaves the writer, and what runs, as they were.
LEMMA GoesOn ==
  ASSUME IInv, session.user # "none", UNCHANGED <<running, session, verdict>>,
         flash' \in [Addrs -> Contents], iap' \in IapType, lost' \in BOOLEAN,
         iap'.state = "open", AppKept
  PROVE  TypeOK' /\ Calm' /\ Images' /\ VerdictTrue'
<1>1. Images'
  BY ImagesKept DEF IInv
<1>2. TypeOK'
  BY DEF IInv, TypeOK
<1>3. Calm' /\ VerdictTrue'
  BY DEF IInv, Calm, VerdictTrue
<1> QED BY <1>1, <1>2, <1>3

(***************************************************************************)
(* Erasing                                                                 *)
(***************************************************************************)
\* A call of erase_sector, from the loop of erase_chip or from the flash manager
Erasing(s) ==
  /\ session.user # "none" /\ iap.state = "open"
  /\ \/ iap.at = "idle" /\ session.page_erase
     \/ iap.at = "chip" /\ s = iap.chip
  /\ iap.current_sector = None => s = UpdateStart

Allowed(s) == SectorSequential(s) /\ SectorEraseAllowed(s) /\ InBounds(s)

\* The sector is the next one, inside the region; with the interface's vectors in
\* place unless it is the first.
LEMMA ErasesNext ==
  ASSUME IInv, NEW s \in Int, Erasing(s), Allowed(s)
  PROVE  /\ UpdateStart <= s /\ s + SectorPages <= UpdateEnd
         /\ Aligned(s - UpdateStart) /\ Aligned(s + SectorPages - UpdateStart)
         /\ iap.current_page < s
         /\ IF iap.current_sector = None THEN s = UpdateStart
            ELSE s = iap.current_sector + SectorPages
         /\ iap.mass_erase_performed = FALSE
         /\ Intercepts => ~iap.update_complete
         /\ Intercepts /\ s # UpdateStart => flash[BLStart] = Vectors
         /\ \A a \in AppStart .. AppStart + NumPages - 1 : a \notin Sector(s)
<1>0. /\ iap.current_sector \in Int /\ iap.current_page \in Int
      /\ iap.current_page \in Nat \/ iap.current_page = None
      /\ iap.current_sector \in Nat \/ iap.current_sector = None
  BY Sizes DEF IInv, TypeOK, IapType
<1>1. IF iap.current_sector = None THEN s = UpdateStart
      ELSE s = iap.current_sector + SectorPages
  BY DEF Erasing, Allowed, SectorSequential
<1>2. UpdateStart <= s /\ s < UpdateEnd /\ UpdateStart \in Nat /\ UpdateEnd = UpdateStart + NumPages
  BY Sizes DEF Allowed, InBounds, UpdateEnd, UpdateStart
<1>3. Aligned(s - UpdateStart)
  <2>1. CASE iap.current_sector = None
    BY <2>1, <1>1, <1>2, Sizes DEF Aligned
  <2>2. CASE iap.current_sector # None
    <3>1. Aligned(iap.current_sector - UpdateStart) /\ iap.current_sector < UpdateEnd
      BY <2>2 DEF IInv, Sectors, Erasing
    <3>2. Aligned(iap.current_sector - UpdateStart + SectorPages)
      BY <3>1, <1>0, <1>2, SectorEnds, Sizes
    <3>3. s - UpdateStart = iap.current_sector - UpdateStart + SectorPages
      BY <2>2, <1>0, <1>1, <1>2, Sizes
    <3> QED BY <3>2, <3>3
  <2> QED BY <2>1, <2>2
<1>4. s - UpdateStart + SectorPages <= NumPages /\ Aligned(s - UpdateStart + SectorPages)
  BY <1>2, <1>3, SectorEnds, Sizes
<1>5. s + SectorPages <= UpdateEnd /\ Aligned(s + SectorPages - UpdateStart)
  <2>1. s - UpdateStart + SectorPages = s + SectorPages - UpdateStart
    BY <1>2, Sizes
  <2> QED BY <1>2, <1>4, <2>1, Sizes
<1>6. iap.current_page < s
  BY <1>0, <1>1, <1>2 DEF IInv, Sectors, Erasing
<1>7. Intercepts => ~iap.update_complete
  BY <1>2, <1>6 DEF IInv, Placed, Erasing
<1>8. Intercepts /\ s # UpdateStart => flash[BLStart] = Vectors
  BY <1>1, <1>7 DEF IInv, Placed, Erasing
<1>9. \A a \in AppStart .. AppStart + NumPages - 1 : a \notin Sector(s)
  BY <1>2, <1>5, Sizes DEF AppStart, UpdateStart, UpdateEnd, Sector
<1>10. iap.mass_erase_performed = FALSE
  <2>1. iap.mass_erase_performed =>
          iap.current_sector # None /\ iap.current_sector + SectorPages >= UpdateEnd
    BY DEF IInv, Sectors, Erasing
  <2>2. ~iap.mass_erase_performed
    BY <1>0, <1>1, <1>2, <2>1, Sizes
  <2>3. iap.mass_erase_performed \in BOOLEAN
    BY DEF IInv, TypeOK, IapType
  <2> QED BY <2>2, <2>3
<1> QED BY <1>1, <1>2, <1>3, <1>5, <1>6, <1>7, <1>8, <1>9, <1>10

\* A call that is refused touches nothing.
LEMMA RefusedKeeps ==
  ASSUME IInv, session.user # "none", iap.at \in {"idle", "chip"}, NEW i \in IapType,
         iap' = Failing(i), UNCHANGED <<flash, running, session, verdict, lost>>
  PROVE  IInv'
<1>1. iap' \in IapType /\ iap'.state = "error" /\ iap'.at = "idle"
  BY FailingType
<1>2. Recoverable'
  BY <1>1 DEF IInv, Recoverable, BLComplete, Complete, IFRuns
<1>3. AppKept /\ flash' \in [Addrs -> Contents] /\ lost' \in BOOLEAN
  BY DEF AppKept, IInv, TypeOK
<1> QED BY <1>1, <1>2, <1>3, Stopped

LEMMA EraseKeeps ==
  ASSUME IInv, NEW s \in Int, Erasing(s), EraseSector(s)
  PROVE  IInv'
<1>1. /\ iap \in IapType /\ verdict' = verdict /\ session.user # "none"
      /\ iap.state = "open" /\ iap.at \in {"idle", "chip"}
  BY DEF IInv, TypeOK, EraseSector, Erasing
<1>2. CASE ~Allowed(s)
  BY <1>1, <1>2, RefusedKeeps DEF EraseSector, Allowed, Refused
<1>3. CASE Allowed(s)
  <2> DEFINE i == [iap EXCEPT !.current_sector = s]
  <2>1. /\ UpdateStart <= s /\ s + SectorPages <= UpdateEnd
        /\ Aligned(s - UpdateStart) /\ Aligned(s + SectorPages - UpdateStart)
        /\ iap.current_page < s
        /\ IF iap.current_sector = None THEN s = UpdateStart
           ELSE s = iap.current_sector + SectorPages
        /\ iap.mass_erase_performed = FALSE
        /\ Intercepts => ~iap.update_complete
        /\ Intercepts /\ s # UpdateStart => flash[BLStart] = Vectors
        /\ \A a \in AppStart .. AppStart + NumPages - 1 : a \notin Sector(s)
    BY <1>3, ErasesNext
  <2>2. i \in IapType /\ UpdateStart \in Nat /\ UpdateEnd \in Nat /\ s \in Nat
    <3>1. /\ UpdateStart \in Nat /\ UpdateStart <= NumPages
          /\ UpdateEnd = UpdateStart + NumPages
      BY Sizes DEF UpdateStart, UpdateEnd
    <3>2. s \in 0 .. 2 * NumPages
      BY <2>1, <3>1, Sizes
    <3>3. i \in IapType
      BY <1>1, <3>2 DEF IapType
    <3> QED BY <3>1, <3>2, <3>3, Sizes
  <2>3. CASE TakesVectors(s)
    <3>1. /\ Operation(Sector(s), ErasedSector(s), [i EXCEPT !.at = "vectors"], Failing(i))
          /\ lost' = (lost \/ iap'.at # "vectors")
      BY <1>3, <2>3 DEF EraseSector, Allowed
    <3>2. Intercepts /\ s = 0 /\ UpdateStart = 0
      BY <2>3 DEF TakesVectors, Intercepts, UpdateStart
    <3>3. CASE Stops(Sector(s), Failing(i))
      <4>1. iap'.at # "vectors"
        BY <3>3, <2>2, FailingType DEF Stops, PowerLost, IapClosed
      <4>2. lost' = TRUE
        BY <3>1, <4>1
      <4> QED BY <1>1, <2>1, <2>2, <3>3, <4>2, FailingType, OperationStops
    <3>4. CASE /\ flash' = ErasedSector(s) /\ iap' = [i EXCEPT !.at = "vectors"]
               /\ UNCHANGED <<running, session>>
      <4>1. /\ iap' \in IapType /\ iap'.state = "open" /\ iap'.at = "vectors"
            /\ iap'.current_sector = 0 /\ iap'.current_page = iap.current_page
            /\ iap'.chip = iap.chip /\ iap'.crc = iap.crc
            /\ iap'.mass_erase_performed = iap.mass_erase_performed
            /\ iap'.update_complete = iap.update_complete
        BY <1>1, <2>2, <3>2, <3>4 DEF IapType
      <4>2. iap.current_page = None
        BY <1>1, <2>1, <3>2, Sizes DEF IapType
      <4>3. iap.mass_erase_performed = FALSE
        BY <2>1
      <4>4. \A a \in Sector(0) : flash'[a] = Blank
        BY <3>2, <3>4, Sizes DEF ErasedSector, Sector, Addrs
      <4>5. AppKept /\ flash' \in [Addrs -> Contents] /\ lost' \in BOOLEAN
        BY <2>1, <3>1, <3>4, FlashTypes, Sizes
           DEF AppKept, AppStart, ErasedSector, Addrs, IInv, TypeOK
      <4>6. TypeOK' /\ Calm' /\ Images' /\ VerdictTrue'
        BY <1>1, <3>4, <4>1, <4>5, GoesOn
      <4>7. Sectors'
        <5>1. Intercepts' /\ UpdateStart' = 0 /\ UpdateEnd' = NumPages /\ Aligned(0)
          BY <3>2, <3>4, Sizes DEF Intercepts, UpdateStart, UpdateEnd, Aligned
        <5>2. iap.chip \in {None, 0} /\ (iap.chip # None => ~session.page_erase)
          BY <1>1, <3>2 DEF IInv, Sectors, Erasing
        <5> QED BY <3>4, <4>1, <4>2, <4>3, <5>1, <5>2, Sizes DEF Sectors
      <4>8. Placed'
        BY <2>1, <3>2, <4>1, <4>4 DEF Placed, Sector
      <4>9. Copied'
        <5>1. iap.crc \notin Versions
          BY <1>1, <2>1, <3>2, <4>2 DEF IInv, Copied
        <5> QED BY <4>1, <4>2, <5>1, Sizes DEF Copied
      <4>10. Recoverable'
        BY <4>1 DEF Recoverable
      <4> QED BY <4>6, <4>7, <4>8, <4>9, <4>10 DEF IInv
    <3> QED BY <3>1, <3>3, <3>4 DEF Operation, Stops
  <2>4. CASE ~TakesVectors(s)
    <3>1. /\ Operation(Sector(s), ErasedSector(s), SectorDone(i), Failing(i))
          /\ lost' = lost
      BY <1>3, <2>4 DEF EraseSector, Allowed
    <3>2. Intercepts => s # 0 /\ UpdateStart = 0 /\ BLStart \notin Sector(s)
      BY <2>1, <2>2, <2>4, Sizes DEF TakesVectors, Intercepts, UpdateStart, Sector
    <3>3. CASE Stops(Sector(s), Failing(i))
      <4>1. lost' \in BOOLEAN
        BY <3>1 DEF IInv, TypeOK
      <4>2. Intercepts => flash[BLStart] = Vectors /\ BLStart \notin Sector(s)
        BY <2>1, <3>2
      <4> QED BY <1>1, <2>1, <2>2, <3>3, <4>1, <4>2, FailingType, OperationStops
    <3>4. CASE /\ flash' = ErasedSector(s) /\ iap' = SectorDone(i)
               /\ UNCHANGED <<running, session>>
      <4>1. /\ iap.at = "idle" => iap.chip = None
            /\ iap.at = "chip" => iap.chip = s /\ iap.current_page = None /\ ~session.page_erase
        BY <1>1, <2>2 DEF IInv, Sectors, Erasing
      <4>2. /\ iap' \in IapType /\ iap'.state = "open" /\ iap'.at = iap.at
            /\ iap'.current_sector = s /\ iap'.current_page = iap.current_page
            /\ iap'.chip = IF iap.at = "chip" THEN s + SectorPages ELSE None
            /\ iap'.crc = iap.crc /\ iap'.sector_buf = iap.sector_buf
            /\ iap'.mass_erase_performed = iap.mass_erase_performed
            /\ iap'.update_complete = iap.update_complete
        <5>1. s + SectorPages \in 0 .. 2 * NumPages
          BY <2>1, <2>2, Sizes DEF UpdateEnd, UpdateStart
        <5>2. CASE iap.at = "idle"
          BY <1>1, <2>2, <3>4, <4>1, <5>2 DEF IapType, SectorDone
        <5>3. CASE iap.at = "chip"
          <6>1. i.chip = s /\ s # None
            BY <1>1, <2>2, <4>1, <5>3 DEF IapType
          <6>2. iap' = [i EXCEPT !.at = "chip", !.chip = s + SectorPages]
            BY <3>4, <6>1 DEF SectorDone
          <6>3. iap' \in IapType
            BY <2>2, <5>1, <6>2 DEF IapType
          <6> QED BY <1>1, <5>3, <6>2, <6>3 DEF IapType
        <5> QED BY <1>1, <5>2, <5>3
      <4>3. iap.mass_erase_performed = FALSE
        BY <2>1
      <4>4. /\ \A a \in Addrs : flash'[a] = IF a \in Sector(s) THEN Blank ELSE flash[a]
            /\ iap.current_sector \in Int /\ iap.current_page \in Int
        BY <1>1, <3>4, Sizes DEF ErasedSector, IapType
      <4>5. AppKept /\ flash' \in [Addrs -> Contents] /\ lost' \in BOOLEAN
        <5>1. \A a \in AppStart .. AppStart + NumPages - 1 : a \in Addrs
          BY Sizes DEF AppStart, Addrs
        <5> QED BY <2>1, <3>1, <3>4, <4>4, <5>1, FlashTypes DEF AppKept, IInv, TypeOK
      <4>6. TypeOK' /\ Calm' /\ Images' /\ VerdictTrue'
        BY <1>1, <3>4, <4>2, <4>5, GoesOn
      <4>7. Sectors'
        <5>1. Intercepts' = Intercepts /\ UpdateStart' = UpdateStart /\ UpdateEnd' = UpdateEnd
          BY <3>4 DEF Intercepts, UpdateStart, UpdateEnd
        <5>2. s < UpdateEnd
          BY <2>1, <2>2, Sizes DEF UpdateEnd
        <5>3. iap.current_page # None => iap.current_page >= UpdateStart
          BY <1>1 DEF IInv, Sectors
        <5> QED BY <1>1, <2>1, <2>2, <3>4, <4>1, <4>2, <4>3, <4>4, <5>1, <5>2, <5>3, Sizes
                DEF Sectors
      <4>8. Intercepts => flash[BLStart] = Vectors /\ flash'[BLStart] = Vectors
        BY <2>1, <3>2, <4>4, Sizes DEF Addrs
      <4>9. Placed'
        BY <1>1, <2>1, <3>4, <4>2, <4>8 DEF Placed, Intercepts
      <4>10. Copied'
        <5>1. SUFFICES ASSUME Intercepts, ~iap.update_complete PROVE Copied'
          BY <3>4, <4>2 DEF Copied, Intercepts
        <5>2. /\ iap.current_sector # None /\ s = iap.current_sector + SectorPages
              /\ s + SectorPages <= NumPages
          BY <2>1, <2>2, <3>2, <5>1, Sizes DEF UpdateEnd
        <5>3. \A a \in SectorPages .. s + SectorPages - 1 :
                a > iap.current_page => flash'[a] = Blank
          <6>1. TAKE a \in SectorPages .. s + SectorPages - 1
          <6>2. a \in Addrs
            BY <2>2, <5>2, Sizes DEF Addrs
          <6>3. CASE a \in Sector(s)
            BY <4>4, <6>2, <6>3
          <6>4. CASE a \notin Sector(s)
            <7>1. a \in SectorPages .. iap.current_sector + SectorPages - 1
              BY <2>2, <4>4, <5>2, <6>4, Sizes DEF Sector
            <7> QED BY <1>1, <4>4, <5>1, <5>2, <6>2, <6>4, <7>1 DEF IInv, Copied
          <6> QED BY <6>3, <6>4
        <5>4. ASSUME iap.crc \in Versions
              PROVE  /\ iap.current_page # None
                     /\ \A a \in 0 .. iap.current_page :
                          IF a < SectorPages THEN iap.sector_buf[a] = iap.crc
                          ELSE flash'[a] = iap.crc
          <6>1. /\ iap.current_page # None
                /\ \A a \in 0 .. iap.current_page :
                     IF a < SectorPages THEN iap.sector_buf[a] = iap.crc
                     ELSE flash[a] = iap.crc
            BY <1>1, <5>1, <5>4 DEF IInv, Copied
          <6>2. \A a \in 0 .. iap.current_page : a \in 0 .. s - 1
            BY <2>1, <2>2, <4>4
          <6>3. \A a \in 0 .. s - 1 : a \in Addrs /\ a \notin Sector(s)
            BY <2>2, <5>2, Sizes DEF Addrs, Sector
          <6> QED BY <4>4, <6>1, <6>2, <6>3
        <5> QED BY <4>2, <5>3, <5>4 DEF Copied
      <4>11. Recoverable'
        BY <1>1, <4>5, <4>8, SafeWrite
      <4> QED BY <4>6, <4>7, <4>9, <4>10, <4>11 DEF IInv
    <3> QED BY <3>1, <3>3, <3>4 DEF Operation, Stops
  <2> QED BY <2>3, <2>4
<1> QED BY <1>2, <1>3

(***************************************************************************)
(* Programming                                                             *)
(***************************************************************************)
\* A call of program_page by whoever writes
Programming == session.user # "none" /\ iap.state = "open" /\ iap.at = "idle"

Checked(p) == PageErased(p) /\ PageSequential(p) /\ PageProgramAllowed(p) /\ InBounds(p)

\* The block is the next one, in a sector that was erased and is blank from there.
LEMMA ProgramsNext ==
  ASSUME IInv, NEW p \in Int, Programming, Checked(p)
  PROVE  /\ UpdateStart <= p /\ p < UpdateEnd /\ p \in 0 .. 2 * NumPages - 1
         /\ p \notin AppStart .. AppStart + NumPages - 1
         /\ iap.current_sector # None /\ p < iap.current_sector + SectorPages
         /\ iap.current_page < p /\ (iap.current_page # None => p = iap.current_page + 1)
         /\ iap.chip = None
         /\ Intercepts => /\ ~iap.update_complete /\ flash[BLStart] = Vectors
                          /\ p >= SectorPages => flash[p] = Blank
<1>0. /\ iap \in IapType /\ iap.current_sector \in Int /\ iap.current_page \in Int
      /\ UpdateStart \in Nat /\ UpdateEnd = UpdateStart + NumPages /\ UpdateStart <= NumPages
  BY Sizes DEF IInv, TypeOK, IapType, UpdateEnd, UpdateStart
<1>1. UpdateStart <= p /\ p < UpdateEnd /\ p \in 0 .. 2 * NumPages - 1
  BY <1>0, Sizes DEF Checked, InBounds
<1>2. iap.current_sector # None /\ p < iap.current_sector + SectorPages
  <2>1. CASE iap.mass_erase_performed
    BY <1>0, <1>1, <2>1, Sizes DEF IInv, Sectors, Programming
  <2>2. CASE ~iap.mass_erase_performed
    BY <2>2 DEF Checked, PageErased
  <2> QED BY <2>1, <2>2
<1>3. iap.current_page < p /\ (iap.current_page # None => p = iap.current_page + 1)
  BY <1>0, <1>1 DEF Checked, PageSequential
<1>4. iap.chip = None
  BY DEF IInv, Sectors, Programming
<1>5. Intercepts => ~iap.update_complete
  BY <1>0, <1>1, <1>3, Sizes DEF IInv, Placed, Programming
<1>6. Intercepts => flash[BLStart] = Vectors
  BY <1>2, <1>5 DEF IInv, Placed, Programming
<1>7. Intercepts /\ p >= SectorPages => flash[p] = Blank
  <2>1. p >= SectorPages => p \in SectorPages .. iap.current_sector + SectorPages - 1
    BY <1>0, <1>2, Sizes
  <2> QED BY <1>2, <1>3, <1>5, <2>1 DEF IInv, Copied, Programming
<1>8. p \notin AppStart .. AppStart + NumPages - 1
  BY <1>0, <1>1, Sizes DEF AppStart, UpdateStart
<1> QED BY <1>1, <1>2, <1>3, <1>4, <1>5, <1>6, <1>7, <1>8

\* What the CRC says of the image goes on to hold with the next block.
LEMMA CopiedNext ==
  ASSUME IInv, NEW p \in Int, NEW d \in Data, Programming, Checked(p), running' = running,
         iap'.current_sector = iap.current_sector, iap'.current_page = p,
         iap'.crc = CrcContinue(p, d),
         \A a \in Addrs \ {p} : flash'[a] = flash[a],
         \A a \in 0 .. SectorPages - 1 : a # p => iap'.sector_buf[a] = iap.sector_buf[a],
         Intercepts => IF p < SectorPages THEN iap'.sector_buf[p] = d ELSE flash'[p] = d
  PROVE  Copied'
<1>1. /\ UpdateStart <= p /\ p < UpdateEnd /\ p \in 0 .. 2 * NumPages - 1
      /\ iap.current_sector # None /\ iap.current_sector < UpdateEnd
      /\ iap.current_page < p /\ (iap.current_page # None => p = iap.current_page + 1)
      /\ iap.current_page \in Int /\ iap.current_sector \in Nat
      /\ Intercepts => ~iap.update_complete
  BY ProgramsNext DEF IInv, TypeOK, IapType, Sectors, Programming
<1>2. SUFFICES ASSUME Intercepts
               PROVE  /\ \A a \in SectorPages .. iap.current_sector + SectorPages - 1 :
                           a > p => flash'[a] = Blank
                      /\ iap'.crc \in Versions =>
                           \A a \in 0 .. p : IF a < SectorPages THEN iap'.sector_buf[a] = iap'.crc
                                            ELSE flash'[a] = iap'.crc
  BY <1>1 DEF Copied, Intercepts
<1>3. UpdateStart = 0 /\ UpdateEnd = NumPages
  BY <1>2, Sizes DEF Intercepts, UpdateStart, UpdateEnd
<1>4. ASSUME NEW a \in SectorPages .. iap.current_sector + SectorPages - 1, a > p
      PROVE  flash'[a] = Blank
  <2>1. flash[a] = Blank
    BY <1>1, <1>2, <1>4, Sizes DEF IInv, Copied, Programming
  <2>2. a \in Addrs
    <3>1. iap.current_sector - UpdateStart \in Int /\ Aligned(iap.current_sector - UpdateStart)
      BY <1>1, <1>3 DEF IInv, Sectors, Programming
    <3>2. iap.current_sector + SectorPages <= NumPages
      BY <1>1, <1>3, <3>1, SectorEnds, Sizes
    <3> QED BY <1>1, <3>2, Sizes DEF Addrs
  <2> QED BY <1>1, <1>4, <2>1, <2>2
<1>5. ASSUME iap'.crc \in Versions, NEW a \in 0 .. p
      PROVE  IF a < SectorPages THEN iap'.sector_buf[a] = iap'.crc ELSE flash'[a] = iap'.crc
  <2>1. iap'.crc = d /\ (p = 0 \/ iap.crc = d)
    BY <1>3, <1>5, Sizes DEF CrcContinue
  <2>2. CASE a = p
    BY <1>2, <2>1, <2>2
  <2>3. CASE a # p
    <3>1. iap.crc = d /\ d \in Versions
      BY <1>5, <2>1, <2>3
    <3>2. a \in 0 .. iap.current_page
      BY <1>1, <1>2, <2>3, <3>1 DEF IInv, Copied, Programming
    <3>3. IF a < SectorPages THEN iap.sector_buf[a] = d ELSE flash[a] = d
      BY <1>1, <1>2, <3>1, <3>2 DEF IInv, Copied, Programming
    <3>4. a \in Addrs /\ (a < SectorPages => a \in 0 .. SectorPages - 1)
      BY <1>1, Sizes DEF Addrs
    <3> QED BY <2>1, <2>3, <3>3, <3>4
  <2> QED BY <2>2, <2>3
<1> QED BY <1>4, <1>5

LEMMA WithPageType ==
  ASSUME IInv, NEW p \in 0 .. 2 * NumPages - 1, NEW d \in Data
  PROVE  /\ WithPage(p, d) \in IapType
         /\ WithPage(p, d) = [iap EXCEPT !.current_page = p, !.crc = WithPage(p, d).crc]
         /\ WithPage(p, d).crc = IF Intercepts THEN CrcContinue(p, d) ELSE iap.crc
<1>1. CrcContinue(p, d) \in Data
  BY DEF CrcContinue, Data
<1>2. iap \in IapType
  BY DEF IInv, TypeOK
<1>3. WithPage(p, d).crc = IF Intercepts THEN CrcContinue(p, d) ELSE iap.crc
  BY <1>2 DEF WithPage, IapType
<1>4. WithPage(p, d) = [iap EXCEPT !.current_page = p, !.crc = WithPage(p, d).crc]
  BY <1>2, <1>3 DEF WithPage, IapType
<1>5. WithPage(p, d).crc \in Data \cup {0} /\ p \in 0 .. 2 * NumPages
  BY <1>1, <1>2, <1>3, Sizes DEF IapType
<1> QED BY <1>2, <1>3, <1>4, <1>5 DEF IapType

LEMMA ProgramKeeps ==
  ASSUME IInv, NEW p \in Int, NEW d \in Data, Programming, ProgramPage(p, d)
  PROVE  IInv'
<1>1. /\ iap \in IapType /\ verdict' = verdict /\ lost' = lost /\ session.user # "none"
      /\ iap.state = "open" /\ iap.at = "idle" /\ lost' \in BOOLEAN
  BY DEF IInv, TypeOK, ProgramPage, Programming
<1>2. CASE ~Checked(p)
  BY <1>1, <1>2, RefusedKeeps DEF ProgramPage, Checked
<1>3. CASE Checked(p)
  <2> DEFINE i == WithPage(p, d)
             last == p = UpdateEnd - 1
  <2>1. /\ UpdateStart <= p /\ p < UpdateEnd /\ p \in 0 .. 2 * NumPages - 1
        /\ p \notin AppStart .. AppStart + NumPages - 1
        /\ iap.current_sector # None /\ p < iap.current_sector + SectorPages
        /\ iap.current_page < p /\ (iap.current_page # None => p = iap.current_page + 1)
        /\ iap.chip = None
        /\ Intercepts => /\ ~iap.update_complete /\ flash[BLStart] = Vectors
                         /\ p >= SectorPages => flash[p] = Blank
    BY <1>3, ProgramsNext
  <2>2. /\ i \in IapType /\ i = [iap EXCEPT !.current_page = p, !.crc = i.crc]
        /\ i.crc = IF Intercepts THEN CrcContinue(p, d) ELSE iap.crc
    BY <2>1, WithPageType
  <2>3. /\ i.state = "open" /\ i.at = "idle" /\ i.chip = None /\ i.current_page = p
        /\ i.current_sector = iap.current_sector /\ i.sector_buf = iap.sector_buf
        /\ i.mass_erase_performed = iap.mass_erase_performed
        /\ i.update_complete = iap.update_complete
    BY <1>1, <2>1, <2>2 DEF IapType
  <2>4. /\ UpdateStart \in Nat /\ UpdateEnd = UpdateStart + NumPages
        /\ iap.current_sector \in Nat /\ p \in Nat /\ p # None
        /\ Intercepts => UpdateStart = 0
    BY <1>1, <2>1, Sizes DEF UpdateStart, UpdateEnd, IapType, Intercepts
  <2> HIDE DEF i
  <2>5. CASE Intercepts /\ p \in Sector(UpdateStart)
    <3>1. /\ iap' = [i EXCEPT !.sector_buf[p - UpdateStart] = d]
          /\ UNCHANGED <<flash, running, session>>
      BY <1>3, <2>5 DEF ProgramPage, Checked, i
    <3>2. UpdateStart = 0 /\ p \in 0 .. SectorPages - 1
      BY <2>4, <2>5, Sizes DEF Sector
    <3>3. i.sector_buf \in [0 .. SectorPages - 1 -> Data]
      BY <2>2 DEF IapType
    <3>4. /\ iap' = [i EXCEPT !.sector_buf = [i.sector_buf EXCEPT ![p] = d]]
          /\ [i.sector_buf EXCEPT ![p] = d] \in [0 .. SectorPages - 1 -> Data]
      <4>1. p - UpdateStart = p
        BY <3>2
      <4>2. i.sector_buf[p] \in Data /\ [i.sector_buf EXCEPT ![p] = d] \in [0 .. SectorPages - 1 -> Data]
        BY <3>2, <3>3
      <4> QED BY <2>2, <3>1, <4>1, <4>2 DEF IapType
    <3>5. /\ iap' \in IapType /\ iap'.state = "open" /\ iap'.at = "idle"
          /\ iap'.chip = None /\ iap'.current_page = p
          /\ iap'.current_sector = iap.current_sector
          /\ iap'.mass_erase_performed = iap.mass_erase_performed
          /\ iap'.update_complete = iap.update_complete
          /\ iap'.crc = i.crc /\ iap'.sector_buf = [i.sector_buf EXCEPT ![p] = d]
      BY <2>2, <2>3, <3>4 DEF IapType
    <3>6. /\ \A a \in 0 .. SectorPages - 1 : a # p => iap'.sector_buf[a] = iap.sector_buf[a]
          /\ iap'.sector_buf[p] = d
      BY <2>3, <3>2, <3>3, <3>5
    <3>7. Copied'
      <4>1. p < SectorPages
        BY <3>2, Sizes
      <4>2. iap'.crc = CrcContinue(p, d)
        BY <2>2, <2>5, <3>5
      <4>3. running' = running /\ \A a \in Addrs \ {p} : flash'[a] = flash[a]
        BY <3>1
      <4> QED BY <1>3, <3>5, <3>6, <4>1, <4>2, <4>3, CopiedNext
    <3>8. AppKept /\ flash' \in [Addrs -> Contents]
      BY <3>1 DEF AppKept, IInv, TypeOK
    <3>9. TypeOK' /\ Calm' /\ Images' /\ VerdictTrue'
      BY <1>1, <3>1, <3>5, <3>8, GoesOn
    <3>10. Intercepts' = Intercepts /\ UpdateStart' = UpdateStart /\ UpdateEnd' = UpdateEnd
      BY <3>1 DEF Intercepts, UpdateStart, UpdateEnd
    <3>11. Sectors'
      BY <1>1, <2>1, <2>4, <3>1, <3>5, <3>10, Sizes DEF IInv, Sectors
    <3>12. Placed'
      BY <2>1, <2>5, <3>1, <3>5, <3>10 DEF Placed
    <3>13. Recoverable'
      BY <1>1, <2>1, <3>1, <3>8, SafeWrite
    <3> QED BY <3>7, <3>9, <3>11, <3>12, <3>13 DEF IInv
  <2>6. CASE ~(Intercepts /\ p \in Sector(UpdateStart)) /\ Intercepts /\ last /\ ~CrcMatches(i.crc)
    <3>1. iap' = Failing(i) /\ UNCHANGED <<flash, running, session>>
      BY <1>3, <2>6 DEF ProgramPage, Checked, i
    <3> QED BY <1>1, <2>2, <3>1, RefusedKeeps
  <2>7. CASE /\ ~(Intercepts /\ p \in Sector(UpdateStart))
             /\ ~(Intercepts /\ last /\ ~CrcMatches(i.crc))
    <3> DEFINE done == IF Intercepts /\ last THEN [i EXCEPT !.at = "swap"] ELSE PageDone(i, p)
    <3>1. Operation({p}, ProgrammedPage(p, d), done, Failing(i))
      BY <1>3, <2>7 DEF ProgramPage, Checked, i
    <3>2. Intercepts => p >= SectorPages /\ p # BLStart
      BY <2>1, <2>4, <2>7, Sizes DEF Sector
    <3>3. CASE Stops({p}, Failing(i))
      <4>1. \A a \in AppStart .. AppStart + NumPages - 1 : a \notin {p}
        BY <2>1
      <4>2. Intercepts => flash[BLStart] = Vectors /\ BLStart \notin {p}
        BY <2>1, <3>2
      <4>3. /\ Failing(i) \in IapType /\ Failing(i).state = "error" /\ Failing(i).at = "idle"
        BY <2>2, FailingType
      <4> QED BY <1>1, <3>3, <4>1, <4>2, <4>3, OperationStops
    <3>4. CASE /\ flash' = ProgrammedPage(p, d) /\ iap' = done
               /\ UNCHANGED <<running, session>>
      <4>1. /\ iap' \in IapType /\ iap'.state = "open" /\ iap'.chip = None
            /\ iap'.at = (IF Intercepts /\ last THEN "swap" ELSE "idle")
            /\ iap'.current_page = p /\ iap'.current_sector = iap.current_sector
            /\ iap'.mass_erase_performed = iap.mass_erase_performed
            /\ iap'.crc = i.crc /\ iap'.sector_buf = iap.sector_buf
            /\ Intercepts => ~iap'.update_complete
        <5>1. CASE Intercepts /\ last
          <6>1. iap' = [i EXCEPT !.at = "swap"]
            BY <3>4, <5>1
          <6> QED BY <2>1, <2>2, <2>3, <5>1, <6>1 DEF IapType
        <5>2. CASE ~(Intercepts /\ last)
          <6>1. iap' = [i EXCEPT !.update_complete = i.update_complete \/ p + 1 >= UpdateEnd]
            BY <3>4, <5>2 DEF PageDone
          <6>2. (i.update_complete \/ p + 1 >= UpdateEnd) \in BOOLEAN
            BY <2>2 DEF IapType
          <6>3. iap' \in IapType
            BY <2>2, <6>1, <6>2 DEF IapType
          <6>4. Intercepts => ~(i.update_complete \/ p + 1 >= UpdateEnd)
            BY <2>1, <2>3, <2>4, <5>2, Sizes
          <6> QED BY <2>2, <2>3, <5>2, <6>1, <6>3, <6>4 DEF IapType
        <5> QED BY <5>1, <5>2
      <4>2. flash \in [Addrs -> Contents] /\ p \in Addrs /\ d \in Contents /\ BLStart \in Addrs
        BY <2>1, Sizes DEF IInv, TypeOK, Addrs, Contents
      <4>3. /\ flash' \in [Addrs -> Contents] /\ \A a \in Addrs \ {p} : flash'[a] = flash[a]
            /\ flash'[p] = IF flash[p] = Blank THEN d ELSE Garbage
        BY <3>4, <4>2, FlashTypes DEF ProgrammedPage, IInv
      <4>4. AppKept
        <5>1. \A a \in AppStart .. AppStart + NumPages - 1 : a \in Addrs \ {p}
          BY <2>1, Sizes DEF AppStart, Addrs
        <5> QED BY <4>3, <5>1 DEF AppKept
      <4>5. TypeOK' /\ Calm' /\ Images' /\ VerdictTrue'
        BY <1>1, <3>4, <4>1, <4>3, <4>4, GoesOn
      <4>6. Intercepts' = Intercepts /\ UpdateStart' = UpdateStart /\ UpdateEnd' = UpdateEnd
        BY <3>4 DEF Intercepts, UpdateStart, UpdateEnd
      <4>7. Sectors'
        BY <1>1, <2>1, <2>4, <3>4, <4>1, <4>6, Sizes DEF IInv, Sectors
      <4>8. Intercepts => flash'[BLStart] = flash[BLStart]
        BY <3>2, <4>2, <4>3
      <4>9. Placed'
        <5>1. Intercepts /\ last => i.crc \in Versions
          BY <2>7 DEF CrcMatches
        <5> QED BY <2>1, <4>1, <4>6, <4>8, <5>1 DEF Placed
      <4>10. Copied'
        <5>1. CASE Intercepts
          <6>1. p >= SectorPages /\ flash'[p] = d
            BY <2>1, <3>2, <4>3, <5>1
          <6>2. ~(p < SectorPages)
            BY <2>4, <6>1, Sizes
          <6> QED BY <1>3, <2>2, <3>4, <4>1, <4>3, <5>1, <6>1, <6>2, CopiedNext
        <5>2. CASE ~Intercepts
          BY <4>6, <5>2 DEF Copied
        <5> QED BY <5>1, <5>2
      <4>11. Recoverable'
        BY <1>1, <2>1, <4>4, <4>8, SafeWrite
      <4> QED BY <4>5, <4>7, <4>9, <4>10, <4>11 DEF IInv
    <3> QED BY <3>1, <3>3, <3>4 DEF Operation, Stops
  <2> QED BY <2>5, <2>6, <2>7
<1> QED BY <1>2, <1>3

(***************************************************************************)
(* The loop of erase_chip, and the critical sections                       *)
(***************************************************************************)
LEMMA ChipKeeps ==
  ASSUME IInv, ChipStep
  PROVE  IInv'
<1>1. /\ iap \in IapType /\ iap.state = "open" /\ session.user # "none" /\ iap.at = "chip"
      /\ iap.chip \in Int /\ iap.current_sector \in Int
      /\ UpdateStart \in Nat /\ UpdateEnd = UpdateStart + NumPages
  BY Sizes DEF IInv, TypeOK, Calm, ChipStep, IapType, UpdateStart, UpdateEnd
<1>2. iap.chip = IF iap.current_sector = None THEN UpdateStart
                 ELSE iap.current_sector + SectorPages
  BY <1>1 DEF IInv, Sectors
<1>3. CASE iap.chip < UpdateEnd /\ EraseSector(iap.chip)
  <2>1. Erasing(iap.chip)
    BY <1>1, <1>2 DEF Erasing
  <2> QED BY <1>1, <1>3, <2>1, EraseKeeps
<1>4. CASE /\ iap.chip >= UpdateEnd /\ iap' = ChipDone(iap)
           /\ UNCHANGED <<flash, running, session, verdict, lost>>
  <2>1. /\ iap.current_sector # None /\ iap.current_sector + SectorPages >= UpdateEnd
        /\ iap.chip # None
    BY <1>1, <1>2, <1>4, Sizes
  <2>2. ~session.page_erase /\ iap.current_page = None
    BY <1>1, <2>1 DEF IInv, Sectors
  <2>3. /\ iap' \in IapType /\ iap'.state = "open" /\ iap'.at = "idle" /\ iap'.chip = None
        /\ iap'.mass_erase_performed = TRUE /\ iap'.current_page = None
        /\ iap'.current_sector = iap.current_sector /\ iap'.crc = iap.crc
        /\ iap'.sector_buf = iap.sector_buf /\ iap'.update_complete = iap.update_complete
    BY <1>1, <1>4, <2>2 DEF ChipDone, IapType
  <2>4. AppKept /\ flash' \in [Addrs -> Contents] /\ lost' \in BOOLEAN
    BY <1>4 DEF AppKept, IInv, TypeOK
  <2>5. TypeOK' /\ Calm' /\ Images' /\ VerdictTrue'
    BY <1>1, <1>4, <2>3, <2>4, GoesOn
  <2>6. Intercepts' = Intercepts /\ UpdateStart' = UpdateStart /\ UpdateEnd' = UpdateEnd
    BY <1>4 DEF Intercepts, UpdateStart, UpdateEnd
  <2>7. Sectors'
    BY <1>1, <1>4, <2>1, <2>2, <2>3, <2>6 DEF IInv, Sectors
  <2>8. Intercepts => ~iap.update_complete /\ flash[BLStart] = Vectors
    BY <1>1, <2>1 DEF IInv, Placed
  <2>9. Placed'
    BY <1>4, <2>3, <2>6, <2>8 DEF Placed
  <2>10. Copied'
    BY <1>1, <1>4, <2>2, <2>3, <2>6, <2>8 DEF IInv, Copied
  <2>11. Recoverable'
    BY <1>1, <1>4, <2>4, <2>8, SafeWrite
  <2> QED BY <2>5, <2>7, <2>9, <2>10, <2>11 DEF IInv
<1> QED BY <1>3, <1>4 DEF ChipStep

\* The first sector of the bootloader is not the interface's.
LEMMA FirstSector ==
  ASSUME Intercepts
  PROVE  /\ \A a \in AppStart .. AppStart + NumPages - 1 :
              a \in Addrs /\ a \notin Sector(BLStart) /\ a \notin {BLStart}
         /\ BLStart \in Sector(BLStart) /\ UpdateStart = 0 /\ UpdateEnd = NumPages
         /\ Sector(BLStart) = 0 .. SectorPages - 1 /\ 0 \in Addrs
  BY Sizes DEF Intercepts, AppStart, Addrs, Sector, UpdateStart, UpdateEnd

LEMMA VectorsKeep ==
  ASSUME IInv, ProgramVectors
  PROVE  IInv'
<1>1. /\ iap \in IapType /\ iap.state = "open" /\ session.user # "none" /\ iap.at = "vectors"
      /\ verdict' = verdict /\ lost' \in BOOLEAN
  BY DEF IInv, TypeOK, Calm, ProgramVectors
<1>2. /\ Intercepts /\ iap.current_sector = 0 /\ iap.current_page = None
      /\ iap.chip \in {None, 0} /\ (iap.chip # None => ~session.page_erase)
      /\ flash[0] = Blank /\ ~iap.update_complete /\ iap.mass_erase_performed = FALSE
  <2>1. Intercepts
    BY <1>1 DEF IInv, Sectors
  <2>2. SectorPages < UpdateEnd /\ 0 \in Sector(0)
    BY <2>1, FirstSector, Sizes
  <2>3. /\ iap.current_sector = 0 /\ iap.current_page = None
        /\ iap.chip \in {None, 0} /\ (iap.chip # None => ~session.page_erase)
        /\ iap.mass_erase_performed => iap.current_sector + SectorPages >= UpdateEnd
    BY <1>1 DEF IInv, Sectors
  <2>4. ~iap.mass_erase_performed
    BY <2>2, <2>3, Sizes DEF UpdateEnd, UpdateStart
  <2>5. flash[0] = Blank /\ ~iap.update_complete
    BY <1>1, <2>1, <2>2 DEF IInv, Placed
  <2>6. iap.mass_erase_performed \in BOOLEAN
    BY <1>1 DEF IapType
  <2> QED BY <2>1, <2>3, <2>4, <2>5, <2>6
<1>3. Operation({BLStart}, ProgrammedPage(BLStart, Vectors), SectorDone(iap), Failing(iap))
  BY DEF ProgramVectors
<1>4. /\ SectorDone(iap) \in IapType /\ SectorDone(iap).state = "open"
      /\ SectorDone(iap).current_sector = 0 /\ SectorDone(iap).current_page = None
      /\ SectorDone(iap).crc = iap.crc /\ ~SectorDone(iap).update_complete
      /\ SectorDone(iap).mass_erase_performed = FALSE
      /\ \/ iap.chip = None /\ SectorDone(iap).at = "idle" /\ SectorDone(iap).chip = None
         \/ /\ iap.chip = 0 /\ SectorDone(iap).at = "chip"
            /\ SectorDone(iap).chip = SectorPages
  <2>1. CASE iap.chip = None
    BY <1>1, <1>2, <2>1 DEF SectorDone, IapType
  <2>2. CASE iap.chip = 0
    <3>1. SectorDone(iap) = [iap EXCEPT !.at = "chip", !.chip = SectorPages]
      <4>1. iap.chip + SectorPages = SectorPages /\ iap.chip # None
        BY <2>2, Sizes
      <4>2. SectorDone(iap) = [iap EXCEPT !.at = "chip", !.chip = iap.chip + SectorPages]
        BY <1>1, <4>1 DEF SectorDone, IapType
      <4> QED BY <4>1, <4>2
    <3>2. SectorPages \in 0 .. 2 * NumPages
      BY Sizes
    <3> QED BY <1>1, <1>2, <2>2, <3>1, <3>2 DEF IapType
  <2> QED BY <1>2, <2>1, <2>2
<1>5. CASE Stops({BLStart}, Failing(iap))
  <2>1. iap'.state # "open"
    BY <1>1, <1>5, FailingType DEF Stops, PowerLost, IapClosed
  <2>2. lost'
    BY <1>4, <2>1 DEF ProgramVectors
  <2> QED BY <1>1, <1>2, <1>5, <2>2, FailingType, FirstSector, OperationStops
<1>6. CASE /\ flash' = ProgrammedPage(BLStart, Vectors) /\ iap' = SectorDone(iap)
           /\ UNCHANGED <<running, session>>
  <2>1. flash \in [Addrs -> Contents] /\ Vectors \in Contents /\ 0 \in Addrs
    BY <1>2, FirstSector DEF IInv, TypeOK, Contents
  <2>2. /\ flash' \in [Addrs -> Contents] /\ flash'[0] = Vectors
        /\ \A a \in Addrs \ {0} : flash'[a] = flash[a]
    BY <1>2, <1>6, <2>1, FlashTypes DEF ProgrammedPage, IInv
  <2>3. AppKept
    BY <1>2, <2>2, FirstSector DEF AppKept
  <2>4. TypeOK' /\ Calm' /\ Images' /\ VerdictTrue'
    BY <1>1, <1>4, <1>6, <2>2, <2>3, GoesOn
  <2>5. Intercepts' /\ UpdateStart' = 0 /\ UpdateEnd' = NumPages /\ Aligned(0)
    BY <1>2, <1>6, FirstSector, Sizes DEF Intercepts, UpdateStart, UpdateEnd, Aligned
  <2>6. Sectors'
    BY <1>2, <1>4, <1>6, <2>5, Sizes DEF Sectors
  <2>7. Placed'
    BY <1>4, <1>6, <2>2 DEF Placed
  <2>8. Copied'
    <3>1. iap.crc \notin Versions
      BY <1>1, <1>2 DEF IInv, Copied
    <3> QED BY <1>4, <1>6, <3>1, Sizes DEF Copied
  <2>9. Recoverable'
    <3>1. running \in {"starting", "interface"}
      BY <1>1, <1>2, Writing DEF Intercepts
    <3> QED BY <2>2, <2>3, <3>1, RunningKept DEF Recoverable, IInv
  <2> QED BY <2>4, <2>6, <2>7, <2>8, <2>9 DEF IInv
<1> QED BY <1>3, <1>5, <1>6 DEF Operation, Stops

\* All but the first sector is written, and the image's CRC was right.
LEMMA Copy ==
  ASSUME IInv, iap.at \in {"swap", "swapping"}
  PROVE  /\ iap \in IapType /\ iap.state = "open" /\ session.user # "none" /\ Intercepts
         /\ iap.chip = None /\ ~iap.update_complete /\ iap.current_sector \in Int
         /\ iap.crc \in Versions /\ iap.current_page = NumPages - 1
         /\ \A a \in 0 .. NumPages - 1 :
              IF a < SectorPages THEN iap.sector_buf[a] = iap.crc ELSE flash[a] = iap.crc
<1>1. iap \in IapType /\ iap.state = "open" /\ session.user # "none" /\ iap.current_sector \in Int
  BY DEF IInv, TypeOK, Calm, IapType
<1>2. Intercepts /\ iap.chip = None /\ ~iap.update_complete /\ iap.crc \in Versions
      /\ iap.current_page = UpdateEnd - 1
  BY <1>1 DEF IInv, Sectors, Placed
<1>3. iap.current_page = NumPages - 1
  BY <1>2, FirstSector
<1> QED BY <1>1, <1>2, <1>3 DEF IInv, Copied

LEMMA SwappedType ==
  ASSUME IInv
  PROVE  /\ Swapped(iap) \in IapType
         /\ Swapped(iap) = [iap EXCEPT !.update_complete = TRUE, !.at = "idle"]
  BY DEF IInv, TypeOK, Swapped, IapType

LEMMA EraseFirstKeeps ==
  ASSUME IInv, EraseFirst
  PROVE  IInv'
<1>1. iap.at = "swap" /\ verdict' = verdict /\ lost' \in BOOLEAN
      /\ lost' = (lost \/ iap'.at # "swapping")
  BY DEF EraseFirst, IInv, TypeOK
<1>2. Operation(Sector(BLStart), ErasedSector(BLStart),
                [iap EXCEPT !.at = "swapping"], Failing(Swapped(iap)))
  BY DEF EraseFirst
<1>3. /\ Failing(Swapped(iap)) \in IapType /\ Failing(Swapped(iap)).state = "error"
      /\ Failing(Swapped(iap)).at = "idle"
  BY SwappedType, FailingType
<1>4. CASE Stops(Sector(BLStart), Failing(Swapped(iap)))
  <2>1. iap'.at # "swapping"
    BY <1>3, <1>4 DEF Stops, PowerLost, IapClosed
  <2>2. lost' = TRUE
    BY <1>1, <2>1
  <2> QED BY <1>1, <1>3, <1>4, <2>2, Copy, FirstSector, OperationStops
<1>5. CASE /\ flash' = ErasedSector(BLStart) /\ iap' = [iap EXCEPT !.at = "swapping"]
           /\ UNCHANGED <<running, session>>
  <2>1. /\ iap' \in IapType /\ iap'.state = "open" /\ iap'.at = "swapping" /\ iap'.chip = None
        /\ iap'.current_page = iap.current_page /\ iap'.current_sector = iap.current_sector
        /\ iap'.crc = iap.crc /\ iap'.sector_buf = iap.sector_buf
        /\ iap'.mass_erase_performed = iap.mass_erase_performed /\ ~iap'.update_complete
    BY <1>1, <1>5, Copy DEF IapType
  <2>2. /\ flash' \in [Addrs -> Contents]
        /\ \A a \in Addrs : flash'[a] = IF a \in Sector(0) THEN Blank ELSE flash[a]
    <3>1. flash' = ErasedSector(0)
      BY <1>5
    <3>2. ErasedSector(0) \in [Addrs -> Contents]
      BY FlashTypes DEF IInv
    <3>3. \A a \in Addrs : ErasedSector(0)[a] = IF a \in Sector(0) THEN Blank ELSE flash[a]
      BY DEF ErasedSector
    <3> QED BY <3>1, <3>2, <3>3
  <2>3. AppKept
    BY <1>1, <2>2, Copy, FirstSector DEF AppKept
  <2>4. TypeOK' /\ Calm' /\ Images' /\ VerdictTrue'
    BY <1>1, <1>5, <2>1, <2>2, <2>3, Copy, GoesOn
  <2>5. /\ Intercepts /\ Intercepts' = Intercepts
        /\ UpdateStart' = UpdateStart /\ UpdateEnd' = UpdateEnd
    BY <1>1, <1>5, Copy DEF Intercepts, UpdateStart, UpdateEnd
  <2>6. Sectors'
    BY <1>1, <1>5, <2>1, <2>5, Copy DEF IInv, Sectors
  <2>7. Placed'
    <3>1. \A a \in Sector(0) : flash'[a] = Blank
      BY <2>2, <2>5, FirstSector, Sizes DEF Addrs
    <3> QED BY <1>1, <2>1, <2>5, <3>1, Copy, FirstSector DEF Placed
  <2>8. Copied'
    <3>1. iap.current_sector # None => iap.current_sector + SectorPages <= NumPages
      <4>1. ASSUME iap.current_sector # None
            PROVE  Aligned(iap.current_sector - 0) /\ iap.current_sector < NumPages
        BY <1>1, <2>5, <4>1, Copy, FirstSector DEF IInv, Sectors
      <4> QED BY <1>1, <4>1, Copy, SectorEnds
    <3>2. \A a \in 0 .. NumPages - 1 : ~(a < SectorPages) => flash'[a] = iap.crc
      <4>1. \A a \in 0 .. NumPages - 1 : a \in Addrs /\ (a \in Sector(0) => a < SectorPages)
        BY Sizes DEF Addrs, Sector
      <4> QED BY <1>1, <2>2, <4>1, Copy
    <3>3. iap.current_sector # None => \A a \in SectorPages .. iap.current_sector + SectorPages - 1 :
            ~(a > iap.current_page)
      BY <1>1, <3>1, Copy, Sizes
    <3> QED BY <1>1, <2>1, <3>2, <3>3, Copy, Sizes DEF Copied
  <2>9. Recoverable'
    BY <2>1 DEF Recoverable
  <2> QED BY <2>4, <2>6, <2>7, <2>8, <2>9 DEF IInv
<1> QED BY <1>2, <1>4, <1>5 DEF Operation, Stops

LEMMA ProgramFirstKeeps ==
  ASSUME IInv, ProgramFirst
  PROVE  IInv'
<1>1. iap.at = "swapping" /\ verdict' = verdict /\ lost' \in BOOLEAN
      /\ lost' = (iap' # Swapped(iap))
  BY DEF ProgramFirst
<1>2. Operation(Sector(BLStart), ProgrammedFirst, Swapped(iap), Failing(Swapped(iap)))
  BY DEF ProgramFirst
<1>3. /\ Failing(Swapped(iap)) \in IapType /\ Failing(Swapped(iap)).state = "error"
      /\ Failing(Swapped(iap)).at = "idle" /\ Swapped(iap).state = "open"
  BY <1>1, SwappedType, FailingType, Copy DEF IapType
<1>4. CASE Stops(Sector(BLStart), Failing(Swapped(iap)))
  <2>1. iap'.state # "open"
    BY <1>3, <1>4 DEF Stops, PowerLost, IapClosed
  <2>2. lost'
    BY <1>1, <1>3, <2>1
  <2> QED BY <1>1, <1>3, <1>4, <2>2, Copy, FirstSector, OperationStops
<1>5. CASE flash' = ProgrammedFirst /\ iap' = Swapped(iap) /\ UNCHANGED <<running, session>>
  <2>1. /\ iap' \in IapType /\ iap'.state = "open" /\ iap'.at = "idle" /\ iap'.chip = None
        /\ iap'.current_page = iap.current_page /\ iap'.current_sector = iap.current_sector
        /\ iap'.mass_erase_performed = iap.mass_erase_performed /\ iap'.update_complete
    BY <1>1, <1>5, SwappedType, Copy DEF IapType
  <2>2. /\ flash' \in [Addrs -> Contents]
        /\ \A a \in Addrs : flash'[a] =
             IF a \notin Sector(0) THEN flash[a]
             ELSE IF flash[a] = Blank THEN iap.sector_buf[a] ELSE Garbage
    BY <1>5, FlashTypes DEF ProgrammedFirst, IInv
  <2>3. AppKept
    BY <1>1, <2>2, Copy, FirstSector DEF AppKept
  <2>4. TypeOK' /\ Calm' /\ Images' /\ VerdictTrue'
    BY <1>1, <1>5, <2>1, <2>2, <2>3, Copy, GoesOn
  <2>5. /\ Intercepts /\ Intercepts' = Intercepts
        /\ UpdateStart' = UpdateStart /\ UpdateEnd' = UpdateEnd
    BY <1>1, <1>5, Copy DEF Intercepts, UpdateStart, UpdateEnd
  <2>6. Sectors'
    BY <1>1, <1>5, <2>1, <2>5, Copy DEF IInv, Sectors
  <2>7. BLComplete'
    <3>1. \A a \in Sector(0) : flash[a] = Blank
      BY <1>1, <2>5, Copy DEF IInv, Placed
    <3>2. ASSUME NEW a \in 0 .. NumPages - 1
          PROVE  flash'[a] = iap.crc
      <4>1. a \in Addrs /\ (a \in Sector(0) <=> a < SectorPages)
        BY Sizes DEF Addrs, Sector
      <4>2. IF a < SectorPages THEN iap.sector_buf[a] = iap.crc ELSE flash[a] = iap.crc
        BY <1>1, Copy
      <4> QED BY <2>2, <3>1, <4>1, <4>2
    <3>3. iap.crc \in Versions
      BY <1>1, Copy
    <3> QED BY <3>2, <3>3, Sizes DEF BLComplete, Complete
  <2>8. Placed'
    BY <1>1, <2>1, <2>5, <2>7, Copy, FirstSector DEF Placed
  <2>9. Copied' /\ Recoverable'
    BY <2>1, <2>7 DEF Copied, Recoverable
  <2> QED BY <2>4, <2>6, <2>8, <2>9 DEF IInv
<1> QED BY <1>2, <1>4, <1>5 DEF Operation, Stops

(***************************************************************************)
(* The other actions                                                       *)
(***************************************************************************)
LEMMA UpdateStarts == UpdateStart \in 0 .. 2 * NumPages /\ UpdateEnd = UpdateStart + NumPages
  BY Sizes DEF UpdateStart, UpdateEnd

LEMMA InitKeeps ==
  ASSUME Init
  PROVE  IInv
<1>1. PICK b \in Versions, i \in Versions :
        flash = [a \in Addrs |-> IF a < NumPages THEN b ELSE i]
  BY DEF Init
<1>2. BLComplete
  <2>1. \A a \in 0 .. NumPages - 1 : a \in Addrs /\ a < NumPages
    BY Sizes DEF Addrs
  <2>2. \A a \in 0 .. 0 + NumPages - 1 : flash[a] = b
    BY <1>1, <2>1, Sizes
  <2> QED BY <2>2 DEF BLComplete, Complete
<1>3. TypeOK
  <2>1. flash \in [Addrs -> Contents]
    BY <1>1 DEF Contents, Data
  <2>2. NoSession \in [user : {"none", "update", "drop"}, page_erase : BOOLEAN]
    BY DEF NoSession
  <2> QED BY <2>1, <2>2, ClosedType DEF Init, TypeOK
<1>4. iap.state = "closed" /\ iap.at = "idle"
  BY DEF Init, IapClosed
<1>5. Sectors /\ Placed /\ Copied /\ Calm /\ Images /\ Recoverable /\ VerdictTrue
  BY <1>2, <1>4 DEF Init, NoSession, Sectors, Placed, Copied, Calm, Images, Recoverable,
     VerdictTrue
<1> QED BY <1>3, <1>5 DEF IInv

LEMMA PowerOnKeeps ==
  ASSUME IInv, PowerOn
  PROVE  IInv'
<1>1. /\ running = "off" /\ verdict' = "none" /\ session.user = "none" /\ iap.state = "closed"
      /\ UNCHANGED <<flash, iap, session, lost>>
  BY DEF PowerOn, IInv, TypeOK, Calm
<1>2. IFComplete => IFRuns
  <2>1. \A a \in NumPages .. 2 * NumPages - 2 : a \in NumPages .. NumPages + NumPages - 1
    BY Sizes
  <2> QED BY <2>1 DEF IFComplete, IFRuns, Complete
<1>3. /\ running' = "bootloader" => BLComplete
      /\ running' = "starting" => IFRuns
      /\ running' \in {"bootloader", "starting", "stuck"}
  BY <1>2 DEF PowerOn, BootsBootloader, Jump
<1>4. /\ BLComplete' = BLComplete /\ IFRuns' = IFRuns
  BY <1>1 DEF BLComplete, IFRuns, Complete
<1>5. Images'
  BY <1>3, <1>4 DEF Images
<1>6. TypeOK' /\ Calm' /\ VerdictTrue'
  BY <1>1, <1>3 DEF IInv, TypeOK, Calm, VerdictTrue
<1>7. Recoverable'
  BY <1>1, <1>4 DEF IInv, Recoverable
<1>8. Sectors' /\ Placed' /\ Copied'
  BY <1>1, NotOpen
<1> QED BY <1>5, <1>6, <1>7, <1>8 DEF IInv

\* A session begins with everything of the interface's state reset.
LEMMA BeginKeeps ==
  ASSUME IInv, NEW user \in {"update", "drop"}, NEW page_erase \in BOOLEAN,
         Begin(user, page_erase), session.user = "none", UNCHANGED <<flash, running, lost>>,
         IF user = "update" THEN running = "starting"
         ELSE running \in {"bootloader", "interface"}
  PROVE  IInv'
<1>1. iap.state = "closed" /\ iap.at = "idle" /\ verdict' = "none"
      /\ session' = [user |-> user, page_erase |-> page_erase]
  BY DEF IInv, Calm, Begin, TypeOK, IapType
<1>2. /\ iap' \in IapType /\ iap'.state = "open" /\ iap'.current_sector = None
      /\ iap'.current_page = None /\ iap'.mass_erase_performed = FALSE
      /\ iap'.update_complete = FALSE /\ iap'.crc = 0
      /\ iap'.at \in {"idle", "chip"} /\ (iap'.at = "idle" => iap'.chip = None)
      /\ iap'.at = "chip" => iap'.chip = UpdateStart /\ ~page_erase
  <2>1. /\ IapOpened \in IapType /\ IapOpened.state = "open"
        /\ IapOpened.current_sector = None /\ IapOpened.current_page = None
        /\ IapOpened.mass_erase_performed = FALSE /\ IapOpened.update_complete = FALSE
        /\ IapOpened.crc = 0 /\ IapOpened.at = "idle" /\ IapOpened.chip = None
    BY ClosedType DEF IapOpened, IapClosed
  <2>2. CASE page_erase
    BY <2>1, <2>2 DEF Begin
  <2>3. CASE ~page_erase
    <3>1. iap' = [IapOpened EXCEPT !.at = "chip", !.chip = UpdateStart]
      BY <2>3 DEF Begin
    <3> HIDE DEF IapOpened
    <3> QED BY <2>1, <2>3, <3>1, UpdateStarts DEF IapType
  <2> QED BY <2>2, <2>3
<1>3. /\ BLComplete' = BLComplete /\ IFRuns' = IFRuns /\ UpdateStart' = UpdateStart
      /\ Intercepts' = Intercepts
  BY DEF BLComplete, IFRuns, Complete, UpdateStart, Intercepts
<1>4. TypeOK' /\ Calm' /\ VerdictTrue' /\ Images'
  BY <1>1, <1>2, <1>3 DEF IInv, TypeOK, Calm, VerdictTrue, Images
<1>5. Recoverable'
  BY <1>1, <1>3 DEF IInv, Recoverable
<1>6. Sectors' /\ Placed'
  BY <1>1, <1>2, <1>3 DEF Sectors, Placed
<1>7. Copied'
  BY <1>2, Sizes DEF Copied
<1> QED BY <1>4, <1>5, <1>6, <1>7 DEF IInv

LEMMA CheckUpdateKeeps ==
  ASSUME IInv, CheckUpdate
  PROVE  IInv'
<1>1. running = "starting" /\ session.user = "none" /\ UNCHANGED <<flash, lost>>
  BY DEF CheckUpdate
<1>2. CASE (\E page_erase \in BOOLEAN : Begin("update", page_erase)) /\ UNCHANGED running
  BY <1>1, <1>2, BeginKeeps
<1>3. CASE /\ running' = "interface" /\ verdict' = IF UpdateNeeded THEN "failed" ELSE verdict
           /\ UNCHANGED <<iap, session>>
  <2>1. iap.state = "closed" /\ verdict' # "ok" /\ verdict' \in {"none", "ok", "failed"}
    BY <1>1, <1>3 DEF IInv, Calm, TypeOK
  <2>2. BLComplete' = BLComplete /\ IFRuns' = IFRuns
    BY <1>1 DEF BLComplete, IFRuns, Complete
  <2>3. TypeOK' /\ Calm' /\ VerdictTrue' /\ Images' /\ Recoverable'
    BY <1>1, <1>3, <2>1, <2>2 DEF IInv, TypeOK, Calm, VerdictTrue, Images, Recoverable
  <2>4. Sectors' /\ Placed' /\ Copied'
    BY <1>3, <2>1, NotOpen
  <2> QED BY <2>3, <2>4 DEF IInv
<1> QED BY <1>2, <1>3 DEF CheckUpdate

LEMMA DropBeginsKeeps ==
  ASSUME IInv, DropBegins
  PROVE  IInv'
  BY BeginKeeps DEF DropBegins

LEMMA UpdateCallsKeep ==
  ASSUME IInv, UpdateCalls
  PROVE  IInv'
<1>1. /\ iap \in IapType /\ session.user = "update" /\ iap.state = "open" /\ iap.at = "idle"
      /\ running = "starting" /\ NextPage \in Int
  BY UpdateStarts DEF IInv, TypeOK, Calm, UpdateCalls, Calling, IapType, NextPage
<1>2. CASE NeedsErase(NextPage)
  <2>1. iap.current_sector = None => NextPage = UpdateStart
    BY <1>1 DEF IInv, Sectors, NextPage
  <2>2. Erasing(NextPage)
    BY <1>1, <1>2, <2>1 DEF Erasing, NeedsErase
  <2>3. EraseSector(NextPage)
    BY <1>2 DEF UpdateCalls
  <2> QED BY <1>1, <2>2, <2>3, EraseKeeps
<1>3. CASE ~NeedsErase(NextPage)
  <2>1. ProgramPage(NextPage, Own)
    BY <1>3 DEF UpdateCalls
  <2>2. Own \in Data
    <3>1. NumPages \in NumPages .. 2 * NumPages - 2
      BY Sizes
    <3> QED BY <1>1, <3>1 DEF IInv, Images, IFRuns, Own, Data
  <2>3. Programming
    BY <1>1 DEF Programming
  <2> QED BY <1>1, <2>1, <2>2, <2>3, ProgramKeeps
<1> QED BY <1>2, <1>3

LEMMA DropCallsKeep ==
  ASSUME IInv, DropCalls
  PROVE  IInv'
<1>1. session.user = "drop" /\ iap.state = "open" /\ iap.at = "idle"
  BY DEF DropCalls, Calling
<1>2. ASSUME session.page_erase, NEW k \in 0 .. Behind \div SectorPages,
             iap.current_sector = None => k * SectorPages = UpdateStart,
             EraseSector(k * SectorPages)
      PROVE  IInv'
  <2>1. k * SectorPages \in Int
    <3>1. k \in Int
      OBVIOUS
    <3> QED BY <3>1, Sizes
  <2>2. Erasing(k * SectorPages)
    BY <1>1, <1>2 DEF Erasing
  <2> QED BY <1>2, <2>1, <2>2, EraseKeeps
<1>3. ASSUME NEW p \in 0 .. Behind, NEW d \in Data, ProgramPage(p, d)
      PROVE  IInv'
  <2>1. Programming
    BY <1>1 DEF Programming
  <2> QED BY <1>3, <2>1, ProgramKeeps
<1> QED BY <1>2, <1>3 DEF DropCalls

LEMMA CloseKeeps ==
  ASSUME IInv, Close
  PROVE  IInv'
<1>1. /\ iap \in IapType /\ session.user \in {"update", "drop"} /\ iap.at = "idle"
      /\ iap.state \in {"open", "error"} /\ UNCHANGED <<flash, lost>>
  BY DEF IInv, TypeOK, Calm, Close, IapType
<1>2. /\ iap' \in IapType /\ iap'.state = "closed" /\ iap'.at = "idle"
  BY <1>1 DEF Close, IapType
<1>3. /\ session' = NoSession
      /\ running' = IF session.user = "update" THEN "interface" ELSE running
      /\ verdict' \in {"ok", "failed"}
      /\ verdict' = "ok" => iap.state # "error" /\ (Intercepts => iap.update_complete)
  BY DEF Close
<1>4. BLComplete' = BLComplete /\ IFRuns' = IFRuns
  BY <1>1 DEF BLComplete, IFRuns, Complete
<1>5. TypeOK'
  <2>1. NoSession \in [user : {"none", "update", "drop"}, page_erase : BOOLEAN]
    BY DEF NoSession
  <2> QED BY <1>1, <1>2, <1>3, <2>1 DEF IInv, TypeOK
<1>6. Calm' /\ Images'
  BY <1>1, <1>2, <1>3, <1>4 DEF IInv, Calm, Images, NoSession
<1>7. VerdictTrue'
  <2>1. SUFFICES ASSUME running' = "interface", verdict' = "ok" PROVE BLComplete
    BY <1>4 DEF VerdictTrue
  <2>2. Intercepts
    BY <1>1, <1>3, <2>1 DEF IInv, Calm, Intercepts
  <2> QED BY <1>1, <1>3, <2>1, <2>2 DEF IInv, Placed
<1>8. Recoverable'
  BY <1>1, <1>4 DEF IInv, Recoverable
<1>9. Sectors' /\ Placed' /\ Copied'
  BY <1>2, NotOpen
<1> QED BY <1>5, <1>6, <1>7, <1>8, <1>9 DEF IInv

LEMMA PowerCutKeeps ==
  ASSUME IInv, PowerCut
  PROVE  IInv'
<1>1. /\ running' = "off" /\ iap' = IapClosed /\ session' = NoSession
      /\ UNCHANGED <<flash, verdict>> /\ lost' = (lost \/ iap.at \in {"vectors", "swapping"})
  BY DEF PowerCut, PowerLost
<1>2. iap'.state = "closed" /\ iap'.at = "idle" /\ iap' \in IapType
  BY <1>1, ClosedType DEF IapClosed
<1>3. BLComplete' = BLComplete /\ IFRuns' = IFRuns
  BY <1>1 DEF BLComplete, IFRuns, Complete
<1>4. TypeOK'
  <2>1. NoSession \in [user : {"none", "update", "drop"}, page_erase : BOOLEAN]
    BY DEF NoSession
  <2> QED BY <1>1, <1>2, <2>1 DEF IInv, TypeOK
<1>5. Calm' /\ Images' /\ VerdictTrue'
  BY <1>1, <1>2 DEF Calm, Images, VerdictTrue, NoSession
<1>6. Recoverable'
  BY <1>1, <1>2, <1>3 DEF IInv, Recoverable
<1>7. Sectors' /\ Placed' /\ Copied'
  BY <1>2, NotOpen
<1> QED BY <1>4, <1>5, <1>6, <1>7 DEF IInv

LEMMA StutterKeeps ==
  ASSUME IInv, UNCHANGED vars
  PROVE  IInv'
  BY DEF vars, IInv, TypeOK, Calm, Images, Sectors, Placed, Copied, Recoverable, VerdictTrue,
     BLComplete, Complete, IFRuns, UpdateStart, UpdateEnd, Intercepts

LEMMA NextKeeps ==
  ASSUME IInv, [Next]_vars
  PROVE  IInv'
<1>1. CASE PowerOn
  BY <1>1, PowerOnKeeps
<1>2. CASE CheckUpdate
  BY <1>2, CheckUpdateKeeps
<1>3. CASE DropBegins
  BY <1>3, DropBeginsKeeps
<1>4. CASE Step
  BY <1>4, ChipKeeps, VectorsKeep, EraseFirstKeeps, ProgramFirstKeeps, UpdateCallsKeep,
     CloseKeeps DEF Step
<1>5. CASE DropCalls
  BY <1>5, DropCallsKeep
<1>6. CASE PowerCut
  BY <1>6, PowerCutKeeps
<1>7. CASE UNCHANGED vars
  BY <1>7, StutterKeeps
<1> QED BY <1>1, <1>2, <1>3, <1>4, <1>5, <1>6, <1>7 DEF Next

(***************************************************************************)
(* Theorems                                                                *)
(***************************************************************************)
\* IInv is an invariant of the replacement of images, whatever is dropped and whenever
\* the flash or the power fails.
THEOREM Invariance == Spec => []IInv
<1>1. Init => IInv
  BY InitKeeps
<1>2. IInv /\ [Next]_vars => IInv'
  BY NextKeeps
<1> QED BY <1>1, <1>2, PTL DEF Spec

\* The state stays within the types of the C variables: in particular current_sector
\* and current_page never leave the two regions, and crc is that of some image.
THEOREM TypeCorrect == Spec => []TypeOK
<1>1. IInv => TypeOK
  BY DEF IInv
<1> QED BY <1>1, Invariance, PTL

\* Whenever the power fails outside the two critical sections, the chip starts again:
\* with a whole bootloader, or through the interface's vectors with the interface.
THEOREM AlwaysRecoverable == Spec => []Recoverable
<1>1. IInv => Recoverable
  BY DEF IInv
<1> QED BY <1>1, Invariance, PTL

\* The replacement of the bootloader is reported as done only when one image is there
\* from its first page to its last.
THEOREM TrueVerdict == Spec => []VerdictTrue
<1>1. IInv => VerdictTrue
  BY DEF IInv
<1> QED BY <1>1, Invariance, PTL
=============================================================================
