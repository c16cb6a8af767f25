----------------------------- MODULE FlashProofs -----------------------------
(***************************************************************************)
(* Proofs about FlashManager, for flash, sectors, blocks and calls of any  *)
(* size.  The invariant IInv says where the block buffer lies in the       *)
(* current sector at every point of flash_manager_data, and where each     *)
(* unit that was passed in is: still pending, in the buffer or programmed. *)
(***************************************************************************)
EXTENDS FlashManager, Integers, TLAPS

BlockSize == Smaller(SectorSize, BufSize)
Multiple(x, n) == \E k \in Nat : x = k * n

(***************************************************************************)
(* The inductive invariant                                                 *)
(***************************************************************************)
\* what state and verdict say
Calm ==
  /\ at # "idle" => state = "open"
  /\ state = "open" => ~failed
  /\ state # "closed" => ~success

Ranges ==
  /\ at # "idle" => addr + size <= NumUnits
  /\ at \in {"first", "block", "sector"} => addr < NumUnits

\* the sector that was set up last
Sectors == state = "open" =>
  IF current_sector_valid
  THEN /\ current_write_block_size = BlockSize /\ current_sector_size = SectorSize
       /\ Multiple(current_sector_addr, SectorSize) /\ current_sector_addr \in entered
       /\ Multiple(current_write_block_addr, BlockSize)
       /\ at = "sector" => current_sector_addr <= last_addr
  ELSE buf = {} /\ at \in {"idle", "first"}

\* how far the data has come
Here == IF at \in {"idle", "first", "block"} THEN last_addr ELSE addr

InSector ==
  /\ current_sector_addr <= current_write_block_addr
  /\ current_write_block_addr + BlockSize <= current_sector_addr + SectorSize

\* The block is in the sector, or empty and ahead of the change of sector.
Blocks == state = "open" /\ current_sector_valid =>
  /\ current_write_block_addr <= Here
  /\ at # "sector" => current_sector_addr <= Here
  /\ InSector \/ (buf = {} /\ current_write_block_addr = RoundDown(Here, BlockSize))
  /\ at = "sector" /\ buf # {} => RoundDown(addr, BlockSize) = RoundDown(last_addr, BlockSize)
  /\ at = "body" => addr < current_write_block_addr + BlockSize
  /\ at = "copy" =>
       /\ InSector /\ addr < current_sector_addr + SectorSize /\ size > 0
       /\ \/ addr < current_write_block_addr + BlockSize
          \/ current_write_block_addr = current_sector_addr /\ buf = {}

\* A unit that was passed in is pending, in the buffer, or programmed.
Pending(u) == at # "idle" /\ u \in addr .. addr + size - 1
Given ==
  /\ \A u \in Units : flash[u] = "data" => u \in given
  /\ \A u \in Units : Pending(u) => u \in given /\ flash[u] # "data"
  /\ state = "open" => \A o \in buf :
       /\ o < BlockSize /\ current_write_block_addr + o \in given
       /\ ~Pending(current_write_block_addr + o)

\* what is erased, unless the erase mode was switched
WasErased(u) ==
  \/ ~page_erase_enabled
  \/ /\ current_sector_valid
     /\ u \in current_sector_addr .. current_sector_addr + SectorSize - 1
Blankness == state = "open" /\ "toggled" \notin losses =>
  /\ \A u \in Units : WasErased(u) => flash[u] \in {"blank", "data"}
  /\ \A o \in buf : flash[current_write_block_addr + o] = "blank"

\* where the data is, unless some was lost
Written == state = "open" /\ losses = {} =>
  /\ \A u \in given :
       flash[u] = "data" \/ u - current_write_block_addr \in buf \/ Pending(u)
  /\ \A u \in Units : flash[u] = "data" => RoundDown(u, SectorSize) \in entered
  /\ buf_empty => buf = {}

Inner == TypeOK /\ Calm /\ Ranges /\ Sectors /\ Blocks
Outer == Given /\ Blankness /\ Written
IInv ==
  /\ Inner /\ Outer
  /\ FailureReported /\ InterfaceReleased /\ ProgramsErased /\ ImageWrittenUnlessLost

(***************************************************************************)
(* Rounding                                                                *)
(***************************************************************************)
LEMMA Sizes ==
  /\ SectorSize \in Nat /\ SectorSize > 0 /\ BufSize \in Nat /\ BufSize > 0 /\ NumUnits \in Nat
  /\ MaxSize \in Nat /\ MaxCalls \in Nat
  /\ BlockSize \in Nat /\ 0 < BlockSize /\ BlockSize <= SectorSize /\ BlockSize <= BufSize
  /\ BlockSize < SectorSize => BlockSize = BufSize
  BY FlashAssumption DEF BlockSize, Smaller

LEMMA RoundsDown ==
  ASSUME NEW a \in Nat, NEW n \in Nat, n > 0
  PROVE  /\ RoundDown(a, n) \in Nat /\ RoundDown(a, n) <= a /\ a < RoundDown(a, n) + n
         /\ Multiple(RoundDown(a, n), n)
<1>1. a % n \in 0 .. n - 1 /\ a \div n \in Nat /\ a = n * (a \div n) + (a % n)
  OBVIOUS
<1>2. RoundDown(a, n) = (a \div n) * n
  BY <1>1 DEF RoundDown
<1>3. RoundDown(a, n) \in Nat /\ RoundDown(a, n) <= a /\ a < RoundDown(a, n) + n
  <2>1. a % n <= a
    <3>1. n * (a \div n) >= 0
      BY <1>1
    <3> QED BY <1>1, <3>1
  <2> QED BY <1>1, <2>1 DEF RoundDown
<1> QED BY <1>1, <1>2, <1>3 DEF Multiple

\* Two multiples are equal, or at least one multiple apart.
LEMMA Apart ==
  ASSUME NEW n \in Nat, n > 0, NEW x, NEW y, Multiple(x, n), Multiple(y, n), x < y
  PROVE  x + n <= y
<1>1. PICK i \in Nat : x = i * n
  BY DEF Multiple
<1>2. PICK j \in Nat : y = j * n
  BY DEF Multiple
<1>3. i < j
  <2>1. SUFFICES ASSUME j <= i PROVE FALSE
    BY <1>1, <1>2
  <2>2. PICK d \in Nat : i = j + d
    <3>1. i - j \in Nat /\ i = j + (i - j)
      BY <2>1
    <3> QED BY <3>1
  <2>3. i * n = j * n + d * n /\ d * n >= 0 /\ j * n \in Nat
    BY <2>2
  <2> QED BY <1>1, <1>2, <2>3
<1>4. PICK d \in Nat : j = i + 1 + d
  <2>1. j - (i + 1) \in Nat /\ j = i + 1 + (j - (i + 1))
    BY <1>3
  <2> QED BY <2>1
<1>5. j * n = i * n + n + d * n /\ d * n >= 0 /\ i * n \in Nat
  BY <1>4
<1> QED BY <1>1, <1>2, <1>5

LEMMA RoundIs ==
  ASSUME NEW n \in Nat, n > 0, NEW a \in Nat, NEW r \in Nat, Multiple(r, n), r <= a, a < r + n
  PROVE  RoundDown(a, n) = r
<1>1. /\ RoundDown(a, n) \in Nat /\ RoundDown(a, n) <= a /\ a < RoundDown(a, n) + n
      /\ Multiple(RoundDown(a, n), n)
  BY RoundsDown
<1>2. ~(RoundDown(a, n) < r)
  BY <1>1, Apart
<1>3. ~(r < RoundDown(a, n))
  BY <1>1, Apart
<1> QED BY <1>1, <1>2, <1>3

\* Blocks divide sectors.
LEMMA SectorMultiple ==
  ASSUME NEW s \in Nat, Multiple(s, SectorSize)
  PROVE  /\ Multiple(s, BlockSize) /\ Multiple(s + SectorSize, BlockSize)
         /\ Multiple(s + SectorSize, SectorSize)
<1>1. PICK k \in Nat : s = k * SectorSize
  BY DEF Multiple
<1>2. PICK q \in Nat : SectorSize = q * BlockSize
  <2>1. CASE SectorSize < BufSize
    <3>1. SectorSize = 1 * BlockSize
      BY <2>1, Sizes DEF BlockSize, Smaller
    <3> QED BY <3>1
  <2>2. CASE ~(SectorSize < BufSize)
    <3>1. BlockSize = BufSize /\ SectorSize % BufSize = 0
      BY <2>2, Sizes, FlashAssumption DEF BlockSize, Smaller
    <3>2. SectorSize \div BufSize \in Nat /\ SectorSize = BufSize * (SectorSize \div BufSize)
      BY <3>1, Sizes
    <3> QED BY <3>1, <3>2, Sizes
  <2> QED BY <2>1, <2>2
<1>3. s = (k * q) * BlockSize /\ k * q \in Nat
  BY <1>1, <1>2, Sizes
<1>4. s + SectorSize = (k * q + q) * BlockSize /\ k * q + q \in Nat
  BY <1>2, <1>3, Sizes
<1>5. s + SectorSize = (k + 1) * SectorSize
  BY <1>1, Sizes
<1> QED BY <1>3, <1>4, <1>5 DEF Multiple

\* The block of an address in a sector is in that sector.
LEMMA BlockInSector ==
  ASSUME NEW s \in Nat, Multiple(s, SectorSize), NEW a \in Nat, s <= a, a < s + SectorSize
  PROVE  s <= RoundDown(a, BlockSize) /\ RoundDown(a, BlockSize) + BlockSize <= s + SectorSize
<1> DEFINE r == RoundDown(a, BlockSize)
<1>1. r \in Nat /\ r <= a /\ a < r + BlockSize /\ Multiple(r, BlockSize)
  BY RoundsDown, Sizes
<1>2. Multiple(s, BlockSize) /\ Multiple(s + SectorSize, BlockSize)
  BY SectorMultiple
<1> HIDE DEF r
<1>3. ~(r < s)
  BY <1>1, <1>2, Apart, Sizes
<1>4. r + BlockSize <= s + SectorSize
  <2>1. r < s + SectorSize
    BY <1>1, Sizes
  <2> QED BY <1>1, <1>2, <2>1, Apart, Sizes
<1> QED BY <1>1, <1>3, <1>4 DEF r

\* Addresses in one block are in one sector.
LEMMA BlockThenSector ==
  ASSUME NEW a \in Nat, NEW b \in Nat, RoundDown(a, BlockSize) = RoundDown(b, BlockSize)
  PROVE  RoundDown(a, SectorSize) = RoundDown(b, SectorSize)
<1> DEFINE s == RoundDown(a, SectorSize)
           r == RoundDown(a, BlockSize)
<1>1. s \in Nat /\ s <= a /\ a < s + SectorSize /\ Multiple(s, SectorSize)
  BY RoundsDown, Sizes
<1>2. s <= r /\ r + BlockSize <= s + SectorSize
  BY <1>1, BlockInSector
<1>3. r \in Nat /\ r <= b /\ b < r + BlockSize
  BY RoundsDown, Sizes
<1>4. s <= b /\ b < s + SectorSize
  BY <1>1, <1>2, <1>3, Sizes
<1> QED BY <1>1, <1>4, RoundIs, Sizes

\* The variables that count are natural numbers.
LEMMA Addresses ==
  /\ \A a \in Addrs : a \in Nat /\ a <= NumUnits
  /\ \A a \in Nat : a <= NumUnits => a \in Addrs
  /\ \A a \in Units : a \in Nat /\ a < NumUnits /\ a \in Addrs
  /\ \A a \in Nat : a < NumUnits => a \in Units
  BY Sizes DEF Addrs, Units

LEMMA Types ==
  ASSUME IInv
  PROVE  /\ TypeOK
         /\ current_write_block_addr \in Nat /\ current_sector_addr \in Nat
         /\ last_addr \in Nat /\ addr \in Nat /\ size \in Nat
         /\ buf \subseteq 0 .. BufSize - 1 /\ flash \in [Units -> Contents]
         /\ given \subseteq Units /\ entered \subseteq Units
<1>1. TypeOK
  BY DEF IInv, Inner
<1>2. /\ current_write_block_addr \in Nat /\ current_sector_addr \in Nat
      /\ last_addr \in Nat /\ addr \in Nat
  BY <1>1, Addresses DEF TypeOK
<1>3. size \in Nat
  <2>1. size \in 0 .. MaxSize
    BY <1>1 DEF TypeOK
  <2> QED BY <2>1, Sizes
<1>4. /\ buf \subseteq 0 .. BufSize - 1 /\ flash \in [Units -> Contents]
      /\ given \subseteq Units /\ entered \subseteq Units
  BY <1>1 DEF TypeOK
<1> QED BY <1>1, <1>2, <1>3, <1>4

(***************************************************************************)
(* What the interface makes of the flash                                   *)
(***************************************************************************)
LEMMA FlashProgrammed ==
  ASSUME IInv, state = "open"
  PROVE  LET f == Programmed(current_write_block_addr, buf)
         IN /\ f \in [Units -> Contents]
            /\ \A u \in Units : f[u] = "data" => u \in given /\ ~Pending(u)
            /\ \A u \in Units : f[u] = "garbage" => "toggled" \in losses
            /\ "toggled" \notin losses =>
                 \A u \in Units : f[u] = IF u - current_write_block_addr \in buf THEN "data"
                                         ELSE flash[u]
<1> DEFINE f == Programmed(current_write_block_addr, buf)
<1>1. /\ flash \in [Units -> Contents] /\ current_write_block_addr \in Nat
      /\ buf \subseteq 0 .. BufSize - 1
  BY Types
<1>2. \A u \in Units : f[u] = IF u - current_write_block_addr \in buf
                              THEN IF flash[u] = "blank" THEN "data" ELSE "garbage"
                              ELSE flash[u]
  <2>1. \A u \in Units : u - current_write_block_addr \in buf => u >= current_write_block_addr
    BY <1>1, Sizes DEF Units
  <2> QED BY <2>1 DEF Programmed
<1>3. f \in [Units -> Contents]
  BY <1>1 DEF Programmed, Contents
<1>4. ASSUME NEW u \in Units, u - current_write_block_addr \in buf
      PROVE  /\ u \in given /\ ~Pending(u)
             /\ "toggled" \notin losses => flash[u] = "blank"
  <2>1. u = current_write_block_addr + (u - current_write_block_addr)
    BY <1>1, <1>4, Sizes DEF Units
  <2>2. \A o \in buf : /\ current_write_block_addr + o \in given
                       /\ ~Pending(current_write_block_addr + o)
                       /\ "toggled" \notin losses => flash[current_write_block_addr + o] = "blank"
    BY DEF IInv, Outer, Given, Blankness
  <2> QED BY <1>4, <2>1, <2>2
<1>5. \A u \in Units : /\ flash[u] = "data" => u \in given /\ ~Pending(u)
                       /\ flash[u] = "garbage" => "toggled" \in losses
  BY DEF IInv, Outer, Given, ProgramsErased
<1> HIDE DEF f
<1>6. \A u \in Units : f[u] = "data" => u \in given /\ ~Pending(u)
  BY <1>2, <1>4, <1>5
<1>7. \A u \in Units : f[u] = "garbage" => "toggled" \in losses
  BY <1>2, <1>4, <1>5
<1>8. "toggled" \notin losses =>
        \A u \in Units : f[u] = IF u - current_write_block_addr \in buf THEN "data" ELSE flash[u]
  BY <1>2, <1>4
<1> QED BY <1>3, <1>6, <1>7, <1>8 DEF f

LEMMA FlashErased ==
  ASSUME IInv, NEW start \in Nat, NEW length \in Nat
  PROVE  LET f == Erased(start, length)
         IN /\ f \in [Units -> Contents]
            /\ \A u \in Units : f[u] = IF u \in start .. start + length - 1 THEN "blank"
                                       ELSE flash[u]
  BY DEF IInv, Inner, TypeOK, Erased, Contents

\* What has to be true of the flash after a step that fails
FlashSound ==
  /\ flash' \in [Units -> Contents]
  /\ \A u \in Units : flash'[u] = "data" => u \in given'
  /\ \A u \in Units : flash'[u] = "garbage" => "toggled" \in losses'

LEMMA Stops ==
  ASSUME IInv, state = "open", state' = "error", at' = "idle", success' = success,
         TypeOK', FlashSound
  PROVE  IInv'
<1>1. ~success /\ ~success'
  BY DEF IInv, Inner, Calm
<1>2. Inner'
  BY <1>1 DEF Inner, Calm, Ranges, Sectors, Blocks
<1>3. Outer'
  BY DEF FlashSound, Outer, Given, Pending, Blankness, Written
<1>4. FailureReported' /\ InterfaceReleased' /\ ProgramsErased' /\ ImageWrittenUnlessLost'
  BY <1>1 DEF FlashSound, FailureReported, InterfaceReleased, ProgramsErased,
     ImageWrittenUnlessLost, ImageWritten
<1> QED BY <1>2, <1>3, <1>4 DEF IInv

\* A step that goes on has only the positions and the places of the data to prove.
LEMMA GoesOn ==
  ASSUME IInv, state = "open", state' = "open", UNCHANGED <<failed, success>>,
         TypeOK', Ranges', Sectors', Blocks', Outer', ProgramsErased'
  PROVE  IInv'
  BY DEF IInv, Inner, Calm, FailureReported, InterfaceReleased, ImageWrittenUnlessLost,
     ImageWritten

\* A step that only moves on in flash_manager_data leaves the data where it is.
LEMMA Passes ==
  ASSUME IInv, at # "idle", at' # "idle",
         at' \in {"first", "block", "sector", "loop", "body", "copy"},
         UNCHANGED <<state, page_erase_enabled, block, sector, session, addr, size, flash,
                     intf_open, history, failed, entered, losses>>,
         Ranges', Sectors', Blocks'
  PROVE  IInv'
<1>1. state = "open"
  BY DEF IInv, Inner, Calm
<1>2. TypeOK'
  BY DEF IInv, Inner, TypeOK, block, sector, session, history
<1>3. Outer' /\ ProgramsErased'
  BY DEF IInv, Outer, Given, Pending, Blankness, WasErased, Written, ProgramsErased,
     block, sector, session, history
<1> QED BY <1>1, <1>2, <1>3, GoesOn DEF history

(***************************************************************************)
(* Programming the block, and setting up a sector                          *)
(***************************************************************************)
\* What is known while flash_manager_data runs
LEMMA Running ==
  ASSUME IInv, at # "idle"
  PROVE  /\ state = "open" /\ ~failed /\ ~success
         /\ addr \in Nat /\ size \in Nat /\ addr + size <= NumUnits /\ last_addr \in Nat
         /\ current_write_block_addr \in Nat /\ current_sector_addr \in Nat
         /\ addr <= NumUnits
         /\ at # "first" => current_sector_valid
         /\ current_sector_valid =>
              /\ current_write_block_size = BlockSize /\ current_sector_size = SectorSize
              /\ Multiple(current_sector_addr, SectorSize)
              /\ Multiple(current_write_block_addr, BlockSize)
<1>1. state = "open" /\ ~failed /\ ~success /\ addr + size <= NumUnits
  BY DEF IInv, Inner, Calm, Ranges
<1>2. /\ at # "first" => current_sector_valid
      /\ current_sector_valid =>
           /\ current_write_block_size = BlockSize /\ current_sector_size = SectorSize
           /\ Multiple(current_sector_addr, SectorSize)
           /\ Multiple(current_write_block_addr, BlockSize)
  BY <1>1 DEF IInv, Inner, Sectors
<1>3. addr <= NumUnits
  BY <1>1, Types, Sizes
<1> QED BY <1>1, <1>2, <1>3, Types

LEMMA FlushKeeps ==
  ASSUME IInv, at \in {"block", "loop"},
         NEW next, next = (IF at = "block" THEN "sector" ELSE "body"), FlushCurrentBlock(next), Returns,
         UNCHANGED <<page_erase_enabled, session, history>>
  PROVE  IInv'
<1> DEFINE f == Programmed(current_write_block_addr, buf)
<1>1. /\ state = "open" /\ ~failed /\ ~success /\ current_sector_valid /\ addr \in Nat
      /\ current_write_block_size = BlockSize /\ at # "idle" /\ addr <= NumUnits
  BY Running
<1>2. /\ buf' = {} /\ buf_empty' = TRUE
      /\ current_write_block_addr' = RoundDown(addr, BlockSize)
      /\ UNCHANGED <<sector, intf_open, entered, losses, page_erase_enabled, session, history>>
  BY <1>1 DEF FlushCurrentBlock, Flush, BlockAfterFlush
<1>3. /\ RoundDown(addr, BlockSize) \in Nat /\ RoundDown(addr, BlockSize) <= addr
      /\ addr < RoundDown(addr, BlockSize) + BlockSize
      /\ Multiple(RoundDown(addr, BlockSize), BlockSize)
  BY <1>1, RoundsDown, Sizes
<1>4. /\ f \in [Units -> Contents]
      /\ \A u \in Units : f[u] = "data" => u \in given /\ ~Pending(u)
      /\ \A u \in Units : f[u] = "garbage" => "toggled" \in losses
      /\ "toggled" \notin losses =>
           \A u \in Units : f[u] = IF u - current_write_block_addr \in buf THEN "data"
                                   ELSE flash[u]
  BY <1>1, FlashProgrammed
<1>5. /\ flash \in [Units -> Contents]
      /\ \A u \in Units : flash[u] = "data" => u \in given /\ ~Pending(u)
      /\ \A u \in Units : flash[u] = "garbage" => "toggled" \in losses
  BY DEF IInv, Inner, TypeOK, Outer, Given, ProgramsErased
<1> HIDE DEF f
<1>6. flash' \in {flash, f}
  BY DEF FlushCurrentBlock, f
<1>7. FlashSound
  BY <1>2, <1>4, <1>5, <1>6 DEF FlashSound, history
<1>8. TypeOK'
  <2>1. current_write_block_addr' \in Addrs
    BY <1>1, <1>2, <1>3, Addresses, Sizes
  <2>2. /\ state' \in {"closed", "open", "error"} /\ failed' \in BOOLEAN
        /\ at' \in {"idle", "first", "block", "sector", "loop", "body", "copy"}
        /\ addr' \in Addrs /\ size' \in 0 .. MaxSize
    <3>1. 0 \in Addrs /\ 0 \in 0 .. MaxSize
      BY Addresses, Sizes
    <3> QED BY <1>1, <3>1, Types DEF FlushCurrentBlock, Fails, Returns, TypeOK
  <2> QED BY <1>2, <1>7, <2>1, <2>2 DEF IInv, Inner, TypeOK, FlashSound, sector, session, history
<1>9. CASE Fails
  BY <1>1, <1>2, <1>7, <1>8, <1>9, Stops DEF Fails, history
<1>10. CASE at' = next /\ UNCHANGED <<state, failed>> /\ flash' = IF buf_empty THEN flash ELSE f
  <2>1. /\ addr' = addr /\ size' = size /\ last_addr' = last_addr /\ given' = given
        /\ current_sector_valid' = current_sector_valid /\ losses' = losses
        /\ current_sector_addr' = current_sector_addr /\ entered' = entered
        /\ current_sector_size' = current_sector_size /\ at' \in {"sector", "body"}
        /\ current_write_block_size' = current_write_block_size /\ success' = success
        /\ page_erase_enabled' = page_erase_enabled
    BY <1>2, <1>10 DEF Returns, sector, session, history
  <2>2. Ranges'
    BY <2>1, <1>1, <1>10 DEF IInv, Inner, Ranges
  <2>3. Sectors'
    BY <1>1, <1>2, <1>3, <1>10, <2>1 DEF IInv, Inner, Sectors, Blocks, Here
  <2>4. Blocks'
    BY <1>1, <1>2, <1>3, <1>10, <2>1 DEF IInv, Inner, Blocks, Here
  <2>5. \A u : Pending(u)' <=> Pending(u)
    BY <1>1, <2>1 DEF Pending
  <2>6. Given'
    BY <1>2, <1>4, <1>5, <1>6, <2>1, <2>5 DEF Given, IInv, Outer
  <2>7. Blankness'
    <3>1. \A u \in Units : WasErased(u)' <=> WasErased(u)
      BY <2>1 DEF WasErased
    <3> QED BY <1>1, <1>2, <1>4, <1>6, <2>1, <3>1 DEF Blankness, IInv, Outer
  <2>8. Written'
    <3>1. SUFFICES ASSUME losses = {}
                   PROVE  /\ \A u \in given : flash'[u] = "data" \/ Pending(u)
                          /\ \A u \in Units :
                               flash'[u] = "data" => RoundDown(u, SectorSize) \in entered
      BY <1>2, <2>1, <2>5 DEF Written
    <3>2. \A u \in Units : flash'[u] = IF u - current_write_block_addr \in buf THEN "data"
                                       ELSE flash[u]
      BY <1>1, <1>4, <1>10, <3>1 DEF IInv, Outer, Written
    <3>3. given \subseteq Units
      BY DEF IInv, Inner, TypeOK
    <3>4. ASSUME NEW u \in Units, u - current_write_block_addr \in buf
          PROVE  RoundDown(u, SectorSize) \in entered
      <4>1. InSector /\ u \in Nat /\ current_sector_addr \in entered
        BY <1>1, <3>4, Sizes DEF IInv, Inner, Blocks, Sectors, Units
      <4>2. u - current_write_block_addr < BlockSize /\ u - current_write_block_addr >= 0
        <5>1. \A o \in buf : o < BlockSize
          BY <1>1 DEF IInv, Outer, Given
        <5>2. \A o \in buf : o >= 0
          BY Types, Sizes
        <5> QED BY <3>4, <5>1, <5>2
      <4>3. /\ current_sector_addr <= current_write_block_addr
            /\ current_write_block_addr + BlockSize <= current_sector_addr + SectorSize
        BY <4>1 DEF InSector
      <4>4. current_sector_addr <= u /\ u < current_sector_addr + SectorSize
        BY <4>1, <4>2, <4>3, Types, Sizes
      <4> QED BY <1>1, <4>1, <4>4, RoundIs, Running, Types, Sizes
    <3>5. \A u \in given : flash'[u] = "data" \/ Pending(u)
      BY <1>1, <3>1, <3>2, <3>3 DEF IInv, Outer, Written
    <3>6. \A u \in Units : flash'[u] = "data" => RoundDown(u, SectorSize) \in entered
      BY <1>1, <3>1, <3>2, <3>4 DEF IInv, Outer, Written
    <3> QED BY <3>5, <3>6
  <2>9. ProgramsErased'
    BY <1>7, <2>1 DEF FlashSound, ProgramsErased
  <2> QED BY <1>1, <1>8, <1>10, <2>1, <2>2, <2>3, <2>4, <2>6, <2>7, <2>8, <2>9, GoesOn DEF Outer
<1> QED BY <1>9, <1>10 DEF FlushCurrentBlock, f

LEMMA SetupKeeps ==
  ASSUME IInv, at \in {"first", "sector", "body"}, addr < NumUnits, buf = {},
         NEW next, next \in {"block", "loop", "copy"}, next = "copy" => size > 0,
         SetupNextSector(next), Returns, UNCHANGED <<page_erase_enabled, history>>,
         at' = next => current_sector_valid' /\ (next = "block" => last_addr' = addr),
         session' = session \/ session' = <<TRUE, addr>>
  PROVE  IInv'
<1> DEFINE start == RoundDown(addr, SectorSize)
<1>1. /\ state = "open" /\ ~failed /\ ~success /\ addr \in Nat /\ at # "idle"
  BY Running
<1>2. start \in Nat /\ start <= addr /\ addr < start + SectorSize /\ Multiple(start, SectorSize)
  BY <1>1, RoundsDown, Sizes
<1>3. Multiple(start, BlockSize)
  BY <1>2, SectorMultiple
<1> HIDE DEF start
<1>4. /\ current_sector_addr' = start /\ current_sector_size' = SectorSize
      /\ entered' = entered \cup {start} /\ current_write_block_addr' = start
      /\ current_write_block_size' = BlockSize
      /\ losses' = losses \cup IF page_erase_enabled /\ start \in entered
                               THEN {"erased again"} ELSE {}
      /\ flash' \in {flash, ErasedSector(start)} /\ given' = given /\ success' = success
      /\ page_erase_enabled' = page_erase_enabled
  BY DEF SetupNextSector, start, BlockSize, history
<1>5. /\ flash' \in [Units -> Contents]
      /\ \A u \in Units : flash'[u] \in {flash[u], "blank"}
  <2>1. flash \in [Units -> Contents]
    BY DEF IInv, Inner, TypeOK
  <2>2. /\ Erased(start, SectorSize) \in [Units -> Contents]
        /\ \A u \in Units : Erased(start, SectorSize)[u] \in {flash[u], "blank"}
    BY <1>2, FlashErased, Sizes
  <2> QED BY <1>4, <2>1, <2>2 DEF ErasedSector
<1>6. FlashSound
  BY <1>4, <1>5 DEF FlashSound, IInv, Outer, Given, ProgramsErased
<1>7. TypeOK'
  <2>1. start \in Units /\ start \in Addrs /\ addr \in Addrs
    BY <1>1, <1>2, Addresses, Sizes
  <2>2. /\ state' \in {"closed", "open", "error"} /\ failed' \in BOOLEAN /\ intf_open' \in BOOLEAN
        /\ at' \in {"idle", "first", "block", "sector", "loop", "body", "copy"}
        /\ addr' \in Addrs /\ size' \in 0 .. MaxSize /\ buf' = {} /\ buf_empty' \in BOOLEAN
    <3>1. 0 \in Addrs /\ 0 \in 0 .. MaxSize
      BY Addresses, Sizes
    <3> QED BY <1>1, <3>1, Types DEF SetupNextSector, Fails, CloseIntf, Returns, TypeOK
  <2>3. last_addr' \in Addrs /\ current_sector_valid' \in BOOLEAN
    BY <2>1 DEF session, IInv, Inner, TypeOK
  <2>4. entered' \subseteq Units /\ losses' \subseteq {"erased again", "toggled", "overrun"}
    BY <1>4, <2>1 DEF IInv, Inner, TypeOK
  <2>5. current_write_block_size' \in 0 .. BufSize /\ current_sector_size' \in 0 .. SectorSize
    <3>1. BlockSize \in 0 .. BufSize /\ SectorSize \in 0 .. SectorSize
      BY Sizes
    <3> QED BY <1>4, <3>1
  <2> QED BY <1>4, <1>5, <2>1, <2>2, <2>3, <2>4, <2>5 DEF IInv, Inner, TypeOK, history
<1>8. CASE Fails
  BY <1>1, <1>4, <1>6, <1>7, <1>8, Stops DEF Fails
<1>9. CASE /\ flash' = ErasedSector(start) /\ buf' = {} /\ at' = next
           /\ UNCHANGED <<buf_empty, state, failed, intf_open>>
  <2>1. /\ addr' = addr /\ size' = size /\ current_sector_valid'
        /\ next = "block" => last_addr' = addr
    BY <1>9 DEF Returns
  <2>2. Here' = addr
    BY <1>9, <2>1 DEF Here
  <2>3. Ranges'
    BY <1>9, <2>1 DEF IInv, Inner, Ranges
  <2>4. Sectors'
    BY <1>2, <1>3, <1>4, <1>9, <2>1 DEF Sectors
  <2>5. Blocks'
    <3>1. InSector' /\ addr < start + SectorSize
      <4>1. start <= start /\ start + BlockSize <= start + SectorSize
        BY <1>2, Sizes
      <4> QED BY <1>2, <1>4, <4>1 DEF InSector
    <3>2. start <= addr
      BY <1>2
    <3> QED BY <1>4, <1>9, <2>1, <2>2, <3>1, <3>2 DEF Blocks
  <2>6. \A u : Pending(u)' <=> Pending(u)
    BY <1>1, <1>9, <2>1 DEF Pending
  <2>7. Given'
    BY <1>4, <1>5, <1>9, <2>6 DEF Given, IInv, Outer
  <2>8. \A u \in Units : flash'[u] = IF page_erase_enabled /\ u \in start .. start + SectorSize - 1
                                     THEN "blank" ELSE flash[u]
    BY <1>2, <1>9, FlashErased, Sizes DEF ErasedSector
  <2>9. Blankness'
    <3>1. "toggled" \notin losses' => "toggled" \notin losses
      BY <1>4
    <3>2. ASSUME "toggled" \notin losses, NEW u \in Units,
                 ~page_erase_enabled \/ u \in start .. start + SectorSize - 1
          PROVE  flash'[u] \in {"blank", "data"}
      <4>1. ~page_erase_enabled => flash[u] \in {"blank", "data"}
        BY <1>1, <3>2 DEF Blankness, WasErased, IInv, Outer
      <4> QED BY <2>8, <3>2, <4>1
    <3>3. \A u \in Units : WasErased(u)' =>
            ~page_erase_enabled \/ u \in start .. start + SectorSize - 1
      <4>1. page_erase_enabled' = page_erase_enabled /\ current_sector_addr' = start
        BY <1>4
      <4> QED BY <4>1 DEF WasErased
    <3> QED BY <1>9, <3>1, <3>2, <3>3 DEF Blankness
  <2>10. Written'
    <3>1. SUFFICES ASSUME losses' = {}
                   PROVE  /\ \A u \in given : flash'[u] = "data" \/ Pending(u)
                          /\ \A u \in Units : flash'[u] = "data" =>
                               RoundDown(u, SectorSize) \in entered
      BY <1>4, <1>9, <2>6 DEF Written
    <3>2. losses = {} /\ ~(page_erase_enabled /\ start \in entered)
      BY <1>4, <3>1
    <3>3. /\ \A u \in given : flash[u] = "data" \/ Pending(u)
          /\ \A u \in Units : flash[u] = "data" => RoundDown(u, SectorSize) \in entered
      BY <1>1, <3>2 DEF IInv, Outer, Written
    <3>4. ASSUME NEW u \in Units, u \in start .. start + SectorSize - 1
          PROVE  RoundDown(u, SectorSize) = start
      <4>1. u \in Nat /\ start <= u /\ u < start + SectorSize
        BY <1>2, <3>4, Sizes DEF Units
      <4> QED BY <1>2, <4>1, RoundIs, Sizes
    <3>5. \A u \in Units : flash[u] = "data" => flash'[u] = "data"
      BY <2>8, <3>2, <3>3, <3>4
    <3>6. given \subseteq Units
      BY DEF IInv, Inner, TypeOK
    <3> QED BY <2>8, <3>3, <3>5, <3>6
  <2>11. ProgramsErased'
    BY <1>6 DEF FlashSound, ProgramsErased
  <2> QED BY <1>1, <1>4, <1>7, <1>9, <2>3, <2>4, <2>5, <2>7, <2>9, <2>10, <2>11, GoesOn
          DEF Outer
<1> QED BY <1>8, <1>9 DEF SetupNextSector, start

(***************************************************************************)
(* The steps of flash_manager_data                                         *)
(***************************************************************************)
LEMMA DataKeeps ==
  ASSUME IInv, Data
  PROVE  IInv'
<1>1. PICK a \in Units, n \in 0 .. MaxSize :
        /\ a + n <= NumUnits /\ (a .. a + n - 1) \cap given = {}
        /\ addr' = a /\ size' = n /\ given' = given \cup (a .. a + n - 1) /\ calls' = calls + 1
  BY DEF Data
<1>2. /\ state = "open" /\ at = "idle" /\ at' = "first" /\ calls < MaxCalls
      /\ UNCHANGED <<state, page_erase_enabled, block, sector, session, flash,
                     intf_open, failed, success, entered, losses>>
  BY DEF Data
<1>3. /\ a \in Nat /\ n \in Nat /\ a < NumUnits /\ a \in Addrs
      /\ \A u \in a .. a + n - 1 : u \in Units
  BY <1>1, Addresses, Sizes
<1>4. TypeOK'
  <2>1. calls + 1 \in 0 .. MaxCalls
    <3>1. calls \in 0 .. MaxCalls
      BY Types DEF TypeOK
    <3> QED BY <1>2, <3>1, Sizes
  <2> QED BY <1>1, <1>2, <1>3, <2>1, Types DEF TypeOK, block, sector, session
<1>5. Ranges'
  BY <1>1, <1>2, <1>3 DEF Ranges
<1>6. Sectors' /\ Blocks'
  BY <1>2 DEF IInv, Inner, Sectors, Blocks, Here, InSector, block, sector, session
<1>7. ~Pending(0) /\ \A u : ~Pending(u) /\ (Pending(u)' <=> u \in a .. a + n - 1)
  BY <1>1, <1>2 DEF Pending
<1>8. /\ \A u \in given : u \notin a .. a + n - 1 /\ u \in given'
      /\ \A u \in a .. a + n - 1 : u \in given' /\ u \notin given
  BY <1>1
<1>9. Given'
  BY <1>2, <1>7, <1>8 DEF IInv, Outer, Given, block
<1>10. Blankness'
  BY <1>2 DEF IInv, Outer, Blankness, WasErased, block, sector, session
<1>11. Written'
  BY <1>1, <1>2, <1>7 DEF IInv, Outer, Written, block
<1>12. ProgramsErased'
  BY <1>2, <1>8 DEF IInv, ProgramsErased
<1> QED BY <1>2, <1>4, <1>5, <1>6, <1>9, <1>10, <1>11, <1>12, GoesOn DEF Outer

LEMMA FirstSectorKeeps ==
  ASSUME IInv, FirstSector
  PROVE  IInv'
<1>1. /\ at = "first" /\ state = "open" /\ addr < NumUnits /\ Returns
      /\ UNCHANGED <<page_erase_enabled, history>>
  BY Running DEF FirstSector, IInv, Inner, Ranges
<1>2. CASE ~current_sector_valid
  <2>1. buf = {}
    BY <1>1, <1>2 DEF IInv, Inner, Sectors
  <2>2. /\ SetupNextSector("block")
        /\ at' = "block" => current_sector_valid' /\ last_addr' = addr
        /\ session' = session \/ session' = <<TRUE, addr>>
    BY <1>2 DEF FirstSector, session
  <2> QED BY <1>1, <2>1, <2>2, SetupKeeps
<1>3. CASE current_sector_valid
  <2>1. /\ at' = "block"
        /\ UNCHANGED <<state, block, sector, session, flash, intf_open, failed, entered, losses>>
    BY <1>3 DEF FirstSector
  <2>2. UNCHANGED <<addr, size>>
    BY <1>1, <2>1 DEF Returns
  <2>3. Ranges' /\ Sectors' /\ Blocks'
    BY <1>1, <1>3, <2>1, <2>2 DEF IInv, Inner, Ranges, Sectors, Blocks, Here, InSector,
       block, sector, session
  <2> QED BY <1>1, <2>1, <2>2, <2>3, Passes
<1> QED BY <1>2, <1>3

LEMMA BlockOfLastKeeps ==
  ASSUME IInv, BlockOfLast
  PROVE  IInv'
<1>1. /\ at = "block" /\ state = "open" /\ addr < NumUnits /\ Returns /\ current_sector_valid
      /\ UNCHANGED <<page_erase_enabled, session, history>>
      /\ current_write_block_size = BlockSize /\ Multiple(current_write_block_addr, BlockSize)
  BY Running DEF BlockOfLast, IInv, Inner, Ranges
<1>2. CASE RoundDown(addr, BlockSize) # RoundDown(last_addr, BlockSize)
  <2>1. FlushCurrentBlock("sector")
    BY <1>1, <1>2 DEF BlockOfLast
  <2> QED BY <1>1, <2>1, FlushKeeps
<1>3. CASE RoundDown(addr, BlockSize) = RoundDown(last_addr, BlockSize)
  <2>1. /\ at' = "sector"
        /\ UNCHANGED <<state, block, sector, flash, intf_open, failed, entered, losses>>
    BY <1>1, <1>3 DEF BlockOfLast
  <2>2. UNCHANGED <<addr, size>>
    BY <1>1, <2>1 DEF Returns
  <2>3. /\ current_write_block_addr <= last_addr /\ current_sector_addr <= last_addr
        /\ InSector \/ (buf = {} /\ current_write_block_addr = RoundDown(last_addr, BlockSize))
    BY <1>1 DEF IInv, Inner, Blocks, Here
  <2>4. current_write_block_addr <= addr
    <3>1. /\ RoundDown(last_addr, BlockSize) \in Nat /\ RoundDown(last_addr, BlockSize) <= addr
          /\ last_addr < RoundDown(last_addr, BlockSize) + BlockSize
          /\ Multiple(RoundDown(last_addr, BlockSize), BlockSize)
      BY <1>3, RoundsDown, Types, Sizes
    <3>2. ~(RoundDown(last_addr, BlockSize) < current_write_block_addr)
      <4>1. SUFFICES ASSUME RoundDown(last_addr, BlockSize) < current_write_block_addr PROVE FALSE
        OBVIOUS
      <4>2. RoundDown(last_addr, BlockSize) + BlockSize <= current_write_block_addr
        BY <1>1, <3>1, <4>1, Apart, Sizes
      <4> QED BY <2>3, <3>1, <4>2, Types, Sizes
    <3> QED BY <3>1, <3>2, Types
  <2>5. Ranges' /\ Sectors'
    BY <1>1, <2>1, <2>2, <2>3 DEF IInv, Inner, Ranges, Sectors, block, sector, session
  <2>6. Blocks'
    BY <1>1, <1>3, <2>1, <2>2, <2>3, <2>4 DEF Blocks, Here, InSector, block, sector, session
  <2> QED BY <1>1, <2>1, <2>2, <2>5, <2>6, Passes
<1> QED BY <1>2, <1>3

LEMMA SectorOfLastKeeps ==
  ASSUME IInv, SectorOfLast
  PROVE  IInv'
<1>1. /\ at = "sector" /\ state = "open" /\ addr < NumUnits /\ Returns /\ current_sector_valid
      /\ UNCHANGED <<page_erase_enabled, session, history>>
      /\ current_sector_size = SectorSize /\ Multiple(current_sector_addr, SectorSize)
  BY Running DEF SectorOfLast, IInv, Inner, Ranges
<1>2. CASE RoundDown(addr, SectorSize) # RoundDown(last_addr, SectorSize)
  <2>1. SetupNextSector("loop")
    BY <1>1, <1>2 DEF SectorOfLast
  <2>2. buf = {}
    <3>1. RoundDown(addr, BlockSize) # RoundDown(last_addr, BlockSize)
      BY <1>2, BlockThenSector, Types
    <3> QED BY <1>1, <3>1 DEF IInv, Inner, Blocks
  <2>3. current_sector_valid' /\ session' = session
    BY <1>1 DEF session
  <2> QED BY <1>1, <2>1, <2>2, <2>3, SetupKeeps
<1>3. CASE RoundDown(addr, SectorSize) = RoundDown(last_addr, SectorSize)
  <2>1. /\ at' = "loop"
        /\ UNCHANGED <<state, block, sector, flash, intf_open, failed, entered, losses>>
    BY <1>1, <1>3 DEF SectorOfLast
  <2>2. UNCHANGED <<addr, size>>
    BY <1>1, <2>1 DEF Returns
  <2>3. /\ current_write_block_addr <= addr /\ current_sector_addr <= last_addr
        /\ InSector \/ (buf = {} /\ current_write_block_addr = RoundDown(addr, BlockSize))
    BY <1>1 DEF IInv, Inner, Blocks, Sectors, Here
  <2>4. current_sector_addr <= addr
    <3>1. /\ RoundDown(last_addr, SectorSize) \in Nat /\ RoundDown(last_addr, SectorSize) <= addr
          /\ last_addr < RoundDown(last_addr, SectorSize) + SectorSize
          /\ Multiple(RoundDown(last_addr, SectorSize), SectorSize)
      BY <1>3, RoundsDown, Types, Sizes
    <3>2. ~(RoundDown(last_addr, SectorSize) < current_sector_addr)
      <4>1. SUFFICES ASSUME RoundDown(last_addr, SectorSize) < current_sector_addr PROVE FALSE
        OBVIOUS
      <4>2. RoundDown(last_addr, SectorSize) + SectorSize <= current_sector_addr
        BY <1>1, <3>1, <4>1, Apart, Sizes
      <4> QED BY <2>3, <3>1, <4>2, Types, Sizes
    <3> QED BY <3>1, <3>2, Types
  <2>5. Ranges' /\ Sectors'
    BY <1>1, <2>1, <2>2 DEF IInv, Inner, Ranges, Sectors, block, sector, session
  <2>6. Blocks'
    BY <1>1, <2>1, <2>2, <2>3, <2>4 DEF Blocks, Here, InSector, block, sector, session
  <2> QED BY <1>1, <2>1, <2>2, <2>5, <2>6, Passes
<1> QED BY <1>2, <1>3

LEMMA LoopFlushKeeps ==
  ASSUME IInv, LoopFlush
  PROVE  IInv'
<1>1. /\ at = "loop" /\ state = "open" /\ Returns /\ current_sector_valid
      /\ UNCHANGED <<page_erase_enabled, session, history>>
      /\ current_write_block_size = BlockSize
  BY Running DEF LoopFlush
<1>2. CASE addr >= current_write_block_addr + BlockSize
  <2>1. FlushCurrentBlock("body")
    BY <1>1, <1>2 DEF LoopFlush
  <2> QED BY <1>1, <2>1, FlushKeeps
<1>3. CASE ~(addr >= current_write_block_addr + BlockSize)
  <2>1. /\ at' = "body"
        /\ UNCHANGED <<state, block, sector, flash, intf_open, failed, entered, losses>>
    BY <1>1, <1>3 DEF LoopFlush
  <2>2. UNCHANGED <<addr, size>>
    BY <1>1, <2>1 DEF Returns
  <2>3. addr < current_write_block_addr + BlockSize
    BY <1>3, Types, Sizes
  <2>4. Ranges' /\ Sectors'
    BY <1>1, <2>1, <2>2 DEF IInv, Inner, Ranges, Sectors, block, sector, session
  <2>5. Blocks'
    BY <1>1, <2>1, <2>2, <2>3 DEF IInv, Inner, Blocks, Here, InSector, block, sector, session
  <2> QED BY <1>1, <2>1, <2>2, <2>4, <2>5, Passes
<1> QED BY <1>2, <1>3

LEMMA LoopEndKeeps ==
  ASSUME IInv, LoopEnd
  PROVE  IInv'
<1>1. /\ at = "body" /\ size = 0 /\ at' = "idle" /\ last_addr' = addr /\ addr' = 0 /\ size' = 0
      /\ UNCHANGED <<state, page_erase_enabled, block, sector, current_sector_valid,
                     flash, intf_open, history, failed, entered, losses>>
  BY DEF LoopEnd, Returns
<1>2. state = "open" /\ current_sector_valid
  BY <1>1, Running
<1>3. TypeOK'
  <2>1. 0 \in Addrs /\ 0 \in 0 .. MaxSize
    BY Addresses, Sizes
  <2> QED BY <1>1, <2>1, Types DEF TypeOK, block, sector, history
<1>4. Ranges' /\ Sectors'
  BY <1>1, <1>2 DEF IInv, Inner, Ranges, Sectors, block, sector
<1>5. Blocks'
  BY <1>1, <1>2 DEF IInv, Inner, Blocks, Here, InSector, block, sector
<1>6. \A u : ~Pending(u) /\ ~Pending(u)'
  <2>1. addr .. addr + size - 1 = {}
    BY <1>1, Types
  <2> QED BY <1>1, <2>1 DEF Pending
<1>7. Outer'
  BY <1>1, <1>2, <1>6 DEF IInv, Outer, Given, Blankness, WasErased, Written, block, sector, history
<1>8. ProgramsErased'
  BY <1>1 DEF IInv, ProgramsErased, history
<1> QED BY <1>1, <1>2, <1>3, <1>4, <1>5, <1>7, <1>8, GoesOn DEF history

LEMMA LoopSectorKeeps ==
  ASSUME IInv, LoopSector
  PROVE  IInv'
<1>1. /\ at = "body" /\ size > 0 /\ state = "open" /\ Returns /\ current_sector_valid
      /\ UNCHANGED <<page_erase_enabled, session, history>>
      /\ current_sector_size = SectorSize /\ Multiple(current_sector_addr, SectorSize)
  BY Running DEF LoopSector
<1>2. /\ addr < current_write_block_addr + BlockSize
      /\ current_write_block_addr <= addr /\ current_sector_addr <= addr
      /\ InSector \/ (buf = {} /\ current_write_block_addr = RoundDown(addr, BlockSize))
  BY <1>1 DEF IInv, Inner, Blocks, Here
<1>3. CASE addr >= current_sector_addr + SectorSize
  <2>1. SetupNextSector("copy")
    BY <1>1, <1>3 DEF LoopSector
  <2>2. buf = {}
    <3>1. ~InSector
      BY <1>2, <1>3, Types, Sizes DEF InSector
    <3> QED BY <1>2, <3>1
  <2>3. addr < NumUnits
    BY <1>1, Running, Sizes
  <2>4. current_sector_valid' /\ session' = session
    BY <1>1 DEF session
  <2> QED BY <1>1, <2>1, <2>2, <2>3, <2>4, SetupKeeps
<1>4. CASE ~(addr >= current_sector_addr + SectorSize)
  <2>1. /\ at' = "copy"
        /\ UNCHANGED <<state, block, sector, flash, intf_open, failed, entered, losses>>
    BY <1>1, <1>4 DEF LoopSector
  <2>2. UNCHANGED <<addr, size>>
    BY <1>1, <2>1 DEF Returns
  <2>3. addr < current_sector_addr + SectorSize
    BY <1>4, Types, Sizes
  <2>4. InSector
    BY <1>1, <1>2, <2>3, BlockInSector, Types DEF InSector
  <2>5. Ranges' /\ Sectors'
    BY <1>1, <2>1, <2>2 DEF IInv, Inner, Ranges, Sectors, block, sector, session
  <2>6. Blocks'
    BY <1>1, <1>2, <2>1, <2>2, <2>3, <2>4 DEF Blocks, Here, InSector, block, sector, session
  <2> QED BY <1>1, <2>1, <2>2, <2>5, <2>6, Passes
<1> QED BY <1>3, <1>4

LEMMA LoopCopyKeeps ==
  ASSUME IInv, LoopCopy
  PROVE  IInv'
<1> DEFINE pos == addr - current_write_block_addr
           c == CopySize
<1>1. /\ at = "copy" /\ at' = "loop" /\ addr' = addr + c /\ size' = size - c
      /\ buf' = buf \cup ((pos .. pos + c - 1) \cap (0 .. BufSize - 1))
      /\ buf_empty' = (c = 0)
      /\ losses' = losses \cup IF pos > current_write_block_size THEN {"overrun"} ELSE {}
      /\ UNCHANGED <<state, page_erase_enabled, current_write_block_addr, sector, session,
                     flash, intf_open, history, failed, entered>>
  BY DEF LoopCopy
<1>2. /\ state = "open" /\ current_sector_valid /\ current_write_block_size = BlockSize
      /\ addr \in Nat /\ size \in Nat /\ addr + size <= NumUnits
      /\ current_write_block_addr \in Nat /\ current_sector_addr \in Nat
  BY <1>1, Running
<1>3. /\ InSector /\ addr < current_sector_addr + SectorSize /\ size > 0
      /\ current_write_block_addr <= addr /\ current_sector_addr <= addr
      /\ \/ addr < current_write_block_addr + BlockSize
         \/ current_write_block_addr = current_sector_addr /\ buf = {}
  BY <1>1, <1>2 DEF IInv, Inner, Blocks, Here
<1>4. /\ current_sector_addr <= current_write_block_addr
      /\ current_write_block_addr + BlockSize <= current_sector_addr + SectorSize
  BY <1>3 DEF InSector
<1>5. pos \in Nat /\ c = IF pos > BlockSize THEN size ELSE Smaller(size, BlockSize - pos)
  BY <1>2, <1>3 DEF CopySize
<1> HIDE DEF c
<1>6. /\ c \in Nat /\ c <= size /\ (pos <= BlockSize => pos + c <= BlockSize)
      /\ c = 0 => pos = BlockSize
  BY <1>2, <1>3, <1>5, Sizes DEF Smaller
\* The offsets that are filled lie in the block, and are those of pending units.
<1>7. ASSUME NEW o \in (pos .. pos + c - 1) \cap (0 .. BufSize - 1)
      PROVE  /\ o \in Nat /\ o < BlockSize
             /\ current_write_block_addr + o \in addr .. addr + size - 1
             /\ current_write_block_addr + o < addr + c
             /\ current_write_block_addr + o
                  \in current_sector_addr .. current_sector_addr + SectorSize - 1
  <2>1. o \in Nat /\ pos <= o /\ o < pos + c /\ o < BufSize
    BY <1>5, <1>6, Sizes
  <2>2. o < BlockSize
    <3>1. CASE pos <= BlockSize
      BY <1>5, <1>6, <2>1, <3>1, Sizes
    <3>2. CASE ~(pos <= BlockSize)
      <4>1. current_write_block_addr = current_sector_addr
        BY <1>2, <1>3, <1>5, <3>2, Sizes
      <4>2. BlockSize < SectorSize
        BY <1>2, <1>3, <3>2, <4>1, Sizes
      <4> QED BY <1>5, <2>1, <3>2, <4>2, Sizes
    <3> QED BY <3>1, <3>2
  <2> QED BY <1>2, <1>3, <1>4, <1>6, <2>1, <2>2, Sizes
<1>8. TypeOK'
  <2>1. addr' \in Addrs
    <3>1. addr + c \in Nat /\ addr + c <= NumUnits
      BY <1>2, <1>6, Sizes
    <3> QED BY <1>1, <3>1, Addresses
  <2>2. size' \in 0 .. MaxSize
    <3>1. size \in 0 .. MaxSize
      BY Types DEF TypeOK
    <3> QED BY <1>1, <1>6, <3>1, Sizes
  <2>3. /\ buf' \subseteq 0 .. BufSize - 1 /\ buf_empty' \in BOOLEAN
        /\ losses' \subseteq {"erased again", "toggled", "overrun"}
    BY <1>1, Types DEF TypeOK
  <2> QED BY <1>1, <2>1, <2>2, <2>3, Types DEF TypeOK, sector, session, history
<1>9. addr' + size' <= NumUnits /\ addr <= addr'
  BY <1>1, <1>2, <1>6
<1>10. Ranges'
  BY <1>1, <1>9 DEF Ranges
<1>11. Sectors'
  BY <1>1, <1>2 DEF IInv, Inner, Sectors, sector, session
<1>12. Blocks'
  <2>1. current_write_block_addr <= addr' /\ current_sector_addr <= addr'
    BY <1>1, <1>2, <1>3, <1>6
  <2> QED BY <1>1, <1>3, <2>1 DEF Blocks, Here, InSector, sector, session
<1>13. \A u : Pending(u)' <=> u \in addr + c .. addr + size - 1
  <2>1. addr' + size' - 1 = addr + size - 1
    BY <1>1, <1>2, <1>6
  <2> QED BY <1>1, <2>1 DEF Pending
<1>14. \A u : Pending(u) <=> u \in addr .. addr + size - 1
  BY <1>1 DEF Pending
<1>15. \A u : Pending(u)' => Pending(u)
  BY <1>2, <1>6, <1>13, <1>14
<1>16. \A u \in addr .. addr + size - 1 : u \in Units /\ u \in given /\ flash[u] # "data"
  <2>1. \A u \in addr .. addr + size - 1 : u \in Units
    BY <1>2, Addresses, Sizes
  <2> QED BY <1>14, <2>1 DEF IInv, Outer, Given
<1>17. /\ flash' = flash /\ given' = given
       /\ current_write_block_addr' = current_write_block_addr
  BY <1>1 DEF history
<1>18. Given'
  <2>1. ASSUME NEW o \in buf'
        PROVE  /\ o < BlockSize /\ current_write_block_addr + o \in given
               /\ ~Pending(current_write_block_addr + o)'
    <3> DEFINE a == current_write_block_addr + o
    <3>1. CASE o \in buf
      <4>1. o < BlockSize /\ a \in given /\ ~Pending(a)
        BY <1>2, <3>1 DEF IInv, Outer, Given
      <4>2. ~Pending(a)'
        BY <1>1, <1>2, <1>6, <1>14, <1>17, <4>1 DEF Pending
      <4> QED BY <4>1, <4>2
    <3>2. CASE o \in (pos .. pos + c - 1) \cap (0 .. BufSize - 1)
      <4>1. o < BlockSize /\ a \in addr .. addr + size - 1 /\ a < addr + c
        BY <1>7, <3>2
      <4>2. a \in given
        BY <1>16, <4>1
      <4>3. ~Pending(a)'
        BY <1>1, <1>2, <1>6, <1>17, <4>1 DEF Pending
      <4> QED BY <4>1, <4>2, <4>3
    <3> QED BY <1>1, <2>1, <3>1, <3>2
  <2>2. \A u \in Units : Pending(u)' => u \in given /\ flash[u] # "data"
    BY <1>15 DEF IInv, Outer, Given
  <2>3. \A u \in Units : flash[u] = "data" => u \in given
    BY DEF IInv, Outer, Given
  <2> QED BY <1>17, <2>1, <2>2, <2>3 DEF Given
<1>19. Blankness'
  <2>1. SUFFICES ASSUME "toggled" \notin losses
                 PROVE  Blankness'
    BY <1>1 DEF Blankness
  <2>2. \A u \in Units : WasErased(u)' <=> WasErased(u)
    BY <1>1 DEF WasErased, sector, session
  <2>3. ASSUME NEW o \in buf'
        PROVE  flash[current_write_block_addr + o] = "blank"
    <3>1. CASE o \in buf
      BY <1>2, <2>1, <3>1 DEF IInv, Outer, Blankness
    <3>2. CASE o \in (pos .. pos + c - 1) \cap (0 .. BufSize - 1)
      <4>1. /\ current_write_block_addr + o \in Units
            /\ flash[current_write_block_addr + o] # "data"
            /\ WasErased(current_write_block_addr + o)
        BY <1>2, <1>7, <1>16, <3>2 DEF WasErased
      <4> QED BY <1>2, <2>1, <4>1 DEF IInv, Outer, Blankness
    <3> QED BY <1>1, <2>3, <3>1, <3>2
  <2>4. \A u \in Units : WasErased(u) => flash[u] \in {"blank", "data"}
    BY <1>2, <2>1 DEF IInv, Outer, Blankness
  <2> QED BY <1>17, <2>2, <2>3, <2>4 DEF Blankness
<1>20. Written'
  <2>1. SUFFICES ASSUME losses' = {}
                 PROVE  Written'
    BY DEF Written
  <2>2. losses = {} /\ pos <= BlockSize
    BY <1>1, <1>2, <1>5, <2>1, Sizes
  <2>3. ASSUME NEW u \in given
        PROVE  flash[u] = "data" \/ u - current_write_block_addr \in buf' \/ Pending(u)'
    <3>1. flash[u] = "data" \/ u - current_write_block_addr \in buf \/ Pending(u)
      BY <1>2, <2>2, <2>3 DEF IInv, Outer, Written
    <3>2. ASSUME Pending(u), ~Pending(u)'
          PROVE  u - current_write_block_addr \in buf'
      <4>1. u \in addr .. addr + size - 1 /\ ~(u \in addr + c .. addr + size - 1)
        BY <1>13, <1>14, <3>2
      <4>2. u \in Int /\ addr <= u /\ u < addr + c
        BY <1>2, <1>6, <4>1
      <4>3. u - current_write_block_addr \in pos .. pos + c - 1
        BY <1>2, <1>6, <4>2
      <4>4. u - current_write_block_addr \in 0 .. BufSize - 1
        BY <1>2, <1>5, <1>6, <2>2, <4>2, Sizes
      <4> QED BY <1>1, <4>3, <4>4
    <3> QED BY <1>1, <3>1, <3>2
  <2>4. buf_empty' => buf' = {}
    <3>1. SUFFICES ASSUME c = 0 PROVE buf' = {}
      BY <1>1
    <3>2. buf = {}
      BY <1>2, <1>3, <1>6, <3>1, Sizes
    <3>3. pos .. pos + c - 1 = {}
      BY <1>5, <3>1
    <3> QED BY <1>1, <3>2, <3>3
  <2>5. \A u \in Units : flash[u] = "data" => RoundDown(u, SectorSize) \in entered
    BY <1>2, <2>2 DEF IInv, Outer, Written
  <2> QED BY <1>1, <1>17, <2>3, <2>4, <2>5 DEF Written
<1>21. ProgramsErased'
  BY <1>1, <1>17 DEF IInv, ProgramsErased
<1> QED BY <1>1, <1>2, <1>8, <1>10, <1>11, <1>12, <1>18, <1>19, <1>20, <1>21, GoesOn
        DEF Outer, history

(***************************************************************************)
(* Opening and closing a session, and the vendor commands                  *)
(***************************************************************************)
LEMMA OpenKeeps ==
  ASSUME IInv, Open
  PROVE  IInv'
<1> DEFINE old == [u \in Units |-> "old"]
           none == Erased(0, NumUnits)
<1>1. /\ at = "idle" /\ at' = "idle" /\ addr' = addr /\ size' = size
      /\ state = "closed" /\ page_erase_enabled' = page_erase_enabled
      /\ buf' = {} /\ buf_empty' = TRUE /\ current_sector_valid' = FALSE /\ last_addr' = 0
      /\ current_write_block_addr' = 0 /\ current_write_block_size' = 0
      /\ current_sector_addr' = 0 /\ current_sector_size' = 0
      /\ given' = {} /\ calls' = 0 /\ success' = FALSE /\ entered' = {} /\ losses' = {}
  BY DEF Open, Cleared
<1>2. /\ old \in [Units -> Contents] /\ none \in [Units -> Contents]
      /\ \A u \in Units : old[u] = "old"
      /\ \A u \in Units : none[u] = "blank"
  <2>1. \A u \in Units : u \in 0 .. 0 + NumUnits - 1
    BY Sizes DEF Units
  <2>2. 0 \in Nat /\ NumUnits \in Nat
    BY Sizes
  <2> QED BY <2>1, <2>2, FlashErased DEF Contents
<1> HIDE DEF old, none
<1>3. /\ state' \in {"closed", "open"} /\ failed' \in BOOLEAN /\ intf_open' \in BOOLEAN
      /\ flash' \in {old, none}
      /\ state' = "open" => ~failed'
      /\ state' = "open" /\ ~page_erase_enabled => flash' = none
  BY Types DEF Open, old, none, IntfAfterEraseFailed, TypeOK
<1>4. state' = "closed" => ~intf_open'
  <2>1. ~intf_open
    BY <1>1 DEF IInv, InterfaceReleased
  <2> QED BY <2>1 DEF Open, IntfAfterEraseFailed
<1>5. TypeOK'
  <2>1. 0 \in Addrs /\ 0 \in 0 .. MaxCalls /\ 0 \in 0 .. BufSize /\ 0 \in 0 .. SectorSize
    BY Addresses, Sizes
  <2> QED BY <1>1, <1>2, <1>3, <2>1, Types DEF TypeOK
<1>6. Inner'
  BY <1>1, <1>3, <1>5 DEF Inner, Calm, Ranges, Sectors, Blocks
<1>7. Outer'
  <2>1. \A u \in Units : flash'[u] # "data"
    BY <1>2, <1>3
  <2>2. \A u : ~Pending(u)'
    BY <1>1 DEF Pending
  <2>3. Given'
    BY <1>1, <2>1, <2>2 DEF Given
  <2>4. Blankness'
    BY <1>1, <1>2, <1>3 DEF Blankness, WasErased
  <2>5. Written'
    BY <1>1, <2>1 DEF Written
  <2> QED BY <2>3, <2>4, <2>5 DEF Outer
<1>8. FailureReported' /\ InterfaceReleased' /\ ProgramsErased' /\ ImageWrittenUnlessLost'
  BY <1>1, <1>2, <1>3, <1>4
     DEF FailureReported, InterfaceReleased, ProgramsErased, ImageWrittenUnlessLost, ImageWritten
<1> QED BY <1>6, <1>7, <1>8 DEF IInv

LEMMA CloseKeeps ==
  ASSUME IInv, Close
  PROVE  IInv'
<1> DEFINE f == Programmed(current_write_block_addr, buf)
           flushed == state = "open" /\ ~buf_empty
<1>1. /\ at = "idle" /\ at' = "idle" /\ addr' = addr /\ size' = size
      /\ state # "closed" /\ state' = "closed" /\ page_erase_enabled' = page_erase_enabled
      /\ buf' = {} /\ buf_empty' = TRUE /\ current_sector_valid' = FALSE /\ last_addr' = 0
      /\ current_write_block_addr' = 0 /\ current_write_block_size' = 0
      /\ current_sector_addr' = 0 /\ current_sector_size' = 0 /\ intf_open' = FALSE
      /\ given' = given /\ calls' = calls /\ entered' = entered /\ losses' = losses
  BY DEF Close, Cleared, CloseIntf
<1>2. PICK written \in BOOLEAN, closed \in BOOLEAN :
        /\ ~written => flushed
        /\ flash' \in IF ~flushed THEN {flash} ELSE {f} \cup (IF written THEN {} ELSE {flash})
        /\ failed' = (failed \/ ~written \/ ~closed)
        /\ success' = (state = "open" /\ closed /\ written)
  BY DEF Close, UninitResult
<1>3. state = "open" =>
        /\ f \in [Units -> Contents]
        /\ \A u \in Units : f[u] = "data" => u \in given
        /\ \A u \in Units : f[u] = "garbage" => "toggled" \in losses
        /\ "toggled" \notin losses =>
             \A u \in Units : f[u] = IF u - current_write_block_addr \in buf THEN "data"
                                     ELSE flash[u]
  BY FlashProgrammed
<1>4. /\ flash \in [Units -> Contents] /\ given \subseteq Units
      /\ \A u \in Units : flash[u] = "data" => u \in given
      /\ \A u \in Units : flash[u] = "garbage" => "toggled" \in losses
  BY Types DEF IInv, Outer, Given, ProgramsErased
<1> HIDE DEF f
<1>5. FlashSound
  <2>1. flash' = flash \/ (state = "open" /\ flash' = f)
    BY <1>2
  <2>2. CASE flash' = flash
    BY <1>1, <1>4, <2>2 DEF FlashSound
  <2>3. CASE state = "open" /\ flash' = f
    BY <1>1, <1>3, <2>3 DEF FlashSound
  <2> QED BY <2>1, <2>2, <2>3
<1>6. failed' \in BOOLEAN /\ success' \in BOOLEAN
  BY <1>2, Types DEF TypeOK
<1>7. TypeOK'
  <2>1. 0 \in Addrs /\ 0 \in 0 .. BufSize /\ 0 \in 0 .. SectorSize
    BY Addresses, Sizes
  <2> QED BY <1>1, <1>5, <1>6, <2>1, Types DEF TypeOK, FlashSound
<1>8. Inner'
  BY <1>1, <1>7 DEF Inner, Calm, Ranges, Sectors, Blocks
<1>9. Outer'
  <2>1. \A u : ~Pending(u)'
    BY <1>1 DEF Pending
  <2> QED BY <1>1, <1>5, <2>1 DEF Outer, Given, Blankness, Written, FlashSound
<1>10. ASSUME success' PROVE ~failed'
  <2>1. state = "open" /\ closed /\ written
    BY <1>2, <1>10
  <2>2. ~failed
    BY <2>1 DEF IInv, Inner, Calm
  <2> QED BY <1>2, <2>1, <2>2
<1>11. ImageWrittenUnlessLost'
  <2>1. SUFFICES ASSUME losses = {}, success', NEW u \in given
                 PROVE  flash'[u] = "data"
    BY <1>1 DEF ImageWrittenUnlessLost, ImageWritten
  <2>2. state = "open" /\ closed /\ written
    BY <1>2, <2>1
  <2>3. flash[u] = "data" \/ u - current_write_block_addr \in buf
    <3>1. ~Pending(u)
      BY <1>1 DEF Pending
    <3> QED BY <2>1, <2>2, <3>1 DEF IInv, Outer, Written
  <2>4. CASE flushed
    <3>1. flash' = f
      BY <1>2, <2>2, <2>4
    <3> QED BY <1>3, <1>4, <2>1, <2>2, <2>3, <3>1
  <2>5. CASE ~flushed
    <3>1. flash' = flash /\ buf = {}
      BY <1>2, <2>1, <2>2, <2>5 DEF IInv, Outer, Written
    <3> QED BY <2>3, <3>1
  <2> QED BY <2>4, <2>5
<1>12. FailureReported' /\ InterfaceReleased' /\ ProgramsErased'
  BY <1>1, <1>5, <1>10 DEF FlashSound, FailureReported, InterfaceReleased, ProgramsErased
<1> QED BY <1>8, <1>9, <1>11, <1>12 DEF IInv

LEMMA SetPageEraseKeeps ==
  ASSUME IInv, SetPageErase
  PROVE  IInv'
<1>1. /\ at = "idle" /\ page_erase_enabled' \in BOOLEAN
      /\ losses' = IF state = "closed" THEN losses ELSE losses \cup {"toggled"}
      /\ UNCHANGED <<state, block, sector, session, at, addr, size, flash, intf_open,
                     history, failed, entered>>
  BY FlashAssumption DEF SetPageErase
<1>2. Inner'
  <2>1. TypeOK'
    BY <1>1, Types DEF TypeOK, block, sector, session, history
  <2>2. Calm' /\ Ranges' /\ Sectors'
    BY <1>1 DEF IInv, Inner, Calm, Ranges, Sectors, block, sector, session, history
  <2>3. Blocks'
    BY <1>1 DEF IInv, Inner, Blocks, Here, InSector, block, sector, session
  <2> QED BY <2>1, <2>2, <2>3 DEF Inner
<1>3. Outer'
  BY <1>1 DEF IInv, Outer, Given, Pending, Blankness, Written, block, sector, session, history
<1>4. FailureReported' /\ InterfaceReleased' /\ ProgramsErased' /\ ImageWrittenUnlessLost'
  BY <1>1 DEF IInv, FailureReported, InterfaceReleased, ProgramsErased,
     ImageWrittenUnlessLost, ImageWritten, history
<1> QED BY <1>2, <1>3, <1>4 DEF IInv

LEMMA StutterKeeps ==
  ASSUME IInv, UNCHANGED vars
  PROVE  IInv'
<1>1. UNCHANGED <<state, page_erase_enabled, block, sector, session, at, addr, size,
                  flash, intf_open, history, failed, entered, losses>>
  BY DEF vars
<1>2. Inner'
  <2>1. TypeOK'
    BY <1>1, Types DEF TypeOK, block, sector, session, history
  <2>2. Calm' /\ Ranges' /\ Sectors'
    BY <1>1 DEF IInv, Inner, Calm, Ranges, Sectors, block, sector, session, history
  <2>3. Blocks'
    BY <1>1 DEF IInv, Inner, Blocks, Here, InSector, block, sector, session
  <2> QED BY <2>1, <2>2, <2>3 DEF Inner
<1>3. Outer'
  BY <1>1 DEF IInv, Outer, Given, Pending, Blankness, WasErased, Written,
     block, sector, session, history
<1>4. FailureReported' /\ InterfaceReleased' /\ ProgramsErased' /\ ImageWrittenUnlessLost'
  BY <1>1 DEF IInv, FailureReported, InterfaceReleased, ProgramsErased,
     ImageWrittenUnlessLost, ImageWritten, history
<1> QED BY <1>2, <1>3, <1>4 DEF IInv

LEMMA InitKeeps ==
  ASSUME Init
  PROVE  IInv
<1>1. TypeOK
  <2>1. /\ 0 \in Addrs /\ 0 \in 0 .. MaxCalls /\ 0 \in 0 .. BufSize
        /\ 0 \in 0 .. SectorSize /\ 0 \in 0 .. MaxSize
    BY Addresses, Sizes
  <2>2. page_erase_enabled \in BOOLEAN
    BY FlashAssumption DEF Init
  <2> QED BY <2>1, <2>2 DEF Init, TypeOK, Contents
<1>2. Inner /\ Outer
  BY <1>1 DEF Init, Inner, Calm, Ranges, Sectors, Blocks, Outer, Given, Pending, Blankness, Written
<1>3. FailureReported /\ InterfaceReleased /\ ProgramsErased /\ ImageWrittenUnlessLost
  BY DEF Init, FailureReported, InterfaceReleased, ProgramsErased, ImageWrittenUnlessLost,
     ImageWritten
<1> QED BY <1>2, <1>3 DEF IInv

LEMMA NextKeeps ==
  ASSUME IInv, [Next]_vars
  PROVE  IInv'
<1>1. CASE Open
  BY <1>1, OpenKeeps
<1>2. CASE Data
  BY <1>2, DataKeeps
<1>3. CASE FirstSector
  BY <1>3, FirstSectorKeeps
<1>4. CASE BlockOfLast
  BY <1>4, BlockOfLastKeeps
<1>5. CASE SectorOfLast
  BY <1>5, SectorOfLastKeeps
<1>6. CASE LoopFlush
  BY <1>6, LoopFlushKeeps
<1>7. CASE LoopEnd
  BY <1>7, LoopEndKeeps
<1>8. CASE LoopSector
  BY <1>8, LoopSectorKeeps
<1>9. CASE LoopCopy
  BY <1>9, LoopCopyKeeps
<1>10. CASE Close
  BY <1>10, CloseKeeps
<1>11. CASE SetPageErase
  BY <1>11, SetPageEraseKeeps
<1>12. CASE UNCHANGED vars
  BY <1>12, StutterKeeps
<1> QED BY <1>1, <1>2, <1>3, <1>4, <1>5, <1>6, <1>7, <1>8, <1>9, <1>10, <1>11, <1>12
        DEF Next, DataStep

(***************************************************************************)
(* The theorems                                                            *)
(***************************************************************************)
\* Between any two calls of the flash interface, the block buffer lies in the sector
\* that was set up, and every unit passed to flash_manager_data is pending, in the
\* buffer or programmed.
THEOREM Invariance == Spec => []IInv
<1> QED BY InitKeeps, NextKeeps, PTL DEF Spec

\* Every variable of the flash manager keeps its type; no block or sector address
\* leaves the flash.
THEOREM TypeCorrect == Spec => []TypeOK
<1>1. IInv => TypeOK
  BY DEF IInv, Inner
<1> QED BY <1>1, Invariance, PTL

\* A session that flash_manager_uninit ends without an error wrote all the data it
\* was given, unless it erased a sector twice, the erase mode was switched in it, or
\* a copy overran the block: for images and flash of any size, in any order.
THEOREM ImagesWritten == Spec => []ImageWrittenUnlessLost
<1>1. IInv => ImageWrittenUnlessLost
  BY DEF IInv
<1> QED BY <1>1, Invariance, PTL

\* No call of the interface fails without the session ending in an error.
THEOREM FailuresReported == Spec => []FailureReported
<1>1. IInv => FailureReported
  BY DEF IInv
<1> QED BY <1>1, Invariance, PTL

\* flash_manager never programs a unit that is not erased, unless the erase mode was
\* switched during the session, and programs only what it was given.
THEOREM OnlyErasedProgrammed == Spec => []ProgramsErased
<1>1. IInv => ProgramsErased
  BY DEF IInv
<1> QED BY <1>1, Invariance, PTL

\* Whenever the manager is closed the interface of the flash is closed too.
THEOREM InterfaceAlwaysReleased == Spec => []InterfaceReleased
<1>1. IInv => InterfaceReleased
  BY DEF IInv
<1> QED BY <1>1, Invariance, PTL


(***************************************************************************)
(* The interface, and binary files                                         *)
(*                                                                         *)
(* The two statements about the manager that it does not keep, under the   *)
(* conditions that exclude their counterexamples.                          *)
(***************************************************************************)
\* An open manager has the interface open; one in error has seen a failure.
InterfaceHeld ==
  /\ state = "open" => intf_open
  /\ state = "error" => failed

\* The data of a binary file enters each sector at its start, after the one before it.
ContiguousData == Contiguous =>
  /\ losses \subseteq {"toggled"}
  /\ state = "open" =>
       /\ at \in {"first", "block", "sector"} /\ current_sector_valid => addr = last_addr
       /\ current_sector_valid \/ at # "idle" => calls > 0
       /\ IF current_sector_valid
          THEN /\ Here <= current_sector_addr + SectorSize
               /\ \A s \in entered : s <= current_sector_addr
          ELSE entered = {}
       /\ at = "copy" => addr < current_write_block_addr + BlockSize

LEMMA StateAndCalls ==
  ASSUME IInv
  PROVE  state \in {"closed", "open", "error"} /\ calls \in Nat
<1>1. state \in {"closed", "open", "error"} /\ calls \in 0 .. MaxCalls
  BY Types, Zenon DEF TypeOK
<1> QED BY <1>1, Sizes

\* What a change of sector makes of the variables these two are about.
LEMMA SetupSteps ==
  ASSUME NEW next, SetupNextSector(next), state = "open", at # "idle"
  PROVE  /\ \/ at' = next /\ UNCHANGED <<state, failed, intf_open>>
            \/ at' = "idle" /\ state' = "error" /\ failed'
         /\ current_sector_addr' = RoundDown(addr, SectorSize)
         /\ current_write_block_addr' = RoundDown(addr, SectorSize)
         /\ entered' = entered \cup {RoundDown(addr, SectorSize)}
         /\ RoundDown(addr, SectorSize) \notin entered => losses' = losses
<1> DEFINE start == RoundDown(addr, SectorSize)
           lost == IF page_erase_enabled /\ start \in entered THEN {"erased again"} ELSE {}
<1>1. losses' = losses \cup lost
  BY Zenon DEF SetupNextSector
<1>2. start \notin entered => lost = {}
  BY Zenon
<1>3. /\ \/ at' = next /\ UNCHANGED <<state, failed, intf_open>>
         \/ at' = "idle" /\ state' = "error" /\ failed'
      /\ current_sector_addr' = start
      /\ current_write_block_addr' = start
      /\ entered' = entered \cup {start}
  BY Zenon DEF SetupNextSector, Fails
<1> HIDE DEF lost
<1> QED BY <1>1, <1>2, <1>3

LEMMA InterfaceHeldStep ==
  ASSUME IInv, InterfaceHeld, [Next]_vars
  PROVE  InterfaceHeld'
<1>1. CASE Open
  BY <1>1 DEF Open, InterfaceHeld
<1>2. CASE Data
  BY <1>2 DEF Data, InterfaceHeld
<1>3. ASSUME NEW next, SetupNextSector(next), at # "idle" PROVE InterfaceHeld'
  <2>1. state = "open"
    BY <1>3 DEF IInv, Inner, Calm
  <2> QED BY <1>3, <2>1, SetupSteps DEF InterfaceHeld
<1>4. ASSUME NEW next, FlushCurrentBlock(next), at # "idle" PROVE InterfaceHeld'
  <2>1. state = "open"
    BY <1>4 DEF IInv, Inner, Calm
  <2> QED BY <1>4, <2>1 DEF FlushCurrentBlock, Fails, InterfaceHeld
<1>5. UNCHANGED <<state, intf_open, failed>> => InterfaceHeld'
  BY DEF InterfaceHeld
<1>6. CASE FirstSector
  BY <1>3, <1>5, <1>6 DEF FirstSector
<1>7. CASE BlockOfLast
  BY <1>4, <1>5, <1>7 DEF BlockOfLast
<1>8. CASE SectorOfLast
  BY <1>3, <1>5, <1>8 DEF SectorOfLast
<1>9. CASE LoopFlush
  BY <1>4, <1>5, <1>9 DEF LoopFlush
<1>10. CASE LoopSector
  BY <1>3, <1>5, <1>10 DEF LoopSector
<1>11. CASE LoopEnd \/ LoopCopy \/ SetPageErase \/ UNCHANGED vars
  BY <1>5, <1>11 DEF LoopEnd, LoopCopy, SetPageErase, vars
<1>12. CASE Close
  BY <1>12 DEF Close, InterfaceHeld
<1> QED BY <1>1, <1>2, <1>6, <1>7, <1>8, <1>9, <1>10, <1>11, <1>12 DEF Next, DataStep

LEMMA ContiguousDataStep ==
  ASSUME IInv, ContiguousData, [Next]_vars, Contiguous
  PROVE  ContiguousData'
<1>1. losses \subseteq {"toggled"}
  BY DEF ContiguousData
\* A step that ends the session, or that leaves all positions alone.
<1>2. ASSUME losses' \subseteq {"toggled"}, state' # "open" PROVE ContiguousData'
  BY <1>2 DEF ContiguousData
<1>3. ASSUME UNCHANGED <<state, current_sector_valid, addr, last_addr, at, calls,
                         current_sector_addr, current_write_block_addr, entered>>,
             losses' \subseteq {"toggled"}
      PROVE  ContiguousData'
  BY <1>3 DEF ContiguousData, Here
<1>4. CASE Open
  BY <1>4 DEF Open, Cleared, ContiguousData
<1>5. CASE Data
  <2>1. PICK a \in Units, n \in 0 .. MaxSize : Follows(a) /\ addr' = a /\ calls' = calls + 1
    BY <1>5 DEF Data
  <2>2. /\ state = "open" /\ at = "idle" /\ at' = "first"
        /\ UNCHANGED <<state, current_sector_valid, last_addr, current_sector_addr,
                       entered, losses>>
    BY <1>5 DEF Data, sector, session
  <2>3. current_sector_valid => a = last_addr
    BY <2>1, <2>2 DEF Follows, ContiguousData
  <2>4. calls' > 0
    BY <2>1, StateAndCalls
  <2> QED BY <1>1, <2>1, <2>2, <2>3, <2>4 DEF ContiguousData, Here
<1>6. CASE FirstSector
  <2>1. /\ at = "first" /\ state = "open" /\ addr \in Nat /\ calls \in Nat
        /\ UNCHANGED calls
    BY <1>6, Running, StateAndCalls DEF FirstSector, history
  <2>2. CASE ~current_sector_valid
    <3>1. /\ SetupNextSector("block") /\ entered = {}
          /\ at' = "block" => current_sector_valid' = TRUE /\ last_addr' = addr
      BY <2>1, <2>2, <1>6 DEF FirstSector, ContiguousData
    <3>2. losses' \subseteq {"toggled"}
      BY <1>1, <2>1, <3>1, SetupSteps
    <3>3. state' = "error" \/ (at' = "block" /\ state' = "open")
      BY <2>1, <3>1, SetupSteps
    <3>4. CASE at' = "block" /\ state' = "open"
      <4> DEFINE start == RoundDown(addr, SectorSize)
      <4>1. start \in Nat /\ start <= addr /\ addr < start + SectorSize
        BY <2>1, RoundsDown, Sizes
      <4>2. current_sector_addr' = start /\ entered' = {start} /\ addr' = addr
        BY <1>6, <2>1, <3>1, <3>4, SetupSteps DEF FirstSector, Returns
      <4>3. calls > 0
        BY <2>1 DEF ContiguousData
      <4> HIDE DEF start
      <4> QED BY <2>1, <3>1, <3>2, <3>4, <4>1, <4>2, <4>3, Sizes DEF ContiguousData, Here
    <3> QED BY <1>2, <3>2, <3>3, <3>4
  <2>3. CASE current_sector_valid
    <3>1. /\ at' = "block"
          /\ UNCHANGED <<state, sector, session, addr, entered, losses>>
      BY <1>6, <2>3 DEF FirstSector, Returns
    <3> QED BY <1>1, <2>1, <2>3, <3>1 DEF ContiguousData, Here, sector, session
  <2> QED BY <2>2, <2>3
<1>7. CASE BlockOfLast
  <2>1. /\ at = "block" /\ state = "open" /\ current_sector_valid /\ addr = last_addr
        /\ UNCHANGED <<session, history>> /\ Returns
    BY <1>7, Running DEF BlockOfLast, ContiguousData
  <2>2. /\ at' = "sector"
        /\ UNCHANGED <<state, block, sector, entered, losses>>
    BY <1>7, <2>1 DEF BlockOfLast
  <2>3. UNCHANGED addr
    BY <2>1, <2>2 DEF Returns
  <2> QED BY <1>1, <2>1, <2>2, <2>3 DEF ContiguousData, Here, sector, session, history
<1>8. CASE SectorOfLast
  <2>1. /\ at = "sector" /\ state = "open" /\ current_sector_valid /\ addr = last_addr
        /\ UNCHANGED <<session, history>> /\ Returns
    BY <1>8, Running DEF SectorOfLast, ContiguousData
  <2>2. /\ at' = "loop"
        /\ UNCHANGED <<state, block, sector, entered, losses>>
    BY <1>8, <2>1 DEF SectorOfLast
  <2>3. UNCHANGED addr
    BY <2>1, <2>2 DEF Returns
  <2> QED BY <1>1, <2>1, <2>2, <2>3 DEF ContiguousData, Here, sector, session, history
<1>9. CASE LoopFlush
  <2>1. /\ at = "loop" /\ state = "open" /\ current_sector_valid
        /\ UNCHANGED <<session, history>> /\ Returns
    BY <1>9, Running DEF LoopFlush
  <2>2. at' = "body" \/ state' = "error"
    BY <1>9 DEF LoopFlush, FlushCurrentBlock, Fails
  <2>3. UNCHANGED <<sector, entered, losses>>
    BY <1>9 DEF LoopFlush, FlushCurrentBlock
  <2>4. CASE state' = "error"
    BY <1>1, <1>2, <2>3, <2>4
  <2>5. CASE at' = "body"
    <3>1. UNCHANGED addr
      BY <2>1, <2>5 DEF Returns
    <3> QED BY <1>1, <2>1, <2>3, <2>5, <3>1 DEF ContiguousData, Here, sector, session, history
  <2> QED BY <2>2, <2>4, <2>5
<1>10. CASE LoopEnd
  <2>1. /\ at = "body" /\ state = "open" /\ current_sector_valid
        /\ at' = "idle" /\ last_addr' = addr
        /\ UNCHANGED <<current_sector_valid, sector, calls, entered, losses>>
    BY <1>10, Running DEF LoopEnd, history
  <2> QED BY <1>1, <2>1 DEF ContiguousData, Here, sector
<1>11. CASE LoopSector
  <2>1. /\ at = "body" /\ state = "open" /\ current_sector_valid /\ addr \in Nat
        /\ UNCHANGED <<session, history>> /\ Returns
        /\ current_sector_size = SectorSize /\ Multiple(current_sector_addr, SectorSize)
        /\ current_sector_addr \in Nat
    BY <1>11, Running DEF LoopSector
  <2>2. /\ addr <= current_sector_addr + SectorSize
        /\ \A s \in entered : s <= current_sector_addr
        /\ calls > 0
    BY <2>1 DEF ContiguousData, Here
  <2>3. CASE addr >= current_sector_addr + SectorSize
    <3> DEFINE start == RoundDown(addr, SectorSize)
    <3>1. addr = current_sector_addr + SectorSize
      BY <2>1, <2>2, <2>3, Sizes
    <3>2. start = addr
      <4>1. PICK k \in Nat : current_sector_addr = k * SectorSize
        BY <2>1 DEF Multiple
      <4>2. addr = (k + 1) * SectorSize
        BY <3>1, <4>1, Sizes
      <4> QED BY <4>2, Sizes DEF RoundDown
    <3>3. SetupNextSector("copy")
      BY <1>11, <2>1, <2>3 DEF LoopSector
    <3>4. start \notin entered
      BY <2>1, <2>2, <3>1, <3>2, Sizes
    <3>5. /\ current_sector_addr' = start /\ current_write_block_addr' = start
          /\ entered' = entered \cup {start}
      BY <2>1, <3>3, SetupSteps
    <3>6. losses' = losses
      BY <2>1, <3>3, <3>4, SetupSteps
    <3>7. (at' = "copy" /\ state' = "open") \/ state' = "error"
      BY <2>1, <3>3, SetupSteps
    <3> HIDE DEF start
    <3>8. CASE state' = "error"
      BY <1>1, <1>2, <3>6, <3>8
    <3>9. CASE at' = "copy" /\ state' = "open"
      <4>1. addr' = addr
        BY <2>1, <3>9 DEF Returns
      <4>2. BlockSize \in Nat /\ BlockSize > 0
        BY Sizes
      <4>3. \A s \in entered' : s <= current_sector_addr'
        <5>1. \A s \in entered : s \in Nat /\ s <= current_sector_addr
          BY <2>2, Types, Addresses
        <5>2. \A s \in entered : s <= addr
          BY <2>1, <3>1, <5>1, Sizes
        <5> QED BY <2>1, <3>2, <3>5, <5>2
      <4>4. /\ Here' = addr /\ addr <= current_sector_addr' + SectorSize
            /\ addr < current_write_block_addr' + BlockSize
        BY <2>1, <3>1, <3>2, <3>5, <3>9, <4>1, <4>2, Sizes DEF Here
      <4> QED BY <1>1, <2>1, <2>2, <3>6, <3>9, <4>1, <4>3, <4>4
              DEF ContiguousData, session, history
    <3> QED BY <3>7, <3>8, <3>9
  <2>4. CASE ~(addr >= current_sector_addr + SectorSize)
    <3>1. /\ at' = "copy"
          /\ UNCHANGED <<state, block, sector, entered, losses>>
      BY <1>11, <2>1, <2>4 DEF LoopSector
    <3>2. addr' = addr
      BY <2>1, <3>1 DEF Returns
    <3>3. addr < current_write_block_addr + BlockSize
      BY <2>1 DEF IInv, Inner, Blocks
    <3> QED BY <1>1, <2>1, <3>1, <3>2, <3>3
            DEF ContiguousData, Here, block, sector, session, history
  <2> QED BY <2>3, <2>4
<1>12. CASE LoopCopy
  <2> DEFINE pos == addr - current_write_block_addr
             c == CopySize
  <2>1. /\ at = "copy" /\ at' = "loop" /\ addr' = addr + c
        /\ losses' = losses \cup IF pos > current_write_block_size THEN {"overrun"} ELSE {}
        /\ UNCHANGED <<state, current_write_block_addr, sector, session, history, entered>>
    BY <1>12 DEF LoopCopy
  <2>2. /\ state = "open" /\ current_sector_valid /\ current_write_block_size = BlockSize
        /\ addr \in Nat /\ size \in Nat /\ current_write_block_addr \in Nat
        /\ current_sector_addr \in Nat
    BY <2>1, Running
  <2>3. /\ InSector /\ current_write_block_addr <= addr
        /\ addr < current_write_block_addr + BlockSize
    BY <2>1, <2>2 DEF IInv, Inner, Blocks, Here, ContiguousData
  <2>4. pos \in Nat /\ pos < BlockSize /\ BlockSize \in Nat
    BY <2>2, <2>3, Sizes
  <2>5. c = Smaller(size, BlockSize - pos)
    BY <2>2, <2>4 DEF CopySize
  <2> HIDE DEF c
  <2>6. c \in Nat /\ addr + c <= current_write_block_addr + BlockSize
    BY <2>2, <2>4, <2>5 DEF Smaller
  <2>7. addr' <= current_sector_addr + SectorSize
    BY <2>1, <2>2, <2>3, <2>6, Sizes DEF InSector
  <2>8. losses' = losses
    BY <2>1, <2>2, <2>4
  <2> QED BY <1>1, <2>1, <2>2, <2>7, <2>8 DEF ContiguousData, Here, sector, session, history
<1>13. CASE Close
  BY <1>1, <1>2, <1>13 DEF Close
<1>14. CASE SetPageErase
  BY <1>1, <1>3, <1>14 DEF SetPageErase, block, sector, session, history
<1>15. CASE UNCHANGED vars
  BY <1>1, <1>3, <1>15 DEF vars, block, sector, session, history
<1> QED BY <1>4, <1>5, <1>6, <1>7, <1>8, <1>9, <1>10, <1>11, <1>12, <1>13, <1>14, <1>15
        DEF Next, DataStep

\* What the double close of the interface needs: as long as no call of it failed in the
\* session, flash_manager_uninit finds it open.
THEOREM ClosesOnceUnlessFailed == Spec => [](~failed => ClosesInterfaceOnce)
<1>1. Init => InterfaceHeld
  BY DEF Init, InterfaceHeld
<1>2. IInv /\ InterfaceHeld => (~failed => ClosesInterfaceOnce)
  BY StateAndCalls DEF InterfaceHeld, ClosesInterfaceOnce
<1> QED BY <1>1, <1>2, InterfaceHeldStep, Invariance, PTL DEF Spec

\* The gap is all that loses data silently: when the decoder passes the data of a binary
\* file, a session that ends without an error wrote all of it, unless the debugger
\* switched the erase mode meanwhile.
BinaryImageWritten == Contiguous /\ "toggled" \notin losses => ImageWritten

THEOREM BinaryImagesWritten == Spec => []BinaryImageWritten
<1>1. Init => ContiguousData
  BY DEF Init, ContiguousData
<1>2. IInv /\ ContiguousData /\ [Next]_vars => ContiguousData'
  BY ContiguousDataStep DEF ContiguousData
<1>3. IInv /\ ContiguousData => BinaryImageWritten
  <2> SUFFICES ASSUME IInv, ContiguousData, Contiguous, "toggled" \notin losses
               PROVE  ImageWritten
    BY DEF BinaryImageWritten
  <2>1. losses = {}
    BY DEF ContiguousData
  <2> QED BY <2>1 DEF IInv, ImageWrittenUnlessLost
<1> QED BY <1>1, <1>2, <1>3, Invariance, PTL DEF Spec
=============================================================================
