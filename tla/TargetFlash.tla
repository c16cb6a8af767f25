---------------------------- MODULE TargetFlash ----------------------------
(***************************************************************************)
(* target_flash.c: the flash interface that programs the target over SWD   *)
(* with an algorithm it downloads to the target's RAM, and those who use   *)
(* it or the target side by side: the drag-n-drop session (flash manager), *)
(* the erases of file_data_handler and of ERASE.ACT, the reset button, the *)
(* break signal of the serial port, the vendor command that resets.  Each  *)
(* handler runs to its end in the main task; between two handlers any      *)
(* other one may run.  Any operation on the target may fail.               *)
(***************************************************************************)
EXTENDS Integers

CONSTANTS
  NumRegions,     \* flash regions of the target; an image has one block in each
  \* Properties of the algorithms.  The algorithm of a region, which no other region
  \* uses, has the region's number.
  SingleInit,     \* kAlgoSingleInitType
  SkipChipErase,  \* kAlgoSkipChipErase
  Verifies,       \* a verify function of its own
  EraseReset,     \* the board's erase_reset, a set of choices
  SmallBuffer     \* a program buffer smaller than the flash manager's blocks

Regions == 1 .. NumRegions
NoAlgo == 0

ASSUME TargetAssumption ==
  /\ NumRegions \in Nat \ {0}
  /\ SingleInit \cup SkipChipErase \cup Verifies \cup SmallBuffer \subseteq Regions
  /\ EraseReset \subseteq BOOLEAN

VARIABLES
  m,          \* the machine: the variables of target_flash.c, and the target
  session,    \* the drag-n-drop session
  config,     \* settings and the board
  reset       \* who is about to reset the target

vars == <<m, session, config, reset>>

Funcs == {"nop", "erase", "program", "verify"}

MachineType ==
  [busy : BOOLEAN,                                       \* state is STATE_OPEN
   last_flash_func : Funcs, current_flash_algo : Regions \cup {NoAlgo},
   \* the target: SWD pins driven, the core, the algorithm in RAM (NoAlgo: none, or
   \* a part of one), the function it is initialised for, and the flash
   swd : BOOLEAN, core : {"running", "halted", "held"},
   ram : Regions \cup {NoAlgo}, inited : Funcs \cup {"any"},
   flash : [Regions -> {"blank", "half", "new", "other"}],
   \* history: functions called, and what the algorithm was initialised for instead;
   \* the last call that was to close the interface failed to
   wrong : SUBSET (Funcs \X (Funcs \cup {"any"})), unclosed : BOOLEAN]

(***************************************************************************)
(* A call maps a machine to the set of its outcomes                        *)
(***************************************************************************)
Ok(n) == [m |-> n, ok |-> TRUE]
Fail(n) == [m |-> n, ok |-> FALSE]
\* F after rs if that succeeded, or whatever became of it
Then(rs, F(_)) == UNION {IF r.ok THEN F(r.m) ELSE {r} : r \in rs}
Anyway(rs, F(_)) == UNION {F(r.m) : r \in rs}

\* The target answers: the pins are driven and the core is stopped.
Answers(n) == n.swd /\ n.core = "halted"

\* a function of current_flash_algo runs
Called(n, func) ==
  IF n.ram = n.current_flash_algo /\ (func = "nop" \/ n.inited \in {func, "any"}) THEN n
  ELSE [n EXCEPT !.wrong = @ \cup {<<func, n.inited>>}]

\* swd_flash_syscall_exec, with the outcomes of the function; one that does not stop in
\* time fails and leaves the core running
RunsOn(n) == [n EXCEPT !.core = "running"]
SyscallExec(n, outcomes) ==
  {Fail(n)} \cup IF Answers(n) THEN outcomes \cup {Fail(RunsOn(o.m)) : o \in outcomes}
                 ELSE {}

\* target_set_state
ResetRun(n) ==
  [n EXCEPT !.swd = FALSE, !.core = "running", !.ram = NoAlgo, !.inited = "nop"]
ResetHold(n) == [n EXCEPT !.swd = TRUE, !.core = "held", !.inited = "nop"]
ResetProgram(n) ==
  LET stopped == [n EXCEPT !.swd = TRUE, !.core = "halted", !.inited = "nop"]
  IN {Ok(stopped), Fail(stopped), Fail([ResetRun(n) EXCEPT !.swd = TRUE])}

(***************************************************************************)
(* flash_func_start and flash_algo_set                                     *)
(***************************************************************************)
Single(n) == n.current_flash_algo \in SingleInit

FinishFunc(n, func) ==
  IF n.last_flash_func # "nop" /\ (~Single(n) \/ func = "nop")
  THEN LET x == Called(n, "nop") IN SyscallExec(n, {Ok([x EXCEPT !.inited = "nop"]), Fail(x)})
  ELSE {Ok(n)}

StartFunc(n, func) ==
  IF func # "nop" /\ (~Single(n) \/ n.last_flash_func = "nop")
  THEN LET x == Called(n, "nop")
       IN SyscallExec(n, {Ok([x EXCEPT !.inited = IF Single(x) THEN "any" ELSE func]), Fail(x)})
  ELSE {Ok(n)}

FlashFuncStart(n, func) ==
  IF n.last_flash_func = func THEN {Ok(n)}
  ELSE Then(Then(FinishFunc(n, func), LAMBDA x : StartFunc(x, func)),
            LAMBDA x : {Ok([x EXCEPT !.last_flash_func = func])})

\* target_flash_set; a failed download leaves a part of the algorithm
Download(n, r) ==
  {Fail(n), Fail([n EXCEPT !.ram = NoAlgo, !.inited = "nop"])}
    \cup IF n.swd THEN {Ok([n EXCEPT !.ram = r, !.inited = "nop", !.current_flash_algo = r])}
         ELSE {}

FlashSetKept(n, r) ==   \* fault: the algorithm that is there is kept
  IF n.current_flash_algo # NoAlgo THEN {Ok([n EXCEPT !.current_flash_algo = r])}
  ELSE Download(n, r)
FlashSet(n, r) ==
  IF n.current_flash_algo = r THEN {Ok(n)}
  ELSE Then(FlashFuncStart(n, "nop"), LAMBDA x : Download(x, r))

(***************************************************************************)
(* The flash interface                                                     *)
(***************************************************************************)
\* target_flash_init
FlashInit(n) ==
  Then(ResetProgram([n EXCEPT !.last_flash_func = "nop", !.current_flash_algo = NoAlgo]),
       LAMBDA x : {Ok([x EXCEPT !.busy = TRUE])})

\* target_flash_uninit: the target runs, or stays halted, and the pins are released
UninitForgotten(n) ==   \* fault: the state is not reset
  Then(FlashFuncStart(n, "nop"), LAMBDA x : {Ok([ResetRun(x) EXCEPT !.unclosed = FALSE])})
FlashUninit(n) ==
  Then({IF r.ok THEN r ELSE Fail([r.m EXCEPT !.unclosed = TRUE]) : r \in FlashFuncStart(n, "nop")},
       LAMBDA x : {Ok([y EXCEPT !.busy = FALSE, !.swd = FALSE, !.unclosed = FALSE]) :
                     y \in IF config.auto_rst THEN {ResetRun(x)}
                           ELSE {r.m : r \in ResetProgram(x)}})

\* What programming, a chunk of two or the whole block, makes of a block.
Programmed(old, first_of_two) ==
  IF old = "blank" /\ first_of_two THEN "half"
  ELSE IF old \in {"blank", "half"} THEN "new" ELSE "other"

\* target_flash_program_page for one chunk: it may fail, noticed or not
WriteChunk(n, r, first_of_two) ==
  LET Left(c) == [Called(n, "program") EXCEPT !.flash[r] = c]
  IN SyscallExec(n, {Ok(Left(Programmed(n.flash[r], first_of_two))),
                     Ok(Left("other")), Fail(Left("other"))})

ComparedBlindly(n, r) == {Ok(n), Fail(n)}   \* fault: what was read back is not looked at
Compared(n, r) == {Fail(n)} \cup IF n.flash[r] # "other" THEN {Ok(n)} ELSE {}

\* Only if automation is allowed; by the algorithm, or else by reading back.
VerifyChunk(n, r) ==
  IF ~config.automation_allowed THEN {Ok(n)}
  ELSE IF n.current_flash_algo \in Verifies
  THEN Then(FlashFuncStart(n, "verify"), LAMBDA x :
         SyscallExec(x, Compared(Called(x, "verify"), r)))
  ELSE Compared(n, r)

Chunk(n, r, first_of_two) ==
  Then({Ok(n), Fail(n)}, LAMBDA x :   \* writing the program buffer
    Then(WriteChunk(x, r, first_of_two), LAMBDA y : VerifyChunk(y, r)))

\* The function is started once, before the loop over the chunks.
ProgramPage(n, r) ==
  IF n.current_flash_algo = NoAlgo THEN {Fail(n)}
  ELSE Then({Ok(n), Fail(n)}, LAMBDA w :   \* security_bits_set refuses some images
       Then(FlashFuncStart(w, "program"), LAMBDA x :
         IF x.current_flash_algo \in SmallBuffer
         THEN Then(Chunk(x, r, TRUE), LAMBDA y : Chunk(y, r, FALSE))
         ELSE Chunk(x, r, FALSE)))

EraseSector(n, r) ==
  IF n.current_flash_algo = NoAlgo THEN {Fail(n)}
  ELSE Then(FlashFuncStart(n, "erase"), LAMBDA x :
         LET y == Called(x, "erase")
         IN SyscallExec(x, {Ok([y EXCEPT !.flash[r] = "blank"]),
                            Fail([y EXCEPT !.flash[r] = "other"])}))

EraseRegion(n, r) ==
  IF r \in SkipChipErase THEN {Ok(n)}
  ELSE Then(FlashSet(n, r), LAMBDA x : EraseSector(x, r))

\* target_flash_erase_chip: region by region; boards with erase_reset start anew
RegionsInOrderBehind == [r \in Regions |-> r + 1]   \* fault: off by one
RegionsInOrder == [r \in Regions |-> r]
RegionErased(rs, i) ==   \* region i, unless one before it failed
  Then(rs, LAMBDA x : EraseRegion(x, RegionsInOrder[i]))
RegionsErased(n) ==
  LET after[i \in 0 .. NumRegions] ==   \* what becomes of the first i regions
        IF i = 0 THEN {Ok(n)} ELSE RegionErased(after[i - 1], i)
  IN after[NumRegions]
EraseChip(n) ==
  Then(RegionsErased(n), LAMBDA x : IF config.erase_reset THEN FlashInit(x) ELSE {Ok(x)})

\* erase_target of vfs_user.c, and file_data_handler: results are ignored
EraseTarget(n) == Anyway(Anyway(FlashInit(n), EraseChip), FlashUninit)

(***************************************************************************)
(* The drag-n-drop session: what the flash manager calls, for a file that  *)
(* has data for some of the regions and may return to one                  *)
(***************************************************************************)
NoSession ==
  [at |-> "none", region |-> 0, verified |-> {}, erased |-> FALSE]

Init ==
  /\ m = [busy |-> FALSE, last_flash_func |-> "nop", current_flash_algo |-> NoAlgo,
          swd |-> FALSE, core |-> "running", ram |-> NoAlgo, inited |-> "nop",
          flash |-> [r \in Regions |-> "other"], wrong |-> {}, unclosed |-> FALSE]
  /\ session = NoSession
  /\ config \in [auto_rst : BOOLEAN, automation_allowed : BOOLEAN,
                 erase_reset : EraseReset, page_erase : BOOLEAN]
  /\ reset = [pressed |-> FALSE, flag |-> FALSE]

\* setup_next_sector, flash_manager_init: a failure closes the interface
ClosedIfFailed(rs) ==
  UNION {IF r.ok THEN {r} ELSE {Fail(u.m) : u \in FlashUninit(r.m)} : r \in rs}

SessionOpens ==
  /\ session.at = "none"
  /\ \E r \in Then(FlashInit(m), LAMBDA x :
                IF config.page_erase THEN {Ok(x)} ELSE ClosedIfFailed(EraseChip(x))) :
       /\ m' = r.m
       /\ session' = IF r.ok THEN [NoSession EXCEPT !.at = "open"] ELSE NoSession
  /\ UNCHANGED <<config, reset>>

\* The data goes on in another region, or in none that there is an algorithm for.
SessionEnters(r) ==
  /\ session.at = "open" /\ session.region = 0
  /\ \E q \in ClosedIfFailed(Then({Fail(m)} \cup FlashSet(m, r), LAMBDA x :
                IF config.page_erase THEN EraseSector(x, r) ELSE {Ok(x)})) :
       /\ m' = q.m
       /\ session' = IF q.ok THEN [session EXCEPT !.region = r, !.verified = @ \ {r}]
                     ELSE [NoSession EXCEPT !.at = "error"]
  /\ UNCHANGED <<config, reset>>

SessionPrograms ==
  /\ session.at = "open" /\ session.region # 0
  /\ \E q \in ProgramPage(m, session.region) :
       /\ m' = q.m
       /\ session' =
            IF ~q.ok THEN [NoSession EXCEPT !.at = "error"]
            ELSE [session EXCEPT
                    !.region = 0,
                    !.verified = @ \cup IF config.automation_allowed THEN {session.region} ELSE {}]
  /\ UNCHANGED <<config, reset>>

SessionCloses ==
  /\ session.at = "error" \/ (session.at = "open" /\ session.region = 0)
  /\ \E q \in FlashUninit(m) : m' = q.m
  /\ session' = NoSession
  /\ UNCHANGED <<config, reset>>

(***************************************************************************)
(* The others                                                              *)
(***************************************************************************)
\* ERASE.ACT at any time, or the stream that opens before the session
OthersErase ==
  /\ \E q \in EraseTarget(m) : m' = q.m
  /\ session' = [session EXCEPT !.erased = session.at = "open"]
  /\ UNCHANGED <<config, reset>>

\* handle_reset_button, every 30 ms: only the press asks whether the flash is busy
ButtonPressed ==
  /\ ~reset.pressed /\ ~m.busy
  /\ m' = ResetHold(m) /\ reset' = [reset EXCEPT !.pressed = TRUE]
  /\ UNCHANGED <<session, config>>
ButtonReleased ==
  /\ reset.pressed
  /\ m' = ResetRun(m) /\ reset' = [reset EXCEPT !.pressed = FALSE]
  /\ UNCHANGED <<session, config>>

\* USBD_CDC_ACM_SendBreak; the flag it sets at the end is served a turn later
BreakBegins == ~m.busy /\ m' = ResetHold(m) /\ UNCHANGED <<session, config, reset>>
BreakEnds ==
  /\ ~m.busy /\ reset' = [reset EXCEPT !.flag = TRUE]
  /\ UNCHANGED <<m, session, config>>
MainReset ==
  /\ reset.flag /\ m' = ResetRun(m) /\ reset' = [reset EXCEPT !.flag = FALSE]
  /\ UNCHANGED <<session, config>>

\* ID_DAP_ResetTargetIfNoAutoReset
VendorReset ==
  /\ ~config.auto_rst /\ m' = ResetRun(m)
  /\ UNCHANGED <<session, config, reset>>

\* AUTO_RST.CFG, HARD_RST.CFG, AUTO_ON.CFG, AUTO_OFF.CFG
ConfigChanges ==
  /\ \E setting \in {"auto_rst", "automation_allowed"} :
       config' = [config EXCEPT ![setting] = ~@]
  /\ UNCHANGED <<m, session, reset>>

Next ==
  \/ SessionOpens \/ (\E r \in Regions : SessionEnters(r))
  \/ SessionPrograms \/ SessionCloses
  \/ OthersErase \/ ButtonPressed \/ ButtonReleased
  \/ BreakBegins \/ BreakEnds \/ MainReset \/ VendorReset \/ ConfigChanges

Spec == Init /\ [][Next]_vars

(***************************************************************************)
(* Properties                                                              *)
(***************************************************************************)
\* The variables stay within the types of the C variables.
TypeOK ==
  /\ m \in MachineType
  /\ session.at \in {"none", "open", "error"} /\ session.region \in 0 .. NumRegions
  /\ session.verified \subseteq Regions /\ session.erased \in BOOLEAN

\* flash_func_start and target_flash_set: whoever reset the target or used the
\* interface in between, a function of an algorithm runs on the target only while
\* that algorithm is in its RAM and initialised for it.  (A debugger that works on the
\* target through CMSIS-DAP meanwhile is not modelled.)  The exception is
\* target_flash_program_page's second chunk, programmed after the algorithm was
\* initialised to verify the first one; it needs an algorithm that is initialised for
\* each function, verifies, and has a buffer smaller than a block.
SecondChunks ==
  IF SmallBuffer \cap Verifies \subseteq SingleInit THEN {} ELSE {<<"program", "verify">>}
AlgorithmReady == m.wrong \subseteq SecondChunks

\* A session that ends as a success left the image in the flash, in every block that
\* was verified, although the target may have been reset under it; only an erase by
\* somebody else during the session goes unnoticed.
SuccessIsWritten ==
  [][session.at = "open" /\ session'.at = "none" /\ ~m'.unclosed =>
       \/ session.erased
       \/ \A r \in session.verified : m.flash[r] = "new"]_vars

\* target_flash_busy, which the button and the break signal ask: it holds during a
\* session, unless somebody else closed the interface, and after one only if the
\* algorithm's UnInit failed when it was closed.
BusyTells ==
  /\ session.at = "open" /\ ~session.erased => m.busy
  /\ session.at = "none" /\ m.busy => m.unclosed
=============================================================================
