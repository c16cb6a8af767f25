---------------------------- MODULE TargetProofs ----------------------------
(***************************************************************************)
(* What TargetFlash promises, for any number of regions and any mix of     *)
(* algorithms.  A call is a set of outcomes: one lemma per call says what  *)
(* all of its outcomes leave, one per action that the action keeps IInv.   *)
(* Between two calls of an operation three things hold of the machine:     *)
(* Sound always, Started until a function could not be initialised, Loaded *)
(* until an algorithm could not be downloaded.  An operation that failed   *)
(* leaves a machine that is only Sound, and that is enough to close the    *)
(* interface or to open it anew.                                           *)
(***************************************************************************)
EXTENDS TargetFlash, WellFoundedInduction, TLAPS

(***************************************************************************)
(* The machine between two calls                                           *)
(***************************************************************************)
Outcome == [m : MachineType, ok : BOOLEAN]

\* While the target answers: a function that is noted as started has its algorithm in RAM,
Sound(n) ==
  /\ n.wrong \subseteq SecondChunks
  /\ Answers(n) /\ n.last_flash_func # "nop" => n.ram = n.current_flash_algo
\* that algorithm is initialised for the function,
Started(n) ==
  Answers(n) /\ n.last_flash_func # "nop" =>
    n.inited = IF Single(n) THEN "any" ELSE n.last_flash_func
\* and the current algorithm is in RAM, started or not.
Loaded(n) ==
  Answers(n) /\ n.current_flash_algo # NoAlgo => n.ram = n.current_flash_algo
Ready(n) == Sound(n) /\ Started(n) /\ Loaded(n)

\* What a call leaves alone: the state of the interface, all but the function that is
\* started, all blocks but r's.
SameBusy(n, x) == x.busy = n.busy /\ x.unclosed = n.unclosed
OnlyFunc(n, x) ==
  /\ SameBusy(n, x) /\ x.flash = n.flash /\ x.wrong = n.wrong
  /\ x.current_flash_algo = n.current_flash_algo
  /\ x.swd = n.swd /\ x.core \in {n.core, "running"} /\ x.ram = n.ram
\* What a function that has not stopped in time leaves: a target that no longer answers.
Lost(n, x) ==
  /\ x \in MachineType /\ x.core = "running"
  /\ OnlyFunc(n, x) /\ x.last_flash_func = n.last_flash_func
OnlyBlock(n, x, r) ==
  SameBusy(n, x) /\ \A s \in Regions \ {r} : x.flash[s] = n.flash[s]

\* while a chip is erased, and after a failure in it
Erasing(n) ==
  /\ n \in MachineType /\ Sound(n) /\ Started(n) /\ n.last_flash_func \in {"nop", "erase"}
ErasedFrom(n, rs) ==
  \A q \in rs : q \in Outcome /\ Erasing(q.m) /\ SameBusy(n, q.m) /\ (q.ok => Ready(q.m))

\* between the chunks of a block
Programming(n) ==
  /\ n \in MachineType /\ Ready(n) /\ n.current_flash_algo # NoAlgo
  /\ n.last_flash_func \in {"program", "verify"}
  /\ n.last_flash_func = "verify" => n.current_flash_algo \in Verifies

(***************************************************************************)
(* Calls                                                                   *)
(***************************************************************************)
\* what the two constructors of an outcome hold
LEMMA Results ==
  ASSUME NEW n
  PROVE  /\ Ok(n).ok /\ Ok(n).m = n
         /\ ~Fail(n).ok /\ Fail(n).m = n
         /\ n \in MachineType => Ok(n) \in Outcome /\ Fail(n) \in Outcome
  BY DEF Ok, Fail, Outcome

\* a function of an algorithm, and what a timeout makes of its outcomes
LEMMA SyscallOutcomes ==
  ASSUME NEW n, NEW outcomes, NEW q \in SyscallExec(n, outcomes)
  PROVE  \/ q = Fail(n)
         \/ Answers(n) /\ q \in outcomes
         \/ Answers(n) /\ \E o \in outcomes : q = Fail(RunsOn(o.m))
  BY DEF SyscallExec

\* a target that does not answer: nothing is said of its RAM
LEMMA LostTarget ==
  ASSUME NEW n \in MachineType, n.wrong \subseteq SecondChunks, NEW x, Lost(n, x)
  PROVE  ~Answers(x) /\ Sound(x) /\ Started(x) /\ Loaded(x) /\ SameBusy(n, x)
  BY DEF Lost, OnlyFunc, Answers, Sound, Started, Loaded

\* what a timeout leaves of a machine
LEMMA TimedOut ==
  ASSUME NEW p \in MachineType
  PROVE  /\ RunsOn(p) \in MachineType /\ RunsOn(p).core = "running"
         /\ ~Answers(RunsOn(p))
         /\ RunsOn(p).busy = p.busy /\ RunsOn(p).unclosed = p.unclosed
         /\ RunsOn(p).flash = p.flash /\ RunsOn(p).wrong = p.wrong
         /\ RunsOn(p).current_flash_algo = p.current_flash_algo
         /\ RunsOn(p).last_flash_func = p.last_flash_func
         /\ RunsOn(p).swd = p.swd /\ RunsOn(p).ram = p.ram
  BY DEF MachineType, RunsOn, Answers

\* UnInit runs on the algorithm it belongs to; if it fails, nothing has changed, or the
\* target is lost.
LEMMA FinishFuncOutcomes ==
  ASSUME NEW n \in MachineType, Sound(n), NEW func \in Funcs, NEW q \in FinishFunc(n, func)
  PROVE  /\ q \in Outcome
         /\ ~q.ok => (q.m = n \/ Lost(n, q.m)) /\ n.last_flash_func # "nop"
         /\ q.ok => \/ q.m = n /\ (n.last_flash_func # "nop" => Single(n) /\ func # "nop")
                    \/ q.m = [n EXCEPT !.inited = "nop"] /\ n.last_flash_func # "nop"
                       /\ (~Single(n) \/ func = "nop")
<1>1. CASE n.last_flash_func # "nop" /\ (~Single(n) \/ func = "nop")
  <2>1. Answers(n) => Called(n, "nop") = n
    BY <1>1 DEF Sound, Called
  <2> DEFINE x == Called(n, "nop")
             finished == [n EXCEPT !.inited = "nop"]
             outcomes == {Ok([x EXCEPT !.inited = "nop"]), Fail(x)}
  <2>2. q \in SyscallExec(n, outcomes)
    BY <1>1 DEF FinishFunc
  <2>3. Answers(n) => outcomes = {Ok(finished), Fail(n)}
    BY <2>1
  <2> HIDE DEF x, finished, outcomes
  <2>4. \/ q = Fail(n)
        \/ Answers(n) /\ q \in outcomes
        \/ Answers(n) /\ \E o \in outcomes : q = Fail(RunsOn(o.m))
    BY <2>2, SyscallOutcomes
  <2>5. q \in {Fail(n), Ok(finished), Fail(RunsOn(finished)), Fail(RunsOn(n))}
    BY <2>3, <2>4, Results
  <2>6. finished \in MachineType
    BY DEF finished, MachineType, Funcs
  <2>7. Lost(n, RunsOn(n)) /\ Lost(n, RunsOn(finished))
    BY DEF finished, RunsOn, Lost, OnlyFunc, SameBusy, MachineType, Funcs
  <2>8. RunsOn(n) \in MachineType /\ RunsOn(finished) \in MachineType
    BY <2>7 DEF Lost
  <2>9. /\ q \in Outcome /\ (~q.ok => q.m = n \/ Lost(n, q.m))
        /\ q.ok => q.m = finished
    BY <2>5, <2>6, <2>7, <2>8, Results, Zenon
  <2> QED BY <1>1, <2>9 DEF finished
<1>2. CASE ~(n.last_flash_func # "nop" /\ (~Single(n) \/ func = "nop"))
  BY <1>2, Results DEF FinishFunc
<1> QED BY <1>1, <1>2

\* Init of an algorithm that is in RAM
LEMMA StartFuncOutcomes ==
  ASSUME NEW n \in MachineType, NEW func \in Funcs, NEW q \in StartFunc(n, func),
         Answers(n) => n.ram = n.current_flash_algo
  PROVE  /\ q \in Outcome
         /\ ~q.ok => q.m = n \/ Lost(n, q.m)
         /\ q.ok => \/ q.m = n /\ (func # "nop" => Single(n) /\ n.last_flash_func # "nop")
                    \/ q.m = [n EXCEPT !.inited = IF Single(n) THEN "any" ELSE func]
                       /\ func # "nop"
<1>1. CASE func # "nop" /\ (~Single(n) \/ n.last_flash_func = "nop")
  <2> DEFINE started == [n EXCEPT !.inited = IF Single(n) THEN "any" ELSE func]
  <2>1. Answers(n) => Called(n, "nop") = n
    BY DEF Called
  <2>2. q \in {Fail(n), Ok(started), Fail(RunsOn(started)), Fail(RunsOn(n))}
    <3> DEFINE x == Called(n, "nop")
               outcomes == {Ok([x EXCEPT !.inited = IF Single(x) THEN "any" ELSE func]), Fail(x)}
    <3>1. q \in SyscallExec(n, outcomes)
      BY <1>1 DEF StartFunc
    <3>2. Answers(n) => outcomes = {Ok(started), Fail(n)}
      BY <2>1
    <3> HIDE DEF x, outcomes, started
    <3>3. \/ q = Fail(n)
          \/ Answers(n) /\ q \in outcomes
          \/ Answers(n) /\ \E o \in outcomes : q = Fail(RunsOn(o.m))
      BY <3>1, SyscallOutcomes
    <3> QED BY <3>2, <3>3, Results
  <2>3. started \in MachineType
    BY DEF MachineType
  <2>4. Lost(n, RunsOn(n)) /\ Lost(n, RunsOn(started))
    <3>1. OnlyFunc(n, started) /\ started.last_flash_func = n.last_flash_func
      BY DEF OnlyFunc, SameBusy, MachineType
    <3> HIDE DEF started
    <3> QED BY <2>3, <3>1, TimedOut DEF Lost, OnlyFunc, SameBusy
  <2>5. RunsOn(n) \in MachineType /\ RunsOn(started) \in MachineType
    BY <2>4 DEF Lost
  <2> HIDE DEF started
  <2>6. q \in Outcome /\ (~q.ok => q.m = n \/ Lost(n, q.m)) /\ (q.ok => q.m = started)
    BY <2>2, <2>3, <2>4, <2>5, Results, Zenon
  <2> QED BY <1>1, <2>6 DEF started
<1>2. CASE ~(func # "nop" /\ (~Single(n) \/ n.last_flash_func = "nop"))
  BY <1>2, Results DEF StartFunc
<1> QED BY <1>1, <1>2

\* flash_func_start(FLASH_FUNC_NOP), from any sound machine
LEMMA FuncStops ==
  ASSUME NEW n \in MachineType, Sound(n), NEW q \in FlashFuncStart(n, "nop")
  PROVE  /\ q \in Outcome
         /\ ~q.ok => (q.m = n \/ Lost(n, q.m)) /\ n.last_flash_func # "nop"
         /\ q.ok => q.m.last_flash_func = "nop" /\ OnlyFunc(n, q.m)
<1>1. CASE n.last_flash_func = "nop"
  <2>1. q = Ok(n)
    BY <1>1 DEF FlashFuncStart
  <2>2. OnlyFunc(n, n)
    BY DEF OnlyFunc, SameBusy
  <2> QED BY <1>1, <2>1, <2>2, Results, Zenon
<1>2. CASE n.last_flash_func # "nop"
  <2>1. PICK r \in FinishFunc(n, "nop") :
          IF r.ok THEN q = Ok([r.m EXCEPT !.last_flash_func = "nop"]) ELSE q = r
    <3>1. PICK s \in Then(FinishFunc(n, "nop"), LAMBDA x : StartFunc(x, "nop")) :
            IF s.ok THEN q = Ok([s.m EXCEPT !.last_flash_func = "nop"]) ELSE q = s
      BY <1>2, Zenon DEF FlashFuncStart, Then
    <3>2. PICK r \in FinishFunc(n, "nop") : s \in IF r.ok THEN StartFunc(r.m, "nop") ELSE {r}
      BY <3>1, Zenon DEF Then
    <3>3. r.ok => s = Ok(r.m)
      BY <3>2 DEF StartFunc
    <3> QED BY <3>1, <3>2, <3>3, Results
  <2>2. /\ r \in Outcome
        /\ ~r.ok => r.m = n \/ Lost(n, r.m)
        /\ r.ok => r.m = n \/ r.m = [n EXCEPT !.inited = "nop"]
    BY FinishFuncOutcomes DEF Funcs
  <2>3. CASE ~r.ok
    BY <1>2, <2>1, <2>2, <2>3
  <2>4. CASE r.ok
    <3>1. q = Ok([r.m EXCEPT !.last_flash_func = "nop"])
      BY <2>1, <2>4
    <3>2. [r.m EXCEPT !.last_flash_func = "nop"] \in MachineType
      BY <2>2 DEF Outcome, MachineType, Funcs
    <3>3. OnlyFunc(n, [r.m EXCEPT !.last_flash_func = "nop"])
      BY <2>2, <2>4 DEF OnlyFunc, SameBusy, MachineType
    <3>4. [r.m EXCEPT !.last_flash_func = "nop"].last_flash_func = "nop"
      BY <2>2 DEF Outcome, MachineType
    <3> QED BY <3>1, <3>2, <3>3, <3>4, Results, Zenon
  <2> QED BY <2>3, <2>4
<1> QED BY <1>1, <1>2

\* flash_func_start of a function: when it fails the function noted as started is the one
\* before, which the algorithm may no longer be initialised for.
LEMMA FuncStarts ==
  ASSUME NEW n \in MachineType, Ready(n), n.current_flash_algo # NoAlgo,
         NEW func \in Funcs \ {"nop"}, NEW q \in FlashFuncStart(n, func)
  PROVE  /\ q \in Outcome /\ OnlyFunc(n, q.m) /\ Sound(q.m)
         /\ ~q.ok => q.m.last_flash_func = n.last_flash_func
         /\ q.ok => q.m.last_flash_func = func /\ Started(q.m)
<1>0. /\ func \in Funcs /\ func # "nop"
      /\ Answers(n) => n.ram = n.current_flash_algo
      /\ OnlyFunc(n, n)
  BY DEF Ready, Loaded, OnlyFunc, SameBusy
<1>1. CASE n.last_flash_func = func
  <2>1. q = Ok(n)
    BY <1>1 DEF FlashFuncStart
  <2>2. q.ok /\ q.m = n /\ q \in Outcome
    BY <2>1, Results, Zenon
  <2> QED BY <1>0, <1>1, <2>2 DEF Ready
<1>2. CASE n.last_flash_func # func
  <2>1. PICK s \in Then(FinishFunc(n, func), LAMBDA x : StartFunc(x, func)) :
          IF s.ok THEN q = Ok([s.m EXCEPT !.last_flash_func = func]) ELSE q = s
    BY <1>2, Zenon DEF FlashFuncStart, Then
  <2>2. PICK r \in FinishFunc(n, func) : s \in IF r.ok THEN StartFunc(r.m, func) ELSE {r}
    BY <2>1, Zenon DEF Then
  <2>3. /\ r \in Outcome
        /\ ~r.ok => r.m = n \/ Lost(n, r.m)
        /\ r.ok => \/ r.m = n /\ (n.last_flash_func # "nop" => Single(n))
                   \/ r.m = [n EXCEPT !.inited = "nop"] /\ n.last_flash_func # "nop" /\ ~Single(n)
    BY <1>0, FinishFuncOutcomes DEF Ready
  <2>4. CASE ~r.ok
    <3>1. q = r
      BY <2>1, <2>2, <2>4
    <3>2. CASE r.m = n
      BY <1>0, <2>3, <2>4, <3>1, <3>2 DEF Ready
    <3>3. CASE Lost(n, r.m)
      <4>1. OnlyFunc(n, r.m) /\ r.m.last_flash_func = n.last_flash_func
        BY <3>3 DEF Lost
      <4>2. Sound(r.m)
        BY <3>3, LostTarget DEF Ready, Sound
      <4> QED BY <2>3, <2>4, <3>1, <4>1, <4>2
    <3> QED BY <2>3, <2>4, <3>2, <3>3
  <2>5. CASE r.ok
    <3>1. r.m \in MachineType /\ OnlyFunc(n, r.m) /\ r.m.last_flash_func = n.last_flash_func
      BY <2>3, <2>5, <1>0 DEF Outcome, MachineType, OnlyFunc, SameBusy, Funcs
    <3>2. (Answers(r.m) => r.m.ram = r.m.current_flash_algo) /\ Sound(r.m)
          /\ (Single(r.m) <=> Single(n))
      BY <2>3, <2>5, <1>0 DEF Sound, Answers, Single, MachineType, Ready
    <3>3. s \in StartFunc(r.m, func)
      BY <2>2, <2>5
    <3>4. /\ s \in Outcome
          /\ ~s.ok => s.m = r.m \/ Lost(r.m, s.m)
          /\ s.ok => \/ s.m = r.m /\ Single(r.m) /\ r.m.last_flash_func # "nop"
                     \/ s.m = [r.m EXCEPT !.inited = IF Single(r.m) THEN "any" ELSE func]
      BY <1>0, <3>1, <3>2, <3>3, StartFuncOutcomes
    <3>5. CASE ~s.ok
      <4>1. q = s /\ ~q.ok
        BY <2>1, <3>5
      <4>2. CASE s.m = r.m
        BY <3>1, <3>2, <3>4, <4>1, <4>2
      <4>3. CASE Lost(r.m, s.m)
        <5>1. OnlyFunc(n, s.m) /\ s.m.last_flash_func = n.last_flash_func
          BY <3>1, <4>3 DEF Lost, OnlyFunc, SameBusy
        <5>2. Sound(s.m)
          BY <3>1, <3>2, <4>3, LostTarget DEF Sound
        <5> QED BY <3>4, <4>1, <5>1, <5>2
      <4> QED BY <3>4, <3>5, <4>2, <4>3
    <3>6. CASE s.ok
      <4> DEFINE x == [s.m EXCEPT !.last_flash_func = func]
      <4>1. q = Ok(x)
        BY <2>1, <3>6
      <4>2. x \in MachineType
        BY <3>4, <1>0 DEF Outcome, MachineType
      <4>3. OnlyFunc(n, x) /\ x.last_flash_func = func
        BY <3>1, <3>4, <3>6 DEF OnlyFunc, SameBusy, MachineType
      <4>4. Sound(x)
        BY <1>0, <3>1, <3>2, <3>4, <3>6 DEF Sound, Answers, MachineType
      <4>5. Started(x)
        <5>1. CASE s.m = [r.m EXCEPT !.inited = IF Single(r.m) THEN "any" ELSE func]
          <6>1. x.inited = IF Single(r.m) THEN "any" ELSE func
            BY <3>1, <5>1 DEF MachineType
          <6>2. Single(x) <=> Single(r.m)
            BY <3>1, <5>1 DEF MachineType, Single
          <6> QED BY <4>3, <6>1, <6>2 DEF Started
        <5>2. CASE s.m = r.m /\ Single(r.m) /\ r.m.last_flash_func # "nop"
          <6>1. r.m = n
            BY <2>3, <2>5, <3>1, <3>2, <5>2
          <6>2. Answers(n) => n.inited = "any"
            BY <5>2, <6>1 DEF Ready, Started
          <6> QED BY <1>0, <5>2, <6>1, <6>2 DEF Started, Answers, MachineType, Single
        <5> QED BY <3>4, <3>6, <5>1, <5>2
      <4> HIDE DEF x
      <4> QED BY <4>1, <4>2, <4>3, <4>4, <4>5, Results, Zenon
    <3> QED BY <3>5, <3>6
  <2> QED BY <2>4, <2>5
<1> QED BY <1>1, <1>2

\* A download that fails may leave less than an algorithm.
LEMMA DownloadOutcomes ==
  ASSUME NEW n \in MachineType, NEW r \in Regions, Sound(n), n.last_flash_func = "nop",
         NEW q \in Download(n, r)
  PROVE  /\ q \in Outcome /\ Sound(q.m) /\ SameBusy(n, q.m) /\ q.m.flash = n.flash
         /\ q.m.last_flash_func = "nop"
         /\ q.ok => q.m.current_flash_algo = r /\ Loaded(q.m)
<1> DEFINE lost == [n EXCEPT !.ram = NoAlgo, !.inited = "nop"]
           there == [n EXCEPT !.ram = r, !.inited = "nop", !.current_flash_algo = r]
<1>1. q = Fail(n) \/ q = Fail(lost) \/ q = Ok(there)
  BY DEF Download
<1>2. /\ lost \in MachineType /\ Sound(lost) /\ SameBusy(n, lost)
      /\ lost.flash = n.flash /\ lost.last_flash_func = "nop"
  BY DEF MachineType, Sound, SameBusy, Funcs
<1>3. /\ there \in MachineType /\ Sound(there) /\ SameBusy(n, there)
      /\ there.flash = n.flash /\ there.last_flash_func = "nop"
      /\ there.current_flash_algo = r /\ Loaded(there)
  BY DEF MachineType, Sound, SameBusy, Funcs, Loaded
<1>4. SameBusy(n, n)
  BY DEF SameBusy
<1> HIDE DEF lost, there
<1> QED BY <1>1, <1>2, <1>3, <1>4, Results, Zenon

\* target_flash_set
LEMMA FlashSetOutcomes ==
  ASSUME NEW n \in MachineType, Ready(n), NEW r \in Regions, NEW q \in FlashSet(n, r)
  PROVE  /\ q \in Outcome /\ Sound(q.m) /\ Started(q.m)
         /\ SameBusy(n, q.m) /\ q.m.flash = n.flash
         /\ q.m.last_flash_func \in {n.last_flash_func, "nop"}
         /\ q.ok => q.m.current_flash_algo = r /\ Ready(q.m)
<1>0. Sound(n) /\ Started(n) /\ Loaded(n) /\ SameBusy(n, n)
  BY DEF Ready, SameBusy
<1>1. CASE n.current_flash_algo = r
  <2>1. q = Ok(n)
    BY <1>1 DEF FlashSet
  <2>2. q.ok /\ q.m = n /\ q \in Outcome
    BY <2>1, Results, Zenon
  <2> QED BY <1>0, <1>1, <2>2
<1>2. CASE n.current_flash_algo # r
  <2>1. PICK s \in FlashFuncStart(n, "nop") : q \in IF s.ok THEN Download(s.m, r) ELSE {s}
    BY <1>2, Zenon DEF FlashSet, Then
  <2>2. /\ s \in Outcome
        /\ ~s.ok => s.m = n \/ Lost(n, s.m)
        /\ s.ok => s.m.last_flash_func = "nop" /\ OnlyFunc(n, s.m)
    BY <1>0, FuncStops
  <2>3. CASE ~s.ok
    <3>1. q = s
      BY <2>1, <2>3
    <3>2. CASE s.m = n
      BY <1>0, <2>2, <2>3, <3>1, <3>2
    <3>3. CASE Lost(n, s.m)
      <4>1. Sound(s.m) /\ Started(s.m) /\ SameBusy(n, s.m)
        BY <1>0, <3>3, LostTarget DEF Sound
      <4>2. s.m.flash = n.flash /\ s.m.last_flash_func = n.last_flash_func
        BY <3>3 DEF Lost, OnlyFunc
      <4> QED BY <2>2, <2>3, <3>1, <4>1, <4>2
    <3> QED BY <2>2, <2>3, <3>2, <3>3
  <2>4. CASE s.ok
    <3>1. q \in Download(s.m, r)
      BY <2>1, <2>4
    <3>2. s.m \in MachineType /\ Sound(s.m) /\ s.m.last_flash_func = "nop"
      BY <1>0, <2>2, <2>4 DEF Outcome, Sound, OnlyFunc
    <3>3. SameBusy(n, s.m) /\ s.m.flash = n.flash
      BY <2>2, <2>4 DEF OnlyFunc
    <3>4. /\ q \in Outcome /\ Sound(q.m) /\ SameBusy(s.m, q.m) /\ q.m.flash = s.m.flash
          /\ q.m.last_flash_func = "nop"
          /\ q.ok => q.m.current_flash_algo = r /\ Loaded(q.m)
      BY <3>1, <3>2, DownloadOutcomes
    <3>5. Started(q.m)
      BY <3>4 DEF Started
    <3> QED BY <3>3, <3>4, <3>5 DEF SameBusy, Ready
  <2> QED BY <2>3, <2>4
<1> QED BY <1>1, <1>2

\* target_flash_init makes a fresh start from any sound machine.
LEMMA FlashInitOutcomes ==
  ASSUME NEW n \in MachineType, Sound(n), NEW q \in FlashInit(n)
  PROVE  /\ q \in Outcome /\ Ready(q.m) /\ q.m.last_flash_func = "nop"
         /\ q.m.unclosed = n.unclosed /\ q.m.flash = n.flash
         /\ q.ok => q.m.busy
         /\ ~q.ok => q.m.busy = n.busy
<1> DEFINE n0 == [n EXCEPT !.last_flash_func = "nop", !.current_flash_algo = NoAlgo]
<1>1. PICK r \in ResetProgram(n0) : q \in IF r.ok THEN {Ok([r.m EXCEPT !.busy = TRUE])} ELSE {r}
  BY Zenon DEF FlashInit, Then
<1>2. n0 \in MachineType /\ n0.wrong = n.wrong
  BY DEF MachineType, Funcs
<1> DEFINE stopped == [n0 EXCEPT !.swd = TRUE, !.core = "halted", !.inited = "nop"]
           running == [ResetRun(n0) EXCEPT !.swd = TRUE]
<1>3. r = Ok(stopped) \/ r = Fail(stopped) \/ r = Fail(running)
  BY <1>1 DEF ResetProgram
<1>4. /\ stopped \in MachineType /\ running \in MachineType
      /\ [stopped EXCEPT !.busy = TRUE] \in MachineType
  BY DEF MachineType, ResetRun, Funcs
<1> DEFINE Fresh(x) == /\ x.last_flash_func = "nop" /\ x.current_flash_algo = NoAlgo
                       /\ x.wrong = n.wrong
                       /\ x.unclosed = n.unclosed /\ x.flash = n.flash
<1>5. Fresh(stopped) /\ Fresh(running) /\ stopped.busy = n.busy /\ running.busy = n.busy
  BY DEF MachineType, ResetRun
<1>6. Fresh([stopped EXCEPT !.busy = TRUE]) /\ [stopped EXCEPT !.busy = TRUE].busy
  BY DEF MachineType
<1>7. ASSUME NEW x, Fresh(x)
      PROVE  Ready(x)
  BY <1>7 DEF Ready, Sound, Started, Loaded
<1> HIDE DEF stopped, running, Fresh
<1>8. /\ r \in Outcome /\ Fresh(r.m) /\ r.m.busy = n.busy
      /\ r.ok => r.m = stopped
  BY <1>3, <1>4, <1>5, Results, Zenon
<1>9. CASE ~r.ok
  <2>1. q = r
    BY <1>1, <1>9
  <2>2. Ready(q.m) /\ q \in Outcome
    BY <1>7, <1>8, <2>1
  <2> QED BY <1>8, <1>9, <2>1, <2>2, Zenon DEF Fresh
<1>10. CASE r.ok
  <2>1. q = Ok([stopped EXCEPT !.busy = TRUE])
    BY <1>1, <1>8, <1>10
  <2>2. q.ok /\ q \in Outcome /\ Fresh(q.m) /\ q.m.busy
    BY <1>4, <1>6, <2>1, Results, Zenon
  <2>3. Ready(q.m)
    BY <1>7, <2>2
  <2> QED BY <2>2, <2>3, Zenon DEF Fresh
<1> QED BY <1>9, <1>10

\* target_flash_uninit: the interface is free again, or the caller was told
LEMMA FlashUninitOutcomes ==
  ASSUME NEW n \in MachineType, Sound(n), NEW q \in FlashUninit(n)
  PROVE  /\ q \in Outcome /\ Sound(q.m)
         /\ ~q.m.busy \/ q.m.unclosed
         /\ Started(n) => Ready(q.m)
<1> DEFINE Tried(r) == IF r.ok THEN r ELSE Fail([r.m EXCEPT !.unclosed = TRUE])
           Closed(y) == [y EXCEPT !.busy = FALSE, !.swd = FALSE, !.unclosed = FALSE]
           Left(x) == IF config.auto_rst THEN {ResetRun(x)} ELSE {r.m : r \in ResetProgram(x)}
<1>1. PICK r \in FlashFuncStart(n, "nop") :
        q \in IF Tried(r).ok THEN {Ok(Closed(y)) : y \in Left(Tried(r).m)} ELSE {Tried(r)}
  BY Zenon DEF FlashUninit, Then
<1>2. /\ r \in Outcome
      /\ ~r.ok => (r.m = n \/ Lost(n, r.m)) /\ n.last_flash_func # "nop"
      /\ r.ok => r.m.last_flash_func = "nop" /\ OnlyFunc(n, r.m)
  BY FuncStops
<1>3. CASE ~r.ok
  <2> DEFINE x == [r.m EXCEPT !.unclosed = TRUE]
  <2>1. q = Fail(x)
    BY <1>1, <1>3, Results
  <2>2. /\ x \in MachineType /\ x.unclosed /\ x.wrong = r.m.wrong
        /\ x.swd = r.m.swd /\ x.core = r.m.core /\ x.ram = r.m.ram /\ x.inited = r.m.inited
        /\ x.current_flash_algo = r.m.current_flash_algo
        /\ x.last_flash_func = r.m.last_flash_func
    BY <1>2 DEF Outcome, MachineType
  <2> HIDE DEF x
  <2>3. (Answers(x) <=> Answers(r.m)) /\ (Single(x) <=> Single(r.m))
    BY <2>2 DEF Answers, Single
  <2>4. ASSUME r.m = n
        PROVE  Sound(x) /\ (Started(n) => Ready(x))
    BY <1>2, <1>3, <2>2, <2>3, <2>4 DEF Ready, Started, Loaded, Sound
  <2>5. ASSUME Lost(n, r.m)
        PROVE  Sound(x) /\ Ready(x)
    <3>1. ~Answers(x) /\ x.wrong = n.wrong
      BY <2>2, <2>3, <2>5, LostTarget DEF Lost, OnlyFunc, Sound
    <3> QED BY <3>1 DEF Ready, Sound, Started, Loaded
  <2>6. Sound(x) /\ (Started(n) => Ready(x))
    BY <1>2, <1>3, <2>4, <2>5
  <2> QED BY <2>1, <2>2, <2>6, Results, Zenon
<1>4. CASE r.ok
  <2>1. PICK y \in Left(r.m) : q = Ok(Closed(y))
    BY <1>1, <1>4
  <2>2. r.m \in MachineType /\ r.m.wrong = n.wrong
    BY <1>2, <1>4 DEF Outcome, OnlyFunc
  <2>3. y \in MachineType /\ y.wrong = n.wrong
    <3> DEFINE stopped == [r.m EXCEPT !.swd = TRUE, !.core = "halted", !.inited = "nop"]
               running == [ResetRun(r.m) EXCEPT !.swd = TRUE]
    <3>1. y \in {ResetRun(r.m), stopped, running}
      BY <2>1, Results DEF ResetProgram
    <3>2. ResetRun(r.m) \in MachineType /\ ResetRun(r.m).wrong = r.m.wrong
      BY <2>2 DEF MachineType, ResetRun, Funcs
    <3>3. stopped \in MachineType /\ stopped.wrong = r.m.wrong
      BY <2>2 DEF MachineType, Funcs
    <3>4. running \in MachineType /\ running.wrong = r.m.wrong
      BY <3>2 DEF MachineType
    <3> HIDE DEF stopped, running
    <3> QED BY <2>2, <3>1, <3>2, <3>3, <3>4
  <2>4. /\ Closed(y) \in MachineType /\ Closed(y).wrong = n.wrong
        /\ ~Closed(y).busy /\ ~Closed(y).swd
    BY <2>3 DEF MachineType
  <2>5. Ready(Closed(y)) /\ Sound(Closed(y))
    BY <2>4 DEF Ready, Sound, Started, Loaded, Answers
  <2> HIDE DEF Closed
  <2> QED BY <2>1, <2>4, <2>5, Results, Zenon
<1> QED BY <1>3, <1>4

\* target_flash_erase_sector
LEMMA EraseSectorOutcomes ==
  ASSUME NEW n \in MachineType, Ready(n), NEW r \in Regions, NEW q \in EraseSector(n, r)
  PROVE  /\ q \in Outcome /\ Sound(q.m) /\ SameBusy(n, q.m)
         /\ \A s \in Regions \ {r} : q.m.flash[s] = n.flash[s]
         /\ q.ok => Ready(q.m)
         /\ q.m.last_flash_func \in {n.last_flash_func, "erase"}
         /\ n.last_flash_func \in {"nop", "erase"} => Started(q.m)
<1>0. Sound(n) /\ Started(n) /\ Loaded(n) /\ SameBusy(n, n)
  BY DEF Ready, SameBusy
<1>1. CASE n.current_flash_algo = NoAlgo
  <2>1. q = Fail(n)
    BY <1>1 DEF EraseSector
  <2>2. ~q.ok /\ q.m = n /\ q \in Outcome
    BY <2>1, Results, Zenon
  <2> QED BY <1>0, <2>2
<1>2. CASE n.current_flash_algo # NoAlgo
  <2> DEFINE Erased(x) ==
               SyscallExec(x, {Ok([Called(x, "erase") EXCEPT !.flash[r] = "blank"]),
                               Fail([Called(x, "erase") EXCEPT !.flash[r] = "other"])})
  <2>1. PICK s \in FlashFuncStart(n, "erase") : q \in IF s.ok THEN Erased(s.m) ELSE {s}
    BY <1>2, Zenon DEF EraseSector, Then
  <2>2. /\ s \in Outcome /\ OnlyFunc(n, s.m) /\ Sound(s.m)
        /\ ~s.ok => s.m.last_flash_func = n.last_flash_func
        /\ s.ok => s.m.last_flash_func = "erase" /\ Started(s.m)
    <3>1. "erase" \in Funcs \ {"nop"}
      BY DEF Funcs
    <3> QED BY <1>2, <3>1, FuncStarts
  <2>3. s.m \in MachineType /\ SameBusy(n, s.m) /\ s.m.flash = n.flash /\ Loaded(s.m)
    BY <1>0, <2>2 DEF Outcome, OnlyFunc, Loaded, Answers
  <2>4. CASE ~s.ok
    <3>1. q = s
      BY <2>1, <2>4
    <3>2. n.last_flash_func = "nop" => Started(s.m)
      BY <2>2, <2>4 DEF Started
    <3>3. n.last_flash_func = "erase" => s.ok
      BY <2>1, Results DEF FlashFuncStart
    <3> QED BY <2>2, <2>3, <2>4, <3>1, <3>2, <3>3
  <2>5. CASE s.ok
    <3> DEFINE blank == [s.m EXCEPT !.flash[r] = "blank"]
               other == [s.m EXCEPT !.flash[r] = "other"]
    <3>1. Answers(s.m) => Called(s.m, "erase") = s.m
      BY <2>2, <2>5 DEF Called, Sound, Started
    <3>2. \/ q = Fail(s.m) \/ q = Ok(blank) \/ q = Fail(other)
          \/ q = Fail(RunsOn(blank)) \/ q = Fail(RunsOn(other))
      <4> DEFINE x == Called(s.m, "erase")
                 outcomes == {Ok([x EXCEPT !.flash[r] = "blank"]),
                              Fail([x EXCEPT !.flash[r] = "other"])}
      <4>1. q \in SyscallExec(s.m, outcomes)
        BY <2>1, <2>5
      <4>2. Answers(s.m) => outcomes = {Ok(blank), Fail(other)}
        BY <3>1
      <4> HIDE DEF x, outcomes, blank, other
      <4>3. \/ q = Fail(s.m)
            \/ Answers(s.m) /\ q \in outcomes
            \/ Answers(s.m) /\ \E o \in outcomes : q = Fail(RunsOn(o.m))
        BY <4>1, SyscallOutcomes
      <4> QED BY <4>2, <4>3, Results
    <3> DEFINE Good(x) == /\ x \in MachineType /\ Ready(x) /\ SameBusy(n, x)
                          /\ \A t \in Regions \ {r} : x.flash[t] = n.flash[t]
                          /\ x.last_flash_func = "erase"
    <3>3. Good(s.m)
      BY <2>2, <2>3, <2>5 DEF Ready
    <3>4. ASSUME NEW c \in {"blank", "other"}
          PROVE  Good([s.m EXCEPT !.flash[r] = c])
      <4> DEFINE x == [s.m EXCEPT !.flash[r] = c]
      <4>1. /\ x \in MachineType /\ x.last_flash_func = s.m.last_flash_func
            /\ SameBusy(s.m, x)
        BY <2>3 DEF MachineType, SameBusy
      <4>2. \A t \in Regions \ {r} : x.flash[t] = n.flash[t]
        BY <2>3 DEF MachineType
      <4>3. Ready(x)
        BY <3>3, <2>3 DEF MachineType, Ready, Sound, Started, Loaded, Answers, Single
      <4> QED BY <3>3, <4>1, <4>2, <4>3 DEF SameBusy
    <3>5. Good(blank) /\ Good(other)
      BY <3>4
    <3> HIDE DEF blank, other
    <3>6. ASSUME NEW x, Good(x)
          PROVE  Good(RunsOn(x))
      BY <3>6, TimedOut DEF Ready, Sound, Started, Loaded, SameBusy
    <3>7. Good(RunsOn(blank)) /\ Good(RunsOn(other))
      BY <3>5, <3>6
    <3>8. ASSUME NEW x, Good(x)
          PROVE  x \in MachineType
      BY <3>8
    <3> HIDE DEF Good
    <3>9. q \in Outcome /\ Good(q.m)
      BY <3>2, <3>3, <3>5, <3>7, <3>8, Results, Zenon
    <3> QED BY <3>9 DEF Good, Ready
  <2> QED BY <2>4, <2>5
<1> QED BY <1>1, <1>2

\* one round of target_flash_erase_chip
LEMMA EraseRegionOutcomes ==
  ASSUME NEW n, Erasing(n), Ready(n), NEW r \in Regions
  PROVE  ErasedFrom(n, EraseRegion(n, r))
<1> SUFFICES ASSUME NEW q \in EraseRegion(n, r)
             PROVE  q \in Outcome /\ Erasing(q.m) /\ SameBusy(n, q.m) /\ (q.ok => Ready(q.m))
  BY DEF ErasedFrom
<1>0. n \in MachineType /\ n.last_flash_func \in {"nop", "erase"} /\ SameBusy(n, n)
  BY DEF Erasing, SameBusy
<1>1. CASE r \in SkipChipErase
  <2>1. q = Ok(n)
    BY <1>1 DEF EraseRegion
  <2>2. q.m = n /\ q \in Outcome
    BY <1>0, <2>1, Results, Zenon
  <2> QED BY <1>0, <2>2
<1>2. CASE r \notin SkipChipErase
  <2>1. PICK s \in FlashSet(n, r) : q \in IF s.ok THEN EraseSector(s.m, r) ELSE {s}
    BY <1>2, Zenon DEF EraseRegion, Then
  <2>2. /\ s \in Outcome /\ Sound(s.m) /\ Started(s.m) /\ SameBusy(n, s.m)
        /\ s.m.last_flash_func \in {n.last_flash_func, "nop"}
        /\ s.ok => Ready(s.m)
    BY <1>0, FlashSetOutcomes
  <2>3. s.m \in MachineType /\ s.m.last_flash_func \in {"nop", "erase"}
    BY <1>0, <2>2 DEF Outcome
  <2>4. CASE ~s.ok
    <3>1. q = s
      BY <2>1, <2>4
    <3> QED BY <2>2, <2>3, <2>4, <3>1 DEF Erasing
  <2>5. CASE s.ok
    <3>1. q \in EraseSector(s.m, r)
      BY <2>1, <2>5
    <3>2. /\ q \in Outcome /\ Sound(q.m) /\ SameBusy(s.m, q.m)
          /\ q.ok => Ready(q.m)
          /\ q.m.last_flash_func \in {s.m.last_flash_func, "erase"}
          /\ Started(q.m)
      BY <2>2, <2>3, <2>5, <3>1, EraseSectorOutcomes
    <3>3. q.m \in MachineType
      BY <3>2 DEF Outcome
    <3> QED BY <2>2, <2>3, <3>2, <3>3 DEF Erasing, SameBusy
  <2> QED BY <2>4, <2>5
<1> QED BY <1>1, <1>2

\* a round, after whatever the rounds before it made
LEMMA RegionErasedOutcomes ==
  ASSUME NEW n, NEW rs, ErasedFrom(n, rs), NEW i \in Regions
  PROVE  ErasedFrom(n, RegionErased(rs, i))
<1> SUFFICES ASSUME NEW q \in RegionErased(rs, i)
             PROVE  q \in Outcome /\ Erasing(q.m) /\ SameBusy(n, q.m) /\ (q.ok => Ready(q.m))
  BY DEF ErasedFrom
<1>1. PICK s \in rs : q \in IF s.ok THEN EraseRegion(s.m, RegionsInOrder[i]) ELSE {s}
  BY Zenon DEF RegionErased, Then
<1>2. /\ s \in Outcome /\ Erasing(s.m) /\ SameBusy(n, s.m)
      /\ s.ok => Ready(s.m)
  BY <1>1 DEF ErasedFrom
<1>3. RegionsInOrder[i] = i
  BY DEF RegionsInOrder
<1>4. CASE ~s.ok
  BY <1>1, <1>2, <1>4
<1>5. CASE s.ok
  <2>1. ErasedFrom(s.m, EraseRegion(s.m, i))
    BY <1>2, <1>5, EraseRegionOutcomes
  <2>2. q \in EraseRegion(s.m, i)
    BY <1>1, <1>3, <1>5
  <2>3. q \in Outcome /\ Erasing(q.m) /\ SameBusy(s.m, q.m) /\ (q.ok => Ready(q.m))
    BY <2>1, <2>2 DEF ErasedFrom
  <2> QED BY <1>2, <2>3 DEF SameBusy
<1> QED BY <1>4, <1>5

\* Every set of naturals that is not empty has a least element: what the inductions over
\* the regions use.
LEMMA Least ==
  ASSUME NEW T \in SUBSET Nat, T # {}
  PROVE  \E k \in T : \A j \in T : ~(j < k)
<1>1. PICK k \in T : \A j \in T : <<j, k>> \notin OpToRel(<, Nat)
  BY WFMin, NatLessThanWellFounded, Zenon
<1>2. \A j \in T : ~(j < k)
  BY <1>1, Zenon DEF OpToRel
<1> QED BY <1>2

\* g is the recursive function of RegionsErased, over the first k regions
AfterRegions(g, n, k) ==
  g = [i \in 0 .. k |-> IF i = 0 THEN {Ok(n)} ELSE RegionErased(g[i - 1], i)]

\* The recursive function exists.
LEMMA AfterRegionsExists ==
  ASSUME NEW n, NEW N \in Nat
  PROVE  \E g : AfterRegions(g, n, N)
<1> DEFINE T == {k \in Nat : ~\E g : AfterRegions(g, n, k)}
<1> SUFFICES ASSUME T # {}
             PROVE  FALSE
  OBVIOUS
<1>1. PICK k \in T : \A j \in T : ~(j < k)
  BY Least
<1>2. CASE k = 0
  <2> DEFINE g == [i \in 0 .. 0 |-> {Ok(n)}]
  <2>1. AfterRegions(g, n, 0)
    BY DEF AfterRegions
  <2> QED BY <1>1, <1>2, <2>1
<1>3. CASE k # 0
  <2>1. k - 1 \in Nat /\ k - 1 < k /\ k \in Nat
    BY <1>3
  <2>2. PICK g : AfterRegions(g, n, k - 1)
    BY <1>1, <2>1
  <2> DEFINE h == [i \in 0 .. k |-> IF i = k THEN RegionErased(g[k - 1], k) ELSE g[i]]
  <2>3. \A i \in 0 .. k : h[i] = IF i = 0 THEN {Ok(n)} ELSE RegionErased(h[i - 1], i)
    <3> TAKE i \in 0 .. k
    <3>1. CASE i = k
      BY <2>1, <3>1, <1>3
    <3>2. CASE i # k /\ i # 0
      <4>1. i \in 0 .. k - 1 /\ i - 1 \in 0 .. k - 1 /\ i - 1 # k
        BY <3>2, <2>1
      <4>2. g[i] = RegionErased(g[i - 1], i)
        BY <4>1, <2>2, <3>2 DEF AfterRegions
      <4> QED BY <4>1, <4>2, <3>2, <2>1
    <3>3. CASE i = 0
      <4>1. g[0] = {Ok(n)}
        BY <2>1, <2>2 DEF AfterRegions
      <4> QED BY <4>1, <3>3, <1>3
    <3> QED BY <3>1, <3>2, <3>3
  <2>4. AfterRegions(h, n, k)
    BY <2>3 DEF AfterRegions
  <2> QED BY <1>1, <2>4
<1> QED BY <1>2, <1>3

\* the loop of target_flash_erase_chip, by induction
LEMMA RegionsErasedOutcomes ==
  ASSUME NEW n, Erasing(n), Ready(n)
  PROVE  ErasedFrom(n, RegionsErased(n))
<1>1. NumRegions \in Nat
  BY TargetAssumption
<1> DEFINE g == CHOOSE f : AfterRegions(f, n, NumRegions)
<1>2. AfterRegions(g, n, NumRegions)
  BY <1>1, AfterRegionsExists
<1>3. RegionsErased(n) = g[NumRegions]
  BY Zenon DEF RegionsErased, AfterRegions
<1> HIDE DEF g
<1> DEFINE T == {k \in 0 .. NumRegions : ~ErasedFrom(n, g[k])}
<1>4. SUFFICES ASSUME T # {}
               PROVE  FALSE
  BY <1>1, <1>3
<1>5. PICK k \in T : \A j \in T : ~(j < k)
  <2>1. T \in SUBSET Nat
    BY <1>1
  <2> HIDE DEF T
  <2> QED BY <1>4, <2>1, Least
<1>6. CASE k = 0
  <2>1. g[0] = {Ok(n)}
    BY <1>1, <1>2 DEF AfterRegions
  <2>2. Ok(n) \in Outcome /\ Ok(n).m = n
    BY Results, Zenon DEF Erasing
  <2>3. ErasedFrom(n, {Ok(n)})
    BY <2>2 DEF ErasedFrom, SameBusy
  <2> QED BY <1>5, <1>6, <2>1, <2>3
<1>7. CASE k # 0
  <2>1. k - 1 \in 0 .. NumRegions /\ k - 1 < k /\ k \in Regions /\ k \in 0 .. NumRegions
    BY <1>1, <1>5, <1>7 DEF Regions
  <2>2. ErasedFrom(n, g[k - 1])
    BY <1>5, <2>1
  <2>3. g[k] = RegionErased(g[k - 1], k)
    BY <1>2, <1>7, <2>1 DEF AfterRegions
  <2>4. ErasedFrom(n, g[k])
    BY <2>1, <2>2, <2>3, RegionErasedOutcomes
  <2> QED BY <1>5, <2>4
<1> QED BY <1>6, <1>7

\* target_flash_erase_chip
LEMMA EraseChipOutcomes ==
  ASSUME NEW n, Erasing(n), Ready(n), NEW q \in EraseChip(n)
  PROVE  /\ q \in Outcome /\ Sound(q.m) /\ Started(q.m)
         /\ q.ok => Ready(q.m) /\ (n.busy => q.m.busy)
<1>1. PICK s \in RegionsErased(n) :
        q \in IF s.ok THEN (IF config.erase_reset THEN FlashInit(s.m) ELSE {Ok(s.m)}) ELSE {s}
  BY Zenon DEF EraseChip, Then
<1>2. /\ s \in Outcome /\ Erasing(s.m) /\ SameBusy(n, s.m)
      /\ s.ok => Ready(s.m)
  BY <1>1, RegionsErasedOutcomes DEF ErasedFrom
<1>3. s.m \in MachineType /\ Sound(s.m) /\ Started(s.m)
  BY <1>2 DEF Erasing
<1>4. CASE ~s.ok
  BY <1>1, <1>2, <1>3, <1>4
<1>5. CASE s.ok /\ config.erase_reset
  <2>1. q \in FlashInit(s.m)
    BY <1>1, <1>5
  <2>2. q \in Outcome /\ Ready(q.m) /\ (q.ok => q.m.busy)
    BY <1>3, <2>1, FlashInitOutcomes
  <2> QED BY <2>2 DEF Ready
<1>6. CASE s.ok /\ ~config.erase_reset
  <2>1. q = Ok(s.m)
    BY <1>1, <1>6
  <2>2. q.m = s.m /\ q \in Outcome
    BY <1>3, <2>1, Results, Zenon
  <2> QED BY <1>2, <1>3, <1>6, <2>2 DEF SameBusy
<1> QED BY <1>4, <1>5, <1>6

\* an erase by somebody else: whatever fails in it, what it leaves is ready
LEMMA EraseTargetOutcomes ==
  ASSUME NEW n \in MachineType, Sound(n), NEW q \in EraseTarget(n)
  PROVE  /\ q \in Outcome /\ Ready(q.m)
         /\ ~q.m.busy \/ q.m.unclosed
<1>1. PICK s \in Anyway(FlashInit(n), EraseChip) : q \in FlashUninit(s.m)
  BY Zenon DEF EraseTarget, Anyway
<1>2. PICK r \in FlashInit(n) : s \in EraseChip(r.m)
  BY <1>1, Zenon DEF Anyway
<1>3. r \in Outcome /\ Ready(r.m) /\ r.m.last_flash_func = "nop"
  BY <1>2, FlashInitOutcomes
<1>4. Erasing(r.m)
  BY <1>3 DEF Erasing, Ready, Outcome
<1>5. s \in Outcome /\ Sound(s.m) /\ Started(s.m)
  BY <1>2, <1>3, <1>4, EraseChipOutcomes
<1>6. s.m \in MachineType
  BY <1>5 DEF Outcome
<1> QED BY <1>1, <1>5, <1>6, FlashUninitOutcomes

\* setup_next_sector, flash_manager_init: a failure has closed the interface
LEMMA ClosedIfFailedOutcomes ==
  ASSUME NEW rs, \A r \in rs : r \in Outcome /\ Sound(r.m), NEW q \in ClosedIfFailed(rs)
  PROVE  /\ q \in Outcome /\ Sound(q.m)
         /\ q.ok => q \in rs
         /\ ~q.ok => ~q.m.busy \/ q.m.unclosed
<1>1. PICK r \in rs : q \in IF r.ok THEN {r} ELSE {Fail(u.m) : u \in FlashUninit(r.m)}
  BY Zenon DEF ClosedIfFailed
<1>2. r \in Outcome /\ Sound(r.m) /\ r.m \in MachineType
  BY <1>1 DEF Outcome
<1>3. CASE r.ok
  BY <1>1, <1>2, <1>3
<1>4. CASE ~r.ok
  <2>1. PICK u \in FlashUninit(r.m) : q = Fail(u.m)
    BY <1>1, <1>4
  <2>2. u \in Outcome /\ Sound(u.m) /\ (~u.m.busy \/ u.m.unclosed)
    BY <1>2, <2>1, FlashUninitOutcomes
  <2>3. u.m \in MachineType
    BY <2>2 DEF Outcome
  <2>4. ~q.ok /\ q.m = u.m /\ q \in Outcome
    BY <2>1, <2>3, Results, Zenon
  <2> QED BY <2>2, <2>4
<1> QED BY <1>3, <1>4

\* writing a chunk: only an algorithm with a verify function is not initialised for it
LEMMA WriteChunkOutcomes ==
  ASSUME NEW n, Programming(n), NEW r \in Regions, NEW first_of_two \in BOOLEAN,
         n.last_flash_func = "verify" => n.current_flash_algo \in SmallBuffer,
         NEW q \in WriteChunk(n, r, first_of_two)
  PROVE  /\ q \in Outcome /\ Programming(q.m) /\ OnlyBlock(n, q.m, r)
         /\ q.m.current_flash_algo = n.current_flash_algo
         /\ q.ok /\ ~first_of_two => q.m.flash[r] \in {"new", "other"}
<1> DEFINE Contents == {"blank", "half", "new", "other"}
           Left(c) == [Called(n, "program") EXCEPT !.flash[r] = c]
           c0 == Programmed(n.flash[r], first_of_two)
<1>0. n \in MachineType /\ Ready(n) /\ Sound(n) /\ Started(n) /\ Loaded(n)
  BY DEF Programming, Ready
<1>1. \/ q = Fail(n)
      \/ /\ Answers(n)
         /\ \/ q = Ok(Left(c0)) \/ q = Ok(Left("other")) \/ q = Fail(Left("other"))
            \/ \E c \in {c0, "other"} : q = Fail(RunsOn(Left(c)))
  <2> DEFINE outcomes == {Ok(Left(c0)), Ok(Left("other")), Fail(Left("other"))}
  <2>1. q \in SyscallExec(n, outcomes)
    BY DEF WriteChunk
  <2> HIDE DEF Left, c0
  <2>2. \/ q = Fail(n)
        \/ Answers(n) /\ q \in outcomes
        \/ Answers(n) /\ \E o \in outcomes : q = Fail(RunsOn(o.m))
    BY <2>1, SyscallOutcomes
  <2> QED BY <2>2, Results
<1>2. c0 \in Contents /\ (~first_of_two => c0 \in {"new", "other"})
  BY DEF Programmed
<1>3. ASSUME Answers(n)
      PROVE  \/ Called(n, "program") = n
             \/ /\ Called(n, "program") = [n EXCEPT !.wrong = @ \cup {<<"program", "verify">>}]
                /\ <<"program", "verify">> \in SecondChunks
  <2>1. n.ram = n.current_flash_algo /\ n.inited \in {"any", "program", "verify"}
    BY <1>0, <1>3 DEF Programming, Sound, Started
  <2>2. n.inited = "verify" => n.current_flash_algo \in (SmallBuffer \cap Verifies) \ SingleInit
    BY <1>0, <1>3 DEF Programming, Started, Single
  <2>3. n.inited = "verify" => <<"program", "verify">> \in SecondChunks
    BY <2>2 DEF SecondChunks
  <2> QED BY <2>1, <2>3 DEF Called
<1>4. ASSUME Answers(n), NEW c \in Contents
      PROVE  /\ Left(c) \in MachineType /\ Programming(Left(c)) /\ OnlyBlock(n, Left(c), r)
             /\ Left(c).flash[r] = c /\ Left(c).current_flash_algo = n.current_flash_algo
  <2> DEFINE p == Called(n, "program")
  <2>1. /\ p \in MachineType /\ p.wrong \subseteq SecondChunks
        /\ p.flash = n.flash /\ SameBusy(n, p)
        /\ p.last_flash_func = n.last_flash_func
        /\ p.current_flash_algo = n.current_flash_algo
        /\ p.swd = n.swd /\ p.core = n.core /\ p.ram = n.ram /\ p.inited = n.inited
    <3>1. CASE p = n
      BY <1>0, <3>1 DEF Sound, SameBusy
    <3>2. CASE /\ p = [n EXCEPT !.wrong = @ \cup {<<"program", "verify">>}]
               /\ <<"program", "verify">> \in SecondChunks
      BY <1>0, <3>2 DEF Sound, SameBusy, MachineType, Funcs
    <3> QED BY <1>3, <1>4, <3>1, <3>2
  <2> HIDE DEF p
  <2> DEFINE x == [p EXCEPT !.flash[r] = c]
  <2>2. x \in MachineType /\ x.flash[r] = c /\ \A t \in Regions \ {r} : x.flash[t] = n.flash[t]
    BY <2>1, <1>4 DEF MachineType
  <2>3. /\ x.wrong = p.wrong /\ SameBusy(p, x)
        /\ x.last_flash_func = p.last_flash_func
        /\ x.current_flash_algo = p.current_flash_algo
        /\ x.swd = p.swd /\ x.core = p.core /\ x.ram = p.ram /\ x.inited = p.inited
    BY <2>1 DEF MachineType, SameBusy
  <2> HIDE DEF x
  <2>4. Ready(x)
    BY <1>0, <2>1, <2>3 DEF Ready, Sound, Started, Loaded, Answers, Single
  <2>5. Programming(x) /\ OnlyBlock(n, x, r)
    BY <2>1, <2>2, <2>3, <2>4 DEF Programming, OnlyBlock, SameBusy
  <2> QED BY <2>1, <2>2, <2>3, <2>5 DEF x, p
<1> HIDE DEF Left, c0
<1>5. OnlyBlock(n, n, r)
  BY DEF OnlyBlock, SameBusy
<1>6. CASE q = Fail(n)
  BY <1>0, <1>5, <1>6, Results, Zenon
<1>7. CASE Answers(n) /\ q = Ok(Left(c0))
  <2>1. /\ Left(c0) \in MachineType /\ Programming(Left(c0)) /\ OnlyBlock(n, Left(c0), r)
        /\ Left(c0).flash[r] = c0 /\ Left(c0).current_flash_algo = n.current_flash_algo
    BY <1>2, <1>4, <1>7
  <2>2. q \in Outcome /\ q.m = Left(c0)
    BY <1>7, <2>1, Results, Zenon
  <2> QED BY <1>2, <2>1, <2>2
<1>8. CASE Answers(n) /\ \E c \in {c0, "other"} : q = Fail(RunsOn(Left(c)))
  <2>1. PICK c \in Contents : q = Fail(RunsOn(Left(c)))
    BY <1>2, <1>8
  <2>2. /\ Left(c) \in MachineType /\ Programming(Left(c)) /\ OnlyBlock(n, Left(c), r)
        /\ Left(c).current_flash_algo = n.current_flash_algo
    BY <1>4, <1>8
  <2>3. /\ RunsOn(Left(c)) \in MachineType /\ Programming(RunsOn(Left(c)))
        /\ OnlyBlock(n, RunsOn(Left(c)), r)
        /\ RunsOn(Left(c)).current_flash_algo = n.current_flash_algo
    BY <2>2, TimedOut DEF Programming, Ready, Sound, Started, Loaded, OnlyBlock, SameBusy
  <2>4. q \in Outcome /\ ~q.ok /\ q.m = RunsOn(Left(c))
    BY <2>1, <2>3, Results, Zenon
  <2> QED BY <2>3, <2>4
<1>9. CASE Answers(n) /\ (q = Ok(Left("other")) \/ q = Fail(Left("other")))
  <2>1. /\ Left("other") \in MachineType /\ Programming(Left("other"))
        /\ OnlyBlock(n, Left("other"), r) /\ Left("other").flash[r] = "other"
        /\ Left("other").current_flash_algo = n.current_flash_algo
    BY <1>4, <1>9
  <2>2. q \in Outcome /\ q.m = Left("other")
    BY <1>9, <2>1, Results, Zenon
  <2> QED BY <2>1, <2>2
<1> QED BY <1>1, <1>6, <1>7, <1>8, <1>9

\* verifying it: a block that was damaged is noticed
LEMMA VerifyChunkOutcomes ==
  ASSUME NEW n, Programming(n), NEW r \in Regions, NEW q \in VerifyChunk(n, r)
  PROVE  /\ q \in Outcome /\ Sound(q.m) /\ SameBusy(n, q.m) /\ q.m.flash = n.flash
         /\ q.ok => Programming(q.m)
         /\ q.m.current_flash_algo = n.current_flash_algo
         /\ q.ok /\ config.automation_allowed => q.m.flash[r] # "other"
<1>0. n \in MachineType /\ Ready(n) /\ Sound(n) /\ SameBusy(n, n) /\ n.current_flash_algo # NoAlgo
  BY DEF Programming, Ready, SameBusy
<1>1. CASE ~config.automation_allowed
  <2>1. q = Ok(n)
    BY <1>1 DEF VerifyChunk
  <2>2. q.m = n /\ q \in Outcome
    BY <1>0, <2>1, Results, Zenon
  <2> QED BY <1>0, <1>1, <2>2
<1>2. CASE config.automation_allowed /\ n.current_flash_algo \notin Verifies
  <2>1. q = Fail(n) \/ (n.flash[r] # "other" /\ q = Ok(n))
    BY <1>2 DEF VerifyChunk, Compared
  <2>2. q.m = n /\ q \in Outcome /\ (q.ok => n.flash[r] # "other")
    BY <1>0, <2>1, Results, Zenon
  <2> QED BY <1>0, <2>2
<1>3. CASE config.automation_allowed /\ n.current_flash_algo \in Verifies
  <2>1. PICK s \in FlashFuncStart(n, "verify") :
          q \in IF s.ok THEN SyscallExec(s.m, Compared(Called(s.m, "verify"), r)) ELSE {s}
    BY <1>3, Zenon DEF VerifyChunk, Then
  <2>2. /\ s \in Outcome /\ OnlyFunc(n, s.m) /\ Sound(s.m)
        /\ s.ok => s.m.last_flash_func = "verify" /\ Started(s.m)
    <3>1. "verify" \in Funcs \ {"nop"}
      BY DEF Funcs
    <3> QED BY <1>0, <3>1, FuncStarts
  <2>3. /\ s.m \in MachineType /\ SameBusy(n, s.m) /\ s.m.flash = n.flash
        /\ s.m.current_flash_algo = n.current_flash_algo /\ Loaded(s.m)
    BY <1>0, <2>2 DEF Outcome, OnlyFunc, Ready, Loaded, Answers
  <2>4. CASE ~s.ok
    <3>1. q = s
      BY <2>1, <2>4
    <3> QED BY <2>2, <2>3, <2>4, <3>1
  <2>5. CASE s.ok
    <3>1. Answers(s.m) => Called(s.m, "verify") = s.m
      BY <2>2, <2>5 DEF Called, Sound, Started
    <3> DEFINE outcomes == Compared(Called(s.m, "verify"), r)
    <3>2. q \in SyscallExec(s.m, outcomes)
      BY <2>1, <2>5
    <3>3. Answers(s.m) => outcomes \subseteq {Fail(s.m)} \cup
                                 IF s.m.flash[r] # "other" THEN {Ok(s.m)} ELSE {}
      BY <3>1 DEF Compared
    <3> HIDE DEF outcomes
    <3>4. \/ q = Fail(s.m)
          \/ Answers(s.m) /\ q \in outcomes
          \/ Answers(s.m) /\ \E o \in outcomes : q = Fail(RunsOn(o.m))
      BY <3>2, SyscallOutcomes
    <3>5. \/ q = Fail(s.m) \/ q = Fail(RunsOn(s.m))
          \/ s.m.flash[r] # "other" /\ q = Ok(s.m)
      BY <3>3, <3>4, Results
    <3>6. CASE q = Fail(RunsOn(s.m))
      <4>1. q \in Outcome /\ ~q.ok /\ q.m = RunsOn(s.m)
        BY <2>3, <3>6, TimedOut, Results, Zenon
      <4>2. Sound(q.m) /\ SameBusy(n, q.m)
        BY <2>2, <2>3, <4>1, TimedOut DEF Sound, SameBusy
      <4>3. q.m.flash = n.flash /\ q.m.current_flash_algo = n.current_flash_algo
        BY <2>3, <4>1, TimedOut
      <4> QED BY <4>1, <4>2, <4>3
    <3>7. CASE q = Fail(s.m) \/ (s.m.flash[r] # "other" /\ q = Ok(s.m))
      <4>1. q.m = s.m /\ q \in Outcome /\ (q.ok => s.m.flash[r] # "other")
        BY <2>3, <3>7, Results, Zenon
      <4>2. Programming(s.m)
        BY <1>0, <1>3, <2>2, <2>3, <2>5 DEF Programming, Ready
      <4> QED BY <2>2, <2>3, <4>1, <4>2
    <3> QED BY <3>5, <3>6, <3>7
  <2> QED BY <2>4, <2>5
<1> QED BY <1>1, <1>2, <1>3

\* a round of the loop
LEMMA ChunkOutcomes ==
  ASSUME NEW n, Programming(n), NEW r \in Regions, NEW first_of_two \in BOOLEAN,
         n.last_flash_func = "verify" => n.current_flash_algo \in SmallBuffer,
         NEW q \in Chunk(n, r, first_of_two)
  PROVE  /\ q \in Outcome /\ Sound(q.m) /\ OnlyBlock(n, q.m, r)
         /\ q.ok => Programming(q.m)
         /\ q.m.current_flash_algo = n.current_flash_algo
         /\ q.ok /\ config.automation_allowed /\ ~first_of_two => q.m.flash[r] = "new"
<1>0. n \in MachineType /\ Sound(n) /\ OnlyBlock(n, n, r)
  BY DEF Programming, Ready, OnlyBlock, SameBusy
<1>1. PICK w \in {Ok(n), Fail(n)} :
        q \in IF w.ok THEN Then(WriteChunk(w.m, r, first_of_two), LAMBDA y : VerifyChunk(y, r))
              ELSE {w}
  BY Zenon DEF Chunk, Then
<1>2. w.m = n /\ w \in Outcome
  BY <1>0, <1>1, Results, Zenon
<1>3. CASE ~w.ok
  <2>1. q = w
    BY <1>1, <1>3
  <2> QED BY <1>0, <1>2, <1>3, <2>1
<1>4. CASE w.ok
  <2>1. q \in Then(WriteChunk(n, r, first_of_two), LAMBDA y : VerifyChunk(y, r))
    BY <1>1, <1>2, <1>4, Zenon
  <2>2. PICK s \in WriteChunk(n, r, first_of_two) :
          q \in IF s.ok THEN VerifyChunk(s.m, r) ELSE {s}
    BY <2>1, Zenon DEF Then
  <2>3. /\ s \in Outcome /\ Programming(s.m) /\ OnlyBlock(n, s.m, r)
        /\ s.m.current_flash_algo = n.current_flash_algo
        /\ s.ok /\ ~first_of_two => s.m.flash[r] \in {"new", "other"}
    BY <2>2, WriteChunkOutcomes
  <2>4. CASE ~s.ok
    <3>1. q = s
      BY <2>2, <2>4
    <3> QED BY <2>3, <2>4, <3>1 DEF Programming, Ready
  <2>5. CASE s.ok
    <3>1. q \in VerifyChunk(s.m, r)
      BY <2>2, <2>5
    <3>2. /\ q \in Outcome /\ Sound(q.m) /\ SameBusy(s.m, q.m) /\ q.m.flash = s.m.flash
          /\ q.ok => Programming(q.m)
          /\ q.m.current_flash_algo = s.m.current_flash_algo
          /\ q.ok /\ config.automation_allowed => q.m.flash[r] # "other"
      BY <2>3, <3>1, VerifyChunkOutcomes
    <3>3. OnlyBlock(n, q.m, r)
      BY <2>3, <3>2 DEF OnlyBlock, SameBusy
    <3> QED BY <2>3, <2>5, <3>2, <3>3
  <2> QED BY <2>4, <2>5
<1> QED BY <1>3, <1>4

\* target_flash_program_page: if it succeeds and verifies, the block is written
LEMMA ProgramPageOutcomes ==
  ASSUME NEW n \in MachineType, Ready(n), NEW r \in Regions, NEW q \in ProgramPage(n, r)
  PROVE  /\ q \in Outcome /\ Sound(q.m) /\ OnlyBlock(n, q.m, r)
         /\ q.ok => Ready(q.m)
         /\ q.ok /\ config.automation_allowed => q.m.flash[r] = "new"
<1>0. Sound(n) /\ OnlyBlock(n, n, r)
  BY DEF Ready, OnlyBlock, SameBusy
<1>1. CASE n.current_flash_algo = NoAlgo
  <2>1. q = Fail(n)
    BY <1>1 DEF ProgramPage
  <2>2. ~q.ok /\ q.m = n /\ q \in Outcome
    BY <2>1, Results, Zenon
  <2> QED BY <1>0, <2>2
<1>2. CASE n.current_flash_algo # NoAlgo
  <2> DEFINE Chunks(x) == IF x.current_flash_algo \in SmallBuffer
                          THEN Then(Chunk(x, r, TRUE), LAMBDA y : Chunk(y, r, FALSE))
                          ELSE Chunk(x, r, FALSE)
  <2>1. PICK w \in {Ok(n), Fail(n)} :
          q \in IF w.ok THEN Then(FlashFuncStart(w.m, "program"), Chunks) ELSE {w}
    BY <1>2, Zenon DEF ProgramPage, Then
  <2>2. w.m = n /\ w \in Outcome
    BY <2>1, Results, Zenon
  <2>3. CASE ~w.ok
    <3>1. q = w
      BY <2>1, <2>3
    <3> QED BY <1>0, <2>2, <2>3, <3>1
  <2>4. CASE w.ok
    <3>1. PICK s \in FlashFuncStart(n, "program") : q \in IF s.ok THEN Chunks(s.m) ELSE {s}
      BY <2>1, <2>2, <2>4, Zenon DEF Then
    <3>2. /\ s \in Outcome /\ OnlyFunc(n, s.m) /\ Sound(s.m)
          /\ s.ok => s.m.last_flash_func = "program" /\ Started(s.m)
      <4>1. "program" \in Funcs \ {"nop"}
        BY DEF Funcs
      <4> QED BY <1>2, <4>1, FuncStarts
    <3>3. /\ s.m \in MachineType /\ OnlyBlock(n, s.m, r)
          /\ s.m.current_flash_algo # NoAlgo /\ Loaded(s.m)
      BY <1>2, <3>2 DEF Outcome, OnlyFunc, OnlyBlock, SameBusy, Ready, Loaded, Answers
    <3>4. CASE ~s.ok
      <4>1. q = s
        BY <3>1, <3>4
      <4> QED BY <3>2, <3>3, <3>4, <4>1
    <3>5. CASE s.ok
      <4>1. Programming(s.m)
        BY <3>2, <3>3, <3>5 DEF Programming, Ready
      <4>2. ASSUME NEW y, Programming(y), OnlyBlock(n, y, r), q \in Chunk(y, r, FALSE),
                   y.last_flash_func = "verify" => y.current_flash_algo \in SmallBuffer
            PROVE  /\ q \in Outcome /\ Sound(q.m) /\ OnlyBlock(n, q.m, r)
                   /\ q.ok => Ready(q.m)
                   /\ q.ok /\ config.automation_allowed => q.m.flash[r] = "new"
        <5>1. /\ q \in Outcome /\ Sound(q.m) /\ OnlyBlock(y, q.m, r)
              /\ q.ok => Programming(q.m)
              /\ q.ok /\ config.automation_allowed => q.m.flash[r] = "new"
          BY <4>2, ChunkOutcomes
        <5> QED BY <4>2, <5>1 DEF OnlyBlock, SameBusy, Programming
      <4>3. CASE s.m.current_flash_algo \notin SmallBuffer
        BY <3>1, <3>2, <3>3, <3>5, <4>1, <4>2, <4>3
      <4>4. CASE s.m.current_flash_algo \in SmallBuffer
        <5>1. PICK c \in Chunk(s.m, r, TRUE) : q \in IF c.ok THEN Chunk(c.m, r, FALSE) ELSE {c}
          BY <3>1, <3>5, <4>4, Zenon DEF Then
        <5>2. /\ c \in Outcome /\ Sound(c.m) /\ OnlyBlock(s.m, c.m, r)
              /\ c.ok => Programming(c.m)
              /\ c.m.current_flash_algo = s.m.current_flash_algo
          BY <4>1, <4>4, <5>1, ChunkOutcomes
        <5>3. OnlyBlock(n, c.m, r)
          BY <3>3, <5>2 DEF OnlyBlock, SameBusy
        <5>4. CASE ~c.ok
          <6>1. q = c
            BY <5>1, <5>4
          <6> QED BY <5>2, <5>3, <5>4, <6>1
        <5>5. CASE c.ok
          <6>1. q \in Chunk(c.m, r, FALSE)
            BY <5>1, <5>5
          <6> QED BY <4>2, <4>4, <5>2, <5>3, <5>5, <6>1
        <5> QED BY <5>4, <5>5
      <4> QED BY <4>3, <4>4
    <3> QED BY <3>4, <3>5
  <2> QED BY <2>3, <2>4
<1> QED BY <1>1, <1>2

(***************************************************************************)
(* The inductive invariant                                                 *)
(***************************************************************************)
SessionType ==
  [at : {"none", "open", "error"}, region : 0 .. NumRegions,
   verified : SUBSET Regions, erased : BOOLEAN]
ConfigType ==
  [auto_rst : BOOLEAN, automation_allowed : BOOLEAN,
   erase_reset : EraseReset, page_erase : BOOLEAN]

TypeInv ==
  /\ m \in MachineType /\ session \in SessionType /\ config \in ConfigType
  /\ reset \in [pressed : BOOLEAN, flag : BOOLEAN]
\* AlgorithmReady needs to know the machine an operation finds: ready in an open session,
\* sound at any time.
AlgorithmInv == Sound(m) /\ (session.at = "open" => Ready(m))
\* SuccessIsWritten, before the end of the session: a block that was verified stays written,
\* and the one that is about to be programmed is not among them.
WrittenInv ==
  /\ session.region \notin session.verified
  /\ session.at = "open" /\ ~session.erased =>
       \A r \in session.verified : m.flash[r] = "new"
IInv == TypeInv /\ AlgorithmInv /\ BusyTells /\ WrittenInv

\* the values a session starts and ends with
LEMMA NoSessionType ==
  /\ NoSession \in SessionType /\ NoSession.verified = {} /\ NoSession.at = "none"
  /\ \A c \in {"open", "error"} :
       /\ [NoSession EXCEPT !.at = c] \in SessionType
       /\ [NoSession EXCEPT !.at = c].verified = {} /\ [NoSession EXCEPT !.at = c].at = c
       /\ [NoSession EXCEPT !.at = c].region = 0
<1> DEFINE none == [at |-> "none", region |-> 0, verified |-> {}, erased |-> FALSE]
<1>1. NoSession = none
  BY DEF NoSession
<1>2. 0 \in 0 .. NumRegions
  BY TargetAssumption
<1>3. /\ none \in SessionType /\ none.verified = {} /\ none.at = "none"
      /\ none.region = 0 /\ none.erased = FALSE
  BY <1>2 DEF SessionType
<1> HIDE DEF none
<1>4. ASSUME NEW c \in {"open", "error"}
      PROVE  /\ [none EXCEPT !.at = c] \in SessionType
             /\ [none EXCEPT !.at = c].verified = {} /\ [none EXCEPT !.at = c].at = c
             /\ [none EXCEPT !.at = c].region = 0
  BY <1>3 DEF SessionType
<1> QED BY <1>1, <1>3, <1>4

(***************************************************************************)
(* Actions                                                                 *)
(***************************************************************************)
\* The session opens: busy and ready, or the interface is closed or was left unclosed.
LEMMA SessionOpensStep ==
  ASSUME IInv, SessionOpens
  PROVE  IInv'
<1>0. m \in MachineType /\ Sound(m) /\ (session.at = "none" /\ m.busy => m.unclosed)
  BY DEF IInv, TypeInv, AlgorithmInv, BusyTells
<1>1. PICK q \in Then(FlashInit(m), LAMBDA x :
                   IF config.page_erase THEN {Ok(x)} ELSE ClosedIfFailed(EraseChip(x))) :
        /\ m' = q.m
        /\ session' = IF q.ok THEN [NoSession EXCEPT !.at = "open"] ELSE NoSession
  BY Zenon DEF SessionOpens
<1>2. PICK s \in FlashInit(m) :
        q \in IF s.ok
              THEN (IF config.page_erase THEN {Ok(s.m)} ELSE ClosedIfFailed(EraseChip(s.m)))
              ELSE {s}
  BY <1>1, Zenon DEF Then
<1>3. /\ s \in Outcome /\ Ready(s.m) /\ s.m.last_flash_func = "nop"
      /\ s.m.unclosed = m.unclosed
      /\ s.ok => s.m.busy
      /\ ~s.ok => s.m.busy = m.busy
  BY <1>0, <1>2, FlashInitOutcomes
<1>4. s.m \in MachineType /\ Sound(s.m) /\ Erasing(s.m)
  BY <1>3 DEF Outcome, Ready, Erasing
<1>5. /\ q \in Outcome /\ Sound(q.m)
      /\ q.ok => Ready(q.m) /\ q.m.busy
      /\ ~q.ok => ~q.m.busy \/ q.m.unclosed
  <2>1. CASE ~s.ok
    <3>1. q = s
      BY <1>2, <2>1
    <3>2. session.at = "none"
      BY DEF SessionOpens
    <3> QED BY <1>0, <1>3, <1>4, <2>1, <3>1, <3>2
  <2>2. CASE s.ok /\ config.page_erase
    <3>1. q = Ok(s.m)
      BY <1>2, <2>2
    <3>2. q.ok /\ q.m = s.m /\ q \in Outcome
      BY <1>4, <3>1, Results, Zenon
    <3> QED BY <1>3, <1>4, <2>2, <3>2
  <2>3. CASE s.ok /\ ~config.page_erase
    <3>1. q \in ClosedIfFailed(EraseChip(s.m))
      BY <1>2, <2>3
    <3>2. \A e \in EraseChip(s.m) :
            /\ e \in Outcome /\ Sound(e.m)
            /\ e.ok => Ready(e.m) /\ (s.m.busy => e.m.busy)
      BY <1>3, <1>4, EraseChipOutcomes
    <3>3. /\ q \in Outcome /\ Sound(q.m)
          /\ q.ok => q \in EraseChip(s.m)
          /\ ~q.ok => ~q.m.busy \/ q.m.unclosed
      BY <3>1, <3>2, ClosedIfFailedOutcomes
    <3> QED BY <1>3, <2>3, <3>2, <3>3
  <2> QED BY <2>1, <2>2, <2>3
<1>6. /\ session' \in SessionType /\ session'.verified = {}
      /\ q.ok => session'.at = "open"
      /\ ~q.ok => session'.at = "none"
  <2>1. CASE q.ok
    <3>1. session' = [NoSession EXCEPT !.at = "open"]
      BY <1>1, <2>1
    <3> QED BY <2>1, <3>1, NoSessionType
  <2>2. CASE ~q.ok
    BY <1>1, <2>2, NoSessionType
  <2> QED BY <2>1, <2>2
<1>7. TypeInv'
  BY <1>1, <1>5, <1>6 DEF IInv, TypeInv, SessionOpens, Outcome, ConfigType
<1>8. AlgorithmInv'
  BY <1>1, <1>5, <1>6 DEF AlgorithmInv
<1>9. BusyTells'
  BY <1>1, <1>5, <1>6 DEF BusyTells
<1>10. WrittenInv'
  BY <1>6 DEF WrittenInv
<1> QED BY <1>7, <1>8, <1>9, <1>10 DEF IInv

\* It enters a region: that block is no longer counted as verified, no other one changes.
LEMMA SessionEntersStep ==
  ASSUME IInv, NEW r \in Regions, SessionEnters(r)
  PROVE  IInv'
<1>0. m \in MachineType /\ session \in SessionType /\ session.at = "open"
      /\ Ready(m) /\ Sound(m) /\ (~session.erased => m.busy)
      /\ (~session.erased => \A t \in session.verified : m.flash[t] = "new")
  BY DEF IInv, TypeInv, AlgorithmInv, BusyTells, WrittenInv, SessionEnters, Ready
<1> DEFINE entered == Then({Fail(m)} \cup FlashSet(m, r), LAMBDA x :
                        IF config.page_erase THEN EraseSector(x, r) ELSE {Ok(x)})
<1>1. PICK q \in ClosedIfFailed(entered) :
        /\ m' = q.m
        /\ session' = IF q.ok THEN [session EXCEPT !.region = r, !.verified = @ \ {r}]
                      ELSE [NoSession EXCEPT !.at = "error"]
  BY Zenon DEF SessionEnters
<1>2. ASSUME NEW e \in entered
      PROVE  /\ e \in Outcome /\ Sound(e.m)
             /\ e.ok => Ready(e.m) /\ OnlyBlock(m, e.m, r)
  <2>1. PICK s \in {Fail(m)} \cup FlashSet(m, r) :
          e \in IF s.ok
                THEN (IF config.page_erase THEN EraseSector(s.m, r) ELSE {Ok(s.m)})
                ELSE {s}
    BY Zenon DEF Then
  <2>2. /\ s \in Outcome /\ Sound(s.m)
        /\ s.ok => SameBusy(m, s.m) /\ s.m.flash = m.flash /\ Ready(s.m)
    <3>1. CASE s = Fail(m)
      <4>1. ~s.ok /\ s.m = m /\ s \in Outcome
        BY <1>0, <3>1, Results, Zenon
      <4> QED BY <1>0, <4>1
    <3>2. CASE s \in FlashSet(m, r)
      <4>1. /\ s \in Outcome /\ Sound(s.m) /\ SameBusy(m, s.m) /\ s.m.flash = m.flash
            /\ s.ok => Ready(s.m)
        <5>1. m \in MachineType /\ Ready(m)
          BY <1>0
        <5> QED BY <3>2, <5>1, FlashSetOutcomes
      <4> QED BY <4>1
    <3> QED BY <2>1, <3>1, <3>2
  <2>3. s.m \in MachineType
    BY <2>2 DEF Outcome
  <2>4. CASE ~s.ok
    <3>1. e = s
      BY <2>1, <2>4
    <3> QED BY <2>2, <2>4, <3>1
  <2>5. CASE s.ok /\ config.page_erase
    <3>1. e \in EraseSector(s.m, r)
      BY <2>1, <2>5
    <3>2. /\ e \in Outcome /\ Sound(e.m) /\ SameBusy(s.m, e.m)
          /\ \A t \in Regions \ {r} : e.m.flash[t] = s.m.flash[t]
          /\ e.ok => Ready(e.m)
      BY <2>2, <2>3, <2>5, <3>1, EraseSectorOutcomes
    <3> QED BY <2>2, <2>5, <3>2 DEF OnlyBlock, SameBusy
  <2>6. CASE s.ok /\ ~config.page_erase
    <3>1. e = Ok(s.m)
      BY <2>1, <2>6
    <3>2. e.m = s.m /\ e \in Outcome
      BY <2>3, <3>1, Results, Zenon
    <3> QED BY <2>2, <2>6, <3>2 DEF OnlyBlock
  <2> QED BY <2>4, <2>5, <2>6
<1> HIDE DEF entered
<1>3. /\ q \in Outcome /\ Sound(q.m)
      /\ q.ok => q \in entered
      /\ ~q.ok => ~q.m.busy \/ q.m.unclosed
  BY <1>1, <1>2, ClosedIfFailedOutcomes
<1>4. q.ok => Ready(q.m) /\ OnlyBlock(m, q.m, r)
  BY <1>2, <1>3
<1>5. /\ session' \in SessionType
      /\ session'.region \notin session'.verified
      /\ ~q.ok => session'.at = "error" /\ session'.verified = {}
      /\ q.ok => /\ session'.at = "open" /\ session'.erased = session.erased
                 /\ session'.verified = session.verified \ {r}
  <2>1. CASE q.ok
    <3>1. session' = [session EXCEPT !.region = r, !.verified = @ \ {r}]
      BY <1>1, <2>1
    <3>2. r \in 0 .. NumRegions /\ r # 0
      BY TargetAssumption DEF Regions
    <3> QED BY <1>0, <2>1, <3>1, <3>2 DEF SessionType
  <2>2. CASE ~q.ok
    <3>1. session' = [NoSession EXCEPT !.at = "error"]
      BY <1>1, <2>2
    <3> QED BY <2>2, <3>1, NoSessionType DEF SessionType
  <2> QED BY <2>1, <2>2
<1>6. TypeInv'
  BY <1>1, <1>3, <1>5 DEF IInv, TypeInv, SessionEnters, Outcome, ConfigType
<1>7. AlgorithmInv'
  BY <1>1, <1>3, <1>4, <1>5 DEF AlgorithmInv
<1>8. BusyTells'
  BY <1>0, <1>1, <1>4, <1>5 DEF BusyTells, OnlyBlock, SameBusy
<1>9. WrittenInv'
  BY <1>0, <1>1, <1>4, <1>5 DEF WrittenInv, OnlyBlock, SessionType
<1> QED BY <1>6, <1>7, <1>8, <1>9 DEF IInv

\* It programs a block: those verified before are still written.
LEMMA SessionProgramsStep ==
  ASSUME IInv, SessionPrograms
  PROVE  IInv'
<1> DEFINE r == session.region
<1>0. m \in MachineType /\ session \in SessionType /\ session.at = "open" /\ r \in Regions
      /\ Ready(m) /\ (~session.erased => m.busy) /\ r \notin session.verified
      /\ (~session.erased => \A t \in session.verified : m.flash[t] = "new")
  BY TargetAssumption
     DEF IInv, TypeInv, AlgorithmInv, BusyTells, WrittenInv, SessionPrograms, SessionType, Regions
<1>1. PICK q \in ProgramPage(m, r) :
        /\ m' = q.m
        /\ session' =
             IF ~q.ok THEN [NoSession EXCEPT !.at = "error"]
             ELSE [session EXCEPT
                     !.region = 0,
                     !.verified = @ \cup IF config.automation_allowed THEN {r} ELSE {}]
  BY Zenon DEF SessionPrograms
<1> HIDE DEF r
<1>2. /\ q \in Outcome /\ Sound(q.m) /\ OnlyBlock(m, q.m, r)
      /\ q.ok => Ready(q.m)
      /\ q.ok /\ config.automation_allowed => q.m.flash[r] = "new"
  BY <1>0, <1>1, ProgramPageOutcomes
<1>3. /\ session' \in SessionType
      /\ session'.region = 0
      /\ ~q.ok => session'.at = "error" /\ session'.verified = {}
      /\ q.ok => /\ session'.at = "open" /\ session'.erased = session.erased
                 /\ session'.verified =
                      session.verified \cup IF config.automation_allowed THEN {r} ELSE {}
  <2>1. CASE q.ok
    <3> DEFINE added == IF config.automation_allowed THEN {r} ELSE {}
    <3>1. session' = [session EXCEPT !.region = 0, !.verified = @ \cup added]
      BY <1>1, <2>1
    <3>2. added \subseteq Regions /\ 0 \in 0 .. NumRegions
      BY <1>0, TargetAssumption
    <3> HIDE DEF added
    <3>3. /\ session' \in SessionType /\ session'.region = 0 /\ session'.at = "open"
          /\ session'.erased = session.erased
          /\ session'.verified = session.verified \cup added
      BY <1>0, <3>1, <3>2 DEF SessionType
    <3> QED BY <2>1, <3>3 DEF added
  <2>2. CASE ~q.ok
    <3>1. session' = [NoSession EXCEPT !.at = "error"]
      BY <1>1, <2>2
    <3> QED BY <2>2, <3>1, NoSessionType DEF SessionType
  <2> QED BY <2>1, <2>2
<1>4. TypeInv'
  BY <1>1, <1>2, <1>3 DEF IInv, TypeInv, SessionPrograms, Outcome, ConfigType
<1>5. AlgorithmInv'
  BY <1>1, <1>2, <1>3 DEF AlgorithmInv
<1>6. BusyTells'
  BY <1>0, <1>1, <1>2, <1>3 DEF BusyTells, OnlyBlock, SameBusy
<1>7. WrittenInv'
  <2>1. session'.region \notin session'.verified
    BY <1>3 DEF SessionType, Regions
  <2>2. ASSUME q.ok, ~session.erased, NEW t \in session'.verified
        PROVE  q.m.flash[t] = "new"
    <3>1. CASE t = r /\ config.automation_allowed
      BY <1>2, <2>2, <3>1
    <3>2. CASE t \in session.verified
      BY <1>0, <1>2, <2>2, <3>2 DEF OnlyBlock, SessionType
    <3> QED BY <1>3, <2>2, <3>1, <3>2
  <2> QED BY <1>1, <1>3, <2>1, <2>2 DEF WrittenInv
<1> QED BY <1>4, <1>5, <1>6, <1>7 DEF IInv

\* It closes.
LEMMA SessionClosesStep ==
  ASSUME IInv, SessionCloses
  PROVE  IInv'
<1>0. m \in MachineType /\ Sound(m)
  BY DEF IInv, TypeInv, AlgorithmInv
<1>1. PICK q \in FlashUninit(m) : m' = q.m
  BY DEF SessionCloses
<1>2. q \in Outcome /\ Sound(q.m) /\ (~q.m.busy \/ q.m.unclosed)
  BY <1>0, <1>1, FlashUninitOutcomes
<1>3. session' \in SessionType /\ session'.at = "none" /\ session'.verified = {}
  BY NoSessionType DEF SessionCloses
<1>4. TypeInv'
  BY <1>1, <1>2, <1>3 DEF IInv, TypeInv, SessionCloses, Outcome, ConfigType
<1>5. AlgorithmInv' /\ BusyTells' /\ WrittenInv'
  BY <1>1, <1>2, <1>3 DEF AlgorithmInv, BusyTells, WrittenInv
<1> QED BY <1>4, <1>5 DEF IInv

\* Somebody else erases: under an open session the interface may be closed, and is ready.
LEMMA OthersEraseStep ==
  ASSUME IInv, OthersErase
  PROVE  IInv'
<1>0. m \in MachineType /\ Sound(m) /\ session \in SessionType
      /\ session.region \notin session.verified
  BY DEF IInv, TypeInv, AlgorithmInv, WrittenInv
<1>1. PICK q \in EraseTarget(m) : m' = q.m
  BY DEF OthersErase
<1>2. q \in Outcome /\ Ready(q.m) /\ (~q.m.busy \/ q.m.unclosed)
  BY <1>0, <1>1, EraseTargetOutcomes
<1>3. /\ session' \in SessionType /\ session'.at = session.at
      /\ session'.region = session.region /\ session'.verified = session.verified
      /\ session.at = "open" => session'.erased
  BY <1>0 DEF OthersErase, SessionType
<1>4. TypeInv'
  BY <1>1, <1>2, <1>3 DEF IInv, TypeInv, OthersErase, Outcome, ConfigType
<1>5. AlgorithmInv' /\ BusyTells' /\ WrittenInv'
  BY <1>0, <1>1, <1>2, <1>3 DEF AlgorithmInv, BusyTells, WrittenInv, Ready
<1> QED BY <1>4, <1>5 DEF IInv

\* a reset, or a hold in reset, under whatever session there is
LEMMA ResetStep ==
  ASSUME IInv, m' = ResetRun(m) \/ m' = ResetHold(m), UNCHANGED session,
         config' \in ConfigType, reset' \in [pressed : BOOLEAN, flag : BOOLEAN]
  PROVE  IInv'
<1>0. m \in MachineType /\ Sound(m) /\ session \in SessionType
  BY DEF IInv, TypeInv, AlgorithmInv
<1>1. /\ m' \in MachineType /\ ~Answers(m') /\ m'.wrong = m.wrong
      /\ SameBusy(m, m') /\ m'.flash = m.flash
  <2>1. CASE m' = ResetRun(m)
    BY <1>0, <2>1 DEF ResetRun, MachineType, Answers, SameBusy, Funcs
  <2>2. CASE m' = ResetHold(m)
    BY <1>0, <2>2 DEF ResetHold, MachineType, Answers, SameBusy, Funcs
  <2> QED BY <2>1, <2>2
<1>2. TypeInv'
  BY <1>0, <1>1 DEF TypeInv
<1>3. AlgorithmInv'
  BY <1>0, <1>1 DEF AlgorithmInv, Ready, Sound, Started, Loaded
<1>4. BusyTells' /\ WrittenInv'
  BY <1>1 DEF IInv, BusyTells, WrittenInv, SameBusy
<1> QED BY <1>2, <1>3, <1>4 DEF IInv

\* Settings change, a break ends.
LEMMA UntouchedStep ==
  ASSUME IInv, UNCHANGED <<m, session>>,
         config' \in ConfigType, reset' \in [pressed : BOOLEAN, flag : BOOLEAN]
  PROVE  IInv'
<1>1. TypeInv'
  BY DEF IInv, TypeInv
<1>2. AlgorithmInv' /\ BusyTells' /\ WrittenInv'
  BY DEF IInv, AlgorithmInv, BusyTells, WrittenInv
<1> QED BY <1>1, <1>2 DEF IInv

(***************************************************************************)
(* Theorems                                                                *)
(***************************************************************************)
\* The inductive invariant holds: whatever the session, the erases, the button, the break
\* signal and the settings do in turn, and whatever fails.
THEOREM Invariance == Spec => []IInv
<1>1. Init => IInv
  <2> SUFFICES ASSUME Init
               PROVE  IInv
    OBVIOUS
  <2>1. m \in MachineType /\ m.wrong = {} /\ m.last_flash_func = "nop"
        /\ m.busy = FALSE
    BY DEF Init, MachineType, Funcs
  <2>2. session \in SessionType /\ session.at = "none" /\ session.verified = {}
    BY NoSessionType DEF Init
  <2>3. TypeInv
    BY <2>1, <2>2 DEF Init, TypeInv, ConfigType
  <2>4. AlgorithmInv /\ BusyTells /\ WrittenInv
    BY <2>1, <2>2 DEF AlgorithmInv, Sound, BusyTells, WrittenInv
  <2> QED BY <2>3, <2>4 DEF IInv
<1>2. IInv /\ [Next]_vars => IInv'
  <2> SUFFICES ASSUME IInv, [Next]_vars
               PROVE  IInv'
    OBVIOUS
  <2> DEFINE ResetType == [pressed : BOOLEAN, flag : BOOLEAN]
  <2>0. config \in ConfigType /\ reset \in ResetType
    BY DEF IInv, TypeInv
  <2>1. CASE SessionOpens
    BY <2>1, SessionOpensStep
  <2>2. CASE \E r \in Regions : SessionEnters(r)
    BY <2>2, SessionEntersStep
  <2>3. CASE SessionPrograms
    BY <2>3, SessionProgramsStep
  <2>4. CASE SessionCloses
    BY <2>4, SessionClosesStep
  <2>5. CASE OthersErase
    BY <2>5, OthersEraseStep
  <2>6. CASE ButtonPressed
    <3>1. config' \in ConfigType /\ reset' \in ResetType
      BY <2>0, <2>6 DEF ButtonPressed, ConfigType
    <3> QED BY <2>6, <3>1, ResetStep DEF ButtonPressed
  <2>7. CASE ButtonReleased
    <3>1. config' \in ConfigType /\ reset' \in ResetType
      BY <2>0, <2>7 DEF ButtonReleased, ConfigType
    <3> QED BY <2>7, <3>1, ResetStep DEF ButtonReleased
  <2>8. CASE BreakBegins
    <3>1. config' \in ConfigType /\ reset' \in ResetType
      BY <2>0, <2>8 DEF BreakBegins, ConfigType
    <3> QED BY <2>8, <3>1, ResetStep DEF BreakBegins
  <2>9. CASE BreakEnds
    <3>1. config' \in ConfigType /\ reset' \in ResetType
      BY <2>0, <2>9 DEF BreakEnds, ConfigType
    <3> QED BY <2>9, <3>1, UntouchedStep DEF BreakEnds
  <2>10. CASE MainReset
    <3>1. config' \in ConfigType /\ reset' \in ResetType
      BY <2>0, <2>10 DEF MainReset, ConfigType
    <3> QED BY <2>10, <3>1, ResetStep DEF MainReset
  <2>11. CASE VendorReset
    <3>1. config' \in ConfigType /\ reset' \in ResetType
      BY <2>0, <2>11 DEF VendorReset, ConfigType
    <3> QED BY <2>11, <3>1, ResetStep DEF VendorReset
  <2>12. CASE ConfigChanges
    <3>1. config' \in ConfigType /\ reset' \in ResetType
      BY <2>0, <2>12 DEF ConfigChanges, ConfigType
    <3> QED BY <2>12, <3>1, UntouchedStep DEF ConfigChanges
  <2>13. CASE UNCHANGED vars
    <3>1. config' \in ConfigType /\ reset' \in ResetType
      BY <2>0, <2>13 DEF vars, ConfigType
    <3> QED BY <2>13, <3>1, UntouchedStep DEF vars
  <2> QED
    BY <2>1, <2>2, <2>3, <2>4, <2>5, <2>6, <2>7, <2>8, <2>9, <2>10, <2>11, <2>12, <2>13
       DEF Next
<1> QED BY <1>1, <1>2, PTL DEF Spec

\* The variables of target_flash.c keep their types: in particular the loop over the
\* regions leaves no algorithm that is not one.
THEOREM TypeCorrect == Spec => []TypeOK
<1>1. IInv => TypeOK
  BY DEF IInv, TypeInv, TypeOK, SessionType
<1> QED BY <1>1, Invariance, PTL

\* A function of an algorithm runs only on the algorithm that is in RAM, initialised for it;
\* second chunks are the exception, and only where an algorithm is initialised for each
\* function, verifies and has a buffer smaller than a block.
THEOREM AlgorithmAlwaysReady == Spec => []AlgorithmReady
<1>1. IInv => AlgorithmReady
  BY DEF IInv, AlgorithmInv, Sound, AlgorithmReady
<1> QED BY <1>1, Invariance, PTL

\* target_flash_busy holds during a session nobody interfered with, and after one only if
\* closing the interface failed.
THEOREM BusyTellsTrue == Spec => []BusyTells
<1>1. IInv => BusyTells
  BY DEF IInv
<1> QED BY <1>1, Invariance, PTL

\* A session that ends as a success left every block it verified written, whoever reset
\* the target under it, unless somebody else erased.
THEOREM SuccessesWritten == Spec => SuccessIsWritten
<1>1. IInv /\ [Next]_vars =>
        [session.at = "open" /\ session'.at = "none" /\ ~m'.unclosed =>
           \/ session.erased
           \/ \A r \in session.verified : m.flash[r] = "new"]_vars
  BY DEF IInv, WrittenInv
<1> QED BY <1>1, Invariance, PTL DEF Spec, SuccessIsWritten
=============================================================================
