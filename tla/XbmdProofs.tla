----------------------------- MODULE XbmdProofs -----------------------------
(***************************************************************************)
(* The Linux driver and the application: what the kernel holds for the     *)
(* driver, and what the application shows.                                 *)
(***************************************************************************)
EXTENDS XbmdApp, TLAPS

(***************************************************************************)
(* What the kernel holds for the Linux driver, for every set of resources  *)
(* that may be refused, any number of loads and unloads, and whatever the  *)
(* program and the device do in between.                                   *)
(***************************************************************************)

Flags == {"region", "irq", "chrdev"}

(* The resources of the steps before n.                                    *)
Before(order, n) == {r \in Resources : \E i \in 1..(n - 1) : order[i] = r}

(* What is held follows from the step, and so do the flags.  A failed load *)
(* leaves the region behind unless it failed before it; with the region    *)
(* left no later load gets beyond the second step.                         *)
LoadInv ==
  /\ phase = "init" =>
       /\ at \in 1..8
       /\ held = Before(InitOrder, at) /\ gStatFlags = held \cap Flags
       /\ at > 2 => left \subseteq {"registers"}
  /\ left \subseteq {"registers"} \/ "region" \in left

ExitInv ==
  /\ phase \in {"up", "exit"} => gStatFlags = Flags /\ left \subseteq {"registers"}
  /\ phase = "up" => held = Resources
  /\ phase = "exit" => held = Resources \ Before(ExitOrder, at)
  /\ phase = "absent" => held \subseteq {"device"}

IInv == DriverTypeOK /\ LoadInv /\ ExitInv

(* The two orders, entry by entry.                                         *)
LEMMA InitOrderFacts ==
  /\ Len(InitOrder) = 7
  /\ InitOrder[1] = "registers" /\ InitOrder[2] = "region" /\ InitOrder[3] = "irq"
  /\ InitOrder[4] = "device" /\ InitOrder[5] = "readbuf" /\ InitOrder[6] = "writebuf"
  /\ InitOrder[7] = "chrdev"
BY DEF InitOrder

LEMMA ExitOrderFacts ==
  /\ Len(ExitOrder) = 8
  /\ ExitOrder[1] = "region" /\ ExitOrder[2] = "irq" /\ ExitOrder[3] = "readbuf"
  /\ ExitOrder[4] = "writebuf" /\ ExitOrder[5] = "readbuf" /\ ExitOrder[6] = "writebuf"
  /\ ExitOrder[7] = "registers" /\ ExitOrder[8] = "chrdev"
BY DEF ExitOrder

(* One more step is one more resource.                                     *)
LEMMA BeforeNext ==
  ASSUME NEW order, NEW n \in Nat \ {0}, order[n] \in Resources
  PROVE  Before(order, n + 1) = Before(order, n) \cup {order[n]}
<1>1. 1..((n + 1) - 1) = (1..(n - 1)) \cup {n}
  OBVIOUS
<1> QED BY <1>1 DEF Before

LEMMA BeforeFirst ==
  ASSUME NEW order PROVE Before(order, 1) = {}
<1>1. 1..(1 - 1) = {}
  OBVIOUS
<1> QED BY <1>1 DEF Before

(* After its last step init has everything, and exit has given back all    *)
(* but the device.                                                         *)
LEMMA BeforeInitDone == Before(InitOrder, 8) = Resources
<1>1. 1..(8 - 1) = {1, 2, 3, 4, 5, 6, 7}
  OBVIOUS
<1> QED BY <1>1, InitOrderFacts DEF Before, Resources

LEMMA BeforeExitDone == Before(ExitOrder, 9) = Resources \ {"device"}
<1>1. 1..(9 - 1) = {1, 2, 3, 4, 5, 6, 7, 8}
  OBVIOUS
<1> QED BY <1>1, ExitOrderFacts DEF Before, Resources

LEMMA InitOrderType ==
  ASSUME NEW n \in 1..7 PROVE InitOrder[n] \in Resources
BY InitOrderFacts DEF Resources

LEMMA ExitOrderType ==
  ASSUME NEW n \in 1..8 PROVE ExitOrder[n] \in Resources
BY ExitOrderFacts DEF Resources

(* The order of both: registers before the interrupt when loading, after   *)
(* it when unloading.                                                      *)
LEMMA IrqInInit ==
  ASSUME NEW n \in 1..8, "irq" \in Before(InitOrder, n)
  PROVE  "registers" \in Before(InitOrder, n) /\ n > 2
<1> PICK i \in 1..(n - 1) : InitOrder[i] = "irq"
  BY DEF Before
<1>1. i = 3
  BY InitOrderFacts
<1>2. 1 \in 1..(n - 1)
  BY <1>1
<1> QED BY <1>1, <1>2, InitOrderFacts DEF Before, Resources

LEMMA RegistersInExit ==
  ASSUME NEW n \in 1..9, "registers" \in Before(ExitOrder, n)
  PROVE  "irq" \in Before(ExitOrder, n)
<1> PICK i \in 1..(n - 1) : ExitOrder[i] = "registers"
  BY DEF Before
<1>1. i = 7
  BY ExitOrderFacts
<1>2. 2 \in 1..(n - 1)
  BY <1>1
<1> QED BY <1>2, ExitOrderFacts DEF Before, Resources
-----------------------------------------------------------------------------
LEMMA DriverStart == ASSUME DriverInit PROVE IInv
BY DEF DriverInit, IInv, DriverTypeOK, LoadInv, ExitInv

LEMMA AcquireStep == ASSUME IInv, Acquire PROVE IInv'
<1> USE DEF IInv
<1> DEFINE r == InitOrder[at]
<1>1. at \in 1..7 /\ at' = at + 1 /\ phase = "init" /\ phase' = "init" /\ left' = left
  BY InitOrderFacts DEF Acquire
<1>2. r \in Resources
  BY <1>1, InitOrderType
<1>3. held' = held \cup {r} /\ gStatFlags' = gStatFlags \cup FlagOf(r)
  BY DEF Acquire
<1>4. DriverTypeOK'
  BY <1>1, <1>2, <1>3 DEF DriverTypeOK, FlagOf
<1>5. held' = Before(InitOrder, at')
  BY <1>1, <1>2, <1>3, BeforeNext DEF LoadInv
<1>6. gStatFlags' = held' \cap Flags
  BY <1>1, <1>3 DEF LoadInv, FlagOf, Flags
<1>7. ASSUME at' > 2 PROVE left' \subseteq {"registers"}
  <2>1. CASE at > 2
    BY <1>1, <2>1 DEF LoadInv
  <2>2. CASE at = 2
    BY <1>1, <2>2, InitOrderFacts DEF Acquire, LoadInv
  <2> QED BY <1>1, <1>7, <2>1, <2>2
<1>8. LoadInv'
  BY <1>1, <1>5, <1>6, <1>7 DEF LoadInv
<1>9. ExitInv'
  BY <1>1 DEF ExitInv
<1> QED BY <1>4, <1>8, <1>9

LEMMA InitFailsStep == ASSUME IInv, InitFails PROVE IInv'
<1> USE DEF IInv
<1>1. /\ phase = "init" /\ at \in 1..7
      /\ phase' = "absent" /\ at' = 1
      /\ left' = left \cup held /\ held' = {} /\ gStatFlags' = {}
  BY InitOrderFacts DEF InitFails
<1>2. DriverTypeOK'
  BY <1>1 DEF DriverTypeOK
<1>3. left' \subseteq {"registers"} \/ "region" \in left'
  <2>1. held \subseteq {"registers"} \/ "region" \in held
    <3>1. CASE at > 2
      <4>1. 2 \in 1..(at - 1)
        BY <1>1, <3>1
      <4> QED BY <1>1, <4>1, InitOrderFacts DEF LoadInv, Before, Resources
    <3>2. CASE at <= 2
      <4>1. 1..(at - 1) \subseteq {1}
        BY <1>1, <3>2
      <4> QED BY <1>1, <4>1, InitOrderFacts DEF LoadInv, Before
    <3> QED BY <1>1, <3>1, <3>2
  <2> QED BY <1>1, <2>1 DEF LoadInv
<1>4. LoadInv' /\ ExitInv'
  BY <1>1, <1>3 DEF LoadInv, ExitInv
<1> QED BY <1>2, <1>4

LEMMA InitDoneStep == ASSUME IInv, InitDone PROVE IInv'
<1> USE DEF IInv
<1>1. /\ phase = "init" /\ at = 8 /\ phase' = "up"
      /\ at' = at /\ held' = held /\ left' = left /\ gStatFlags' = gStatFlags
  BY InitOrderFacts DEF InitDone
<1>2. DriverTypeOK' /\ LoadInv'
  BY <1>1 DEF DriverTypeOK, LoadInv
<1>3. held = Resources /\ gStatFlags = Flags /\ left \subseteq {"registers"}
  BY <1>1, BeforeInitDone DEF LoadInv, Flags, Resources
<1>4. ExitInv'
  BY <1>1, <1>3 DEF ExitInv
<1> QED BY <1>2, <1>4

LEMMA ReleaseStep == ASSUME IInv, Release PROVE IInv'
<1> USE DEF IInv
<1> DEFINE r == ExitOrder[at]
<1>1. /\ at \in 1..8 /\ at' = at + 1 /\ phase = "exit" /\ phase' = "exit"
      /\ left' = left /\ gStatFlags' = gStatFlags
  BY ExitOrderFacts DEF Release
<1>2. r \in Resources /\ FlagOf(r) \subseteq gStatFlags
  BY <1>1, ExitOrderType DEF ExitInv, FlagOf, Flags
<1>3. held' = held \ {r}
  BY <1>2 DEF Release
<1>4. held' = Resources \ Before(ExitOrder, at')
  BY <1>1, <1>2, <1>3, BeforeNext DEF ExitInv
<1>5. DriverTypeOK'
  BY <1>1, <1>3 DEF DriverTypeOK
<1> QED BY <1>1, <1>4, <1>5 DEF LoadInv, ExitInv

LEMMA ExitDoneStep == ASSUME IInv, ExitDone PROVE IInv'
<1> USE DEF IInv
<1>1. /\ phase = "exit" /\ at = 9 /\ phase' = "absent" /\ at' = 1
      /\ gStatFlags' = {} /\ held' = held /\ left' = left
  BY ExitOrderFacts DEF ExitDone
<1>2. held' \subseteq {"device"}
  BY <1>1, BeforeExitDone DEF ExitInv
<1> QED BY <1>1, <1>2 DEF DriverTypeOK, LoadInv, ExitInv

(* Every step of the driver keeps the invariant.                           *)
LEMMA DriverStep == ASSUME IInv, [DriverNext]_driverVars PROVE IInv'
<1>1. CASE Insmod
  BY <1>1, BeforeFirst DEF Insmod, IInv, DriverTypeOK, LoadInv, ExitInv
<1>2. CASE Rmmod
  BY <1>2, BeforeFirst DEF Rmmod, IInv, DriverTypeOK, LoadInv, ExitInv
<1>3. CASE UNCHANGED driverVars
  BY <1>3 DEF driverVars, IInv, DriverTypeOK, LoadInv, ExitInv
<1> QED BY <1>1, <1>2, <1>3, AcquireStep, InitFailsStep, InitDoneStep, ReleaseStep,
           ExitDoneStep DEF DriverNext

(* What the invariant says of the properties the run checks.               *)
LEMMA Consequence == ASSUME IInv PROVE DriverInv
<1> USE DEF IInv
<1>1. HandlerIsMapped
  <2> SUFFICES ASSUME "irq" \in held PROVE "registers" \in held
    BY DEF HandlerIsMapped
  <2>1. CASE phase = "init"
    BY <2>1, IrqInInit DEF LoadInv
  <2>2. CASE phase = "exit"
    BY <2>2, RegistersInExit DEF ExitInv, DriverTypeOK, Resources
  <2>3. CASE phase \in {"up", "absent"}
    BY <2>3 DEF ExitInv, Resources
  <2> QED BY <2>1, <2>2, <2>3 DEF DriverTypeOK
<1> QED BY <1>1 DEF DriverInv, LoadedOwnsAll, UnloadReleasesAll, ExitInv

(* A load that fails at any step, any number of loads and unloads before   *)
(* it: the interrupt handler never finds its registers unmapped, a module  *)
(* that is up owns everything, and an unload gives all but the device back.*)
THEOREM DriverCorrect == DriverSpec => []DriverInv
<1>1. DriverInit => IInv
  BY DriverStart
<1>2. IInv /\ [DriverNext]_driverVars => IInv'
  BY DriverStep
<1>3. IInv => DriverInv
  BY Consequence
<1> QED BY <1>1, <1>2, <1>3, PTL DEF DriverSpec
-----------------------------------------------------------------------------
(* The program, the user and the device leave the driver's resources alone.*)
LEMMA ProgramKeepsDriver ==
  ASSUME ProgramStep \/ User \/ DeviceWrite \/ DeviceRead PROVE UNCHANGED driverVars
<1> USE DEF outside
<1>1. CASE DeviceWrite \/ DeviceRead
  BY <1>1 DEF DeviceWrite, DeviceRead
<1>2. CASE User
  BY <1>2 DEF User, Open, Change, on_checkbox_toggled, on_run_count_value_changed,
     on_wr_size_changed, on_pattern_entry_changed, on_start_button_clicked,
     on_main_window_destroy
<1>3. CASE ProgramStep
  BY <1>3 DEF ProgramStep, GetCapabilities, UpdateRegs, CheckSpeed, VerifyLink, NothingSelected,
     NextIteration, Setup, WriteData, InitiatorReset, SetRegisters, StartDMA, Usleep,
     ReadStatus, Judge, ShowFailure, AfterIteration, Display, Quit
<1> QED BY <1>1, <1>2, <1>3

(* The composition does to the resources only what the driver does.        *)
LEMMA ComposedStep == ASSUME [Next]_vars PROVE [DriverNext]_driverVars
<1>1. CASE Load \/ InitCard \/ Unload
  BY <1>1 DEF Load, InitCard, Unload, DriverNext
<1>2. CASE UNCHANGED vars
  BY <1>2 DEF vars, outside
<1> QED BY <1>1, <1>2, ProgramKeepsDriver DEF Next

(* Program, driver and device together implement the driver alone ...      *)
THEOREM ImplementsDriver == Spec => DriverSpec
<1>1. Init => DriverInit
  BY DEF Init
<1>2. [Next]_vars => [DriverNext]_driverVars
  BY ComposedStep
<1> QED BY <1>1, <1>2, PTL DEF Spec, DriverSpec

(* ... so whatever the program and the device do, for every list of boards *)
(* and every set of resources that may be refused, what the kernel holds   *)
(* for the module is right at every step.                                  *)
THEOREM ResourcesCorrect == Spec => []DriverInv
BY ImplementsDriver, DriverCorrect, PTL
-----------------------------------------------------------------------------
(***************************************************************************)
(* What the Linux application shows is what the device did, for every      *)
(* number and length of transfers, every list of boards and every set of   *)
(* resources that may be refused.                                          *)
(***************************************************************************)

(* The program is in the handler of the start button.                      *)
InRun == {"iter", "setup", "fill", "reset", "program", "start", "wait", "status",
          "judge", "failed", "next", "results"}
Starting == {"none", "caps", "update"}

(* The results of an iteration are in the bmd_t object.                    *)
Judged == pc \in {"failed", "next", "results"} \/ (pc = "iter" /\ ii > 0)

(* The device counts to its length, and is still from a reset to a start.  *)
Progress ==
  /\ dev["write"] = "running" => moved < regLen
  /\ dev["write"] = "done" => moved = regLen
  /\ pc \in {"program", "start"} => dev = [d \in Dirs |-> "idle"] /\ moved = 0

(* What the user has chosen stays during a run, and a run counts.          *)
Counting ==
  /\ bytes = size
  /\ pc \in InRun => enable # {} /\ text = [d \in Dirs |-> " "] /\ ii <= num_iter
  /\ pc \in InRun \ {"iter", "results"} => ii < num_iter
  /\ pc \notin InRun => ii = 0
  /\ pc \in InRun \ {"failed", "next", "results"} => mbps <= ii
  /\ pc \in {"failed", "next"} => mbps <= ii + 1
  /\ pc = "results" => mbps <= num_iter

(* The GUI serves events from the first redraw on.                         *)
Homed == home = "none" <=> pc \in Starting
Linked == LinkIsReal /\ Homed

(* Without an assumption on the environment.                               *)
ProgramInv == TypeOK /\ Progress /\ Counting /\ Linked

(* The module stays while the file is open or the device is running: a     *)
(* failed load leaves no device file behind.                               *)
Owned ==
  /\ IInv /\ "chrdev" \notin left
  /\ phase # "up" => pc = "none" /\ Running = {}
  /\ phase = "up" => addr = "ours"

(* A result is one of this process, and after an iteration one of this run.*)
Resulting ==
  /\ pc \in Starting \/ offsets # "copied" => result = [d \in Dirs |-> " "]
  /\ pc \in {"fill", "reset", "program", "start", "wait", "status", "judge"}
       => offsets = "copied"
  /\ Judged => \A d \in enable : result[d] = "success" => d \in seen
  /\ pc = "iter" /\ ii > 0 => \A d \in enable : result[d] = "success"

(* From the registers on, the device has this run's lengths and patterns.  *)
Finished == Judged /\ offsets = "copied"
Writable == board.pattern = "any" \/ ToNumber(pattern["write"]) = "own"
Programmed == pc \in {"start", "wait", "status", "judge"} \/ Finished
Transferred ==
  /\ pc \in {"reset", "program"} \/ Programmed
       => gReadBuffer = ToNumber(pattern["read"])
  /\ Programmed =>
       /\ regLen = size /\ regPat["read"] = ToNumber(pattern["read"])
       /\ Writable => regPat["write"] = ToNumber(pattern["write"])
       /\ \A j \in 1..moved : gWriteBuffer[j] = regPat["write"]
  /\ pc = "program" \/ Programmed => "dataerror" \in Env \/ ~dataError
  /\ pc = "judge" \/ Finished => \A d \in seen : dev[d] = "done"
  /\ Finished /\ "write" \in enable /\ result["write"] = "success"
       => \A j \in 1..size : gWriteBuffer[j] = ToNumber(pattern["write"])

-----------------------------------------------------------------------------
LEMMA NumberType ==
  ASSUME NEW p PROVE ValidPattern(p) /\ p \in Patterns \cup {"bad"} => ToNumber(p) \in Numbers
BY DEF ToNumber, Numbers, ValidPattern

(* The type invariant, part by part.                                       *)
GuiTypes ==
  /\ pc \in Places /\ window \in BOOLEAN /\ start \in BOOLEAN /\ rest \in BOOLEAN
  /\ enable \subseteq Dirs /\ pattern \in [Dirs -> Patterns \cup {"bad"}]
  /\ home \in {"none", "width", "speed", "idle"} /\ quit \in BOOLEAN
  /\ size \in 1..MaxSize /\ num_iter \in 1..MaxIter
  /\ text \in [Dirs -> Results] /\ bytes \in 1..MaxSize /\ changes \in 0..MaxChanges

RunTypes ==
  /\ offsets \in {"zero", "found", "copied"} /\ link \in [width : 0..16, speed : 0..7]
  /\ ii \in 0..MaxIter /\ rc \in BOOLEAN /\ seen \subseteq Dirs
  /\ result \in [Dirs -> Results] /\ mbps \in 0..MaxIter /\ board \in Boards

DeviceTypes ==
  /\ gWriteBuffer \in [1..MaxSize -> Numbers] /\ gReadBuffer \in Numbers
  /\ addr \in {"none", "ours", "old"} /\ regLen \in 1..MaxSize
  /\ regPat \in [Dirs -> Numbers] /\ dev \in [Dirs -> {"idle", "running", "done"}]
  /\ moved \in 0..MaxSize /\ dataError \in BOOLEAN

LEMMA TypeParts == TypeOK <=> DriverTypeOK /\ GuiTypes /\ RunTypes /\ DeviceTypes
BY DEF TypeOK, GuiTypes, RunTypes, DeviceTypes

LEMMA Bounds ==
  /\ 1 \in 1..MaxSize /\ 1 \in 1..MaxIter
  /\ 0 \in 0..MaxSize /\ 0 \in 0..MaxIter /\ 0 \in 0..MaxChanges
BY BoundAssumption

LEMMA ProgramStart == ASSUME Init PROVE ProgramInv
<1>1. DriverTypeOK
  <2>1. DriverInit
    BY DEF Init
  <2> QED BY <2>1 DEF DriverInit, DriverTypeOK
<1>2. GuiTypes
  <2>1. /\ pc = "none" /\ window = TRUE /\ start = TRUE /\ rest = TRUE /\ enable = {}
        /\ home = "none" /\ quit = FALSE
        /\ pattern = [d \in Dirs |-> "own"] /\ text = [d \in Dirs |-> " "]
        /\ size = 1 /\ num_iter = 1 /\ bytes = 1 /\ changes = 0
    BY DEF Init
  <2>2. pattern \in [Dirs -> Patterns \cup {"bad"}] /\ text \in [Dirs -> Results]
    BY <2>1 DEF Patterns, Results
  <2>3. size \in 1..MaxSize /\ num_iter \in 1..MaxIter /\ bytes \in 1..MaxSize
        /\ changes \in 0..MaxChanges
    BY <2>1, Bounds, Zenon
  <2>4. /\ window \in BOOLEAN /\ start \in BOOLEAN /\ rest \in BOOLEAN /\ pc \in Places
        /\ home \in {"none", "width", "speed", "idle"} /\ quit \in BOOLEAN
    BY <2>1, Zenon DEF Places
  <2> QED BY <2>1, <2>2, <2>3, <2>4 DEF GuiTypes
<1>3. RunTypes
  <2>1. /\ offsets = "zero" /\ link = [width |-> 0, speed |-> 0] /\ ii = 0 /\ rc = FALSE
        /\ seen = {} /\ result = [d \in Dirs |-> " "] /\ mbps = 0 /\ board \in Boards
    BY DEF Init
  <2>2. link \in [width : 0..16, speed : 0..7]
    <3>1. 0 \in 0..16 /\ 0 \in 0..7
      OBVIOUS
    <3> QED BY <2>1, <3>1, Zenon
  <2>3. result \in [Dirs -> Results]
    BY <2>1 DEF Results
  <2>4. ii \in 0..MaxIter /\ mbps \in 0..MaxIter
    BY <2>1, Bounds, Zenon
  <2> QED BY <2>1, <2>2, <2>3, <2>4, Zenon DEF RunTypes
<1>4. DeviceTypes
  <2>1. /\ gWriteBuffer = [j \in 1..MaxSize |-> "zero"] /\ gReadBuffer = "zero"
        /\ addr = "none" /\ regLen = 1 /\ moved = 0 /\ dataError = FALSE
        /\ regPat = [d \in Dirs |-> "zero"] /\ dev = [d \in Dirs |-> "idle"]
    BY DEF Init
  <2>2. gWriteBuffer \in [1..MaxSize -> Numbers]
    BY <2>1 DEF Numbers
  <2>3. regPat \in [Dirs -> Numbers] /\ dev \in [Dirs -> {"idle", "running", "done"}]
    BY <2>1 DEF Numbers
  <2>4. regLen \in 1..MaxSize /\ moved \in 0..MaxSize
    BY <2>1, Bounds, Zenon
  <2> QED BY <2>1, <2>2, <2>3, <2>4, Zenon DEF DeviceTypes, Numbers
<1>5. Progress
  BY DEF Init, Progress, Dirs
<1>6. Counting
  BY DEF Init, Counting, InRun
<1>7. Linked
  BY DEF Init, Linked, Homed, LinkIsReal, Starting
<1> QED BY <1>1, <1>2, <1>3, <1>4, <1>5, <1>6, <1>7, TypeParts DEF ProgramInv

(* Steps of the module and of the device.                                  *)
LEMMA GuiUnchanged == ASSUME GuiTypes, UNCHANGED <<pc, gui>> PROVE GuiTypes'
BY DEF GuiTypes, gui, choice

LEMMA RunUnchanged == ASSUME RunTypes, UNCHANGED <<cfg, run, board>> PROVE RunTypes'
BY DEF RunTypes, cfg, run

LEMMA DeviceUnchanged ==
  ASSUME DeviceTypes, UNCHANGED <<buffers, regs, device>> PROVE DeviceTypes'
BY DEF DeviceTypes, buffers, regs, device

LEMMA DirFunctions ==
  ASSUME NEW f, NEW S, f \in [Dirs -> S] PROVE f["read"] \in S /\ f["write"] \in S
BY DEF Dirs

LEMMA InitCardTypes == ASSUME DeviceTypes, InitCard PROVE DeviceTypes'
<1>1. regPat' \in [Dirs -> Numbers]
  <2> DEFINE p == [d \in Dirs |-> IF d = "write" THEN "zero" ELSE "other"]
  <2>1. p \in [Dirs -> Numbers] /\ [p EXCEPT !["write"] = "own"] \in [Dirs -> Numbers]
    BY DEF Numbers, Patterns
  <2> HIDE DEF p
  <2>2. regPat' = PatternRegisters(p)
    BY DEF InitCard, p
  <2> QED BY <2>1, <2>2 DEF PatternRegisters
<1>2. dev' \in [Dirs -> {"idle", "running", "done"}]
  BY DEF InitCard
<1>3. /\ addr' = "ours" /\ regLen' = MaxSize /\ moved' = 0 /\ dataError' = FALSE
      /\ gWriteBuffer' = gWriteBuffer /\ gReadBuffer' = gReadBuffer
  BY DEF InitCard, buffers
<1>4. regLen' \in 1..MaxSize /\ moved' \in 0..MaxSize
  BY <1>3, BoundAssumption
<1> QED BY <1>1, <1>2, <1>3, <1>4, Zenon DEF DeviceTypes

LEMMA UnloadTypes == ASSUME DeviceTypes, Unload PROVE DeviceTypes'
<1>1. gWriteBuffer' \in [1..MaxSize -> Numbers]
  BY DEF Unload, Numbers
<1> QED BY <1>1 DEF Unload, DeviceTypes, Numbers, device

LEMMA DeviceWriteTypes == ASSUME DeviceTypes, Progress, DeviceWrite PROVE DeviceTypes'
<1> USE DEF DeviceWrite, DeviceTypes
<1>1. moved \in 0..MaxSize /\ regLen \in 1..MaxSize /\ moved < regLen /\ MaxSize \in Nat
  BY BoundAssumption DEF Progress
<1>2. moved + 1 \in 1..MaxSize
  BY <1>1
<1>3. regPat["write"] \in Numbers
  BY DirFunctions
<1>4. gWriteBuffer' \in [1..MaxSize -> Numbers]
  BY <1>2, <1>3
<1>5. dev' \in [Dirs -> {"idle", "running", "done"}]
  OBVIOUS
<1> QED BY <1>2, <1>4, <1>5 DEF regs

LEMMA DeviceReadTypes == ASSUME DeviceTypes, DeviceRead PROVE DeviceTypes'
<1>1. dataError' \in BOOLEAN
  BY DEF DeviceRead
<1>2. dev' \in [Dirs -> {"idle", "running", "done"}]
  BY DEF DeviceTypes, DeviceRead
<1> QED BY <1>1, <1>2 DEF DeviceTypes, DeviceRead, buffers, regs

(* The program between two of its calls.                                   *)
Silent == Load \/ InitCard \/ Unload \/ DeviceWrite \/ DeviceRead
Calling ==
  \/ GetCapabilities \/ UpdateRegs \/ CheckSpeed \/ NextIteration \/ Setup \/ WriteData
  \/ InitiatorReset \/ SetRegisters \/ StartDMA \/ Usleep \/ ReadStatus \/ Judge
  \/ ShowFailure \/ AfterIteration
Handling ==
  \/ on_run_count_value_changed \/ on_wr_size_changed
  \/ \E d \in Dirs : on_checkbox_toggled(d) \/ on_pattern_entry_changed(d)

LEMMA Steps ==
  Next <=> \/ Silent \/ Calling \/ Handling \/ Open \/ VerifyLink \/ Quit
           \/ on_start_button_clicked \/ on_main_window_destroy \/ NothingSelected
           \/ Display
BY DEF Next, User, ProgramStep, Silent, Calling, Handling

LEMMA SilentKeeps == ASSUME Silent PROVE UNCHANGED <<pc, gui, cfg, run, board>>
BY DEF Silent, Load, InitCard, Unload, DeviceWrite, DeviceRead

LEMMA CallingKeeps ==
  ASSUME GuiTypes, Calling
  PROVE  /\ UNCHANGED <<driverVars, window, quit, choice, text, board>> /\ pc' \in Places
         /\ start' \in BOOLEAN /\ rest' \in BOOLEAN
         /\ home' \in {"none", "width", "speed", "idle"}
<1> USE DEF outside, gui, GuiTypes
<1>1. CASE GetCapabilities \/ NextIteration \/ Setup
  BY <1>1 DEF GetCapabilities, NextIteration, Setup, Places
<1>4. CASE UpdateRegs \/ CheckSpeed
  BY <1>4 DEF UpdateRegs, CheckSpeed, WidthMatches, SpeedMatches, Places
<1>2. CASE WriteData \/ InitiatorReset \/ SetRegisters \/ StartDMA
  BY <1>2 DEF WriteData, InitiatorReset, SetRegisters, StartDMA, Places
<1>3. CASE Usleep \/ ReadStatus \/ Judge \/ ShowFailure \/ AfterIteration
  BY <1>3 DEF Usleep, ReadStatus, Judge, ShowFailure, AfterIteration, Places
<1> QED BY <1>1, <1>2, <1>3, <1>4 DEF Calling

LEMMA HandlingKeeps ==
  ASSUME Handling
  PROVE  /\ pc = home /\ pc # "none"
         /\ UNCHANGED <<pc, window, rest, home, quit, run, outside>>
BY DEF Handling, on_run_count_value_changed, on_wr_size_changed, on_checkbox_toggled,
   on_pattern_entry_changed, Change, Idle

LEMMA FreshTypes == ASSUME Fresh, pc' \in Places PROVE GuiTypes'
<1>1. /\ window' = TRUE /\ start' = TRUE /\ rest' = TRUE /\ enable' = {}
      /\ home' = "none" /\ quit' = FALSE
      /\ pattern' = [d \in Dirs |-> "own"] /\ text' = [d \in Dirs |-> " "]
      /\ size' = 1 /\ num_iter' = 1 /\ bytes' = 1 /\ changes' = 0
  BY DEF Fresh
<1>2. pattern' \in [Dirs -> Patterns \cup {"bad"}] /\ text' \in [Dirs -> Results]
  BY <1>1 DEF Patterns, Results
<1>3. size' \in 1..MaxSize /\ num_iter' \in 1..MaxIter /\ bytes' \in 1..MaxSize
      /\ changes' \in 0..MaxChanges
  BY <1>1, Bounds, Zenon
<1>4. /\ window' \in BOOLEAN /\ start' \in BOOLEAN /\ rest' \in BOOLEAN
      /\ home' \in {"none", "width", "speed", "idle"} /\ quit' \in BOOLEAN
  BY <1>1, Zenon
<1> QED BY <1>1, <1>2, <1>3, <1>4 DEF GuiTypes

LEMMA HandlingTypes == ASSUME GuiTypes, Handling PROVE GuiTypes'
<1>1. changes' \in 0..MaxChanges
  <2>1. changes < MaxChanges /\ changes' = changes + 1
    BY DEF Handling, on_run_count_value_changed, on_wr_size_changed,
       on_checkbox_toggled, on_pattern_entry_changed, Change
  <2> QED BY <2>1, BoundAssumption DEF GuiTypes
<1>2. UNCHANGED <<pc, window, rest, home, quit>>
  BY HandlingKeeps
<1>3. CASE on_run_count_value_changed
  BY <1>1, <1>2, <1>3 DEF GuiTypes, on_run_count_value_changed
<1>4. CASE on_wr_size_changed
  BY <1>1, <1>2, <1>4 DEF GuiTypes, on_wr_size_changed
<1>5. ASSUME NEW d \in Dirs, on_checkbox_toggled(d) PROVE GuiTypes'
  <2>1. enable' \subseteq Dirs
    BY <1>5 DEF GuiTypes, on_checkbox_toggled
  <2> QED BY <1>1, <1>2, <1>5, <2>1 DEF GuiTypes, on_checkbox_toggled
<1>6. ASSUME NEW d \in Dirs, on_pattern_entry_changed(d) PROVE GuiTypes'
  <2>1. PICK p \in Patterns \cup {"bad"} :
          pattern' = [pattern EXCEPT ![d] = p] /\ start' = ValidPattern(p)
    BY <1>6 DEF on_pattern_entry_changed
  <2>2. pattern' \in [Dirs -> Patterns \cup {"bad"}] /\ start' \in BOOLEAN
    BY <2>1 DEF GuiTypes, ValidPattern
  <2>3. text' = [text EXCEPT ![d] = " "] /\ UNCHANGED <<enable, size, bytes, num_iter>>
    BY <1>6 DEF on_pattern_entry_changed
  <2>4. text' \in [Dirs -> Results]
    BY <2>3 DEF GuiTypes, Results
  <2> QED BY <1>1, <1>2, <2>2, <2>3, <2>4 DEF GuiTypes
<1> QED BY <1>3, <1>4, <1>5, <1>6 DEF Handling

LEMMA GuiStep == ASSUME GuiTypes, RunTypes, Next PROVE GuiTypes'
<1>1. CASE Silent
  BY <1>1, SilentKeeps, GuiUnchanged
<1>2. CASE Calling
  BY <1>2, CallingKeeps DEF choice, GuiTypes
<1>3. CASE Open \/ NothingSelected
  BY <1>3 DEF Open, NothingSelected, gui, choice, GuiTypes, Places
<1>4. CASE VerifyLink
  <2>1. CASE LinkStatus.speed \notin {1, 2}
    BY <1>4, <2>1, FreshTypes DEF VerifyLink, Places
  <2>2. CASE LinkStatus.speed \in {1, 2}
    BY <1>4, <2>2 DEF VerifyLink, choice, GuiTypes, Places
  <2> QED BY <2>1, <2>2
<1>5. CASE Quit
  BY <1>5, FreshTypes DEF Quit, Places
<1>6. CASE on_start_button_clicked
  <2>1. text' \in [Dirs -> Results]
    BY <1>6 DEF on_start_button_clicked, EraseOldResults, GuiTypes, Results
  <2> QED BY <1>6, <2>1 DEF on_start_button_clicked, choice, GuiTypes, Places
<1>7. CASE on_main_window_destroy
  BY <1>7 DEF on_main_window_destroy, choice, GuiTypes
<1>8. CASE Display
  <2>1. text' \in [Dirs -> Results]
    BY <1>8 DEF Display, GuiTypes, RunTypes
  <2> QED BY <1>8, <2>1 DEF Display, choice, GuiTypes, Places
<1> QED BY <1>1, <1>2, <1>3, <1>4, <1>5, <1>6, <1>7, <1>8, HandlingTypes, Steps

LEMMA FreshRunTypes == ASSUME Fresh, board' = board, RunTypes PROVE RunTypes'
<1>1. /\ offsets' = "zero" /\ link' = [width |-> 0, speed |-> 0] /\ ii' = 0 /\ rc' = FALSE
      /\ seen' = {} /\ result' = [d \in Dirs |-> " "] /\ mbps' = 0
  BY DEF Fresh
<1>2. link' \in [width : 0..16, speed : 0..7]
  <2>1. 0 \in 0..16 /\ 0 \in 0..7
    OBVIOUS
  <2> QED BY <1>1, <2>1, Zenon
<1>3. result' \in [Dirs -> Results]
  BY <1>1 DEF Results
<1>4. ii' \in 0..MaxIter /\ mbps' \in 0..MaxIter
  BY <1>1, Bounds, Zenon
<1> QED BY <1>1, <1>2, <1>3, <1>4, Zenon DEF RunTypes

LEMMA LinkType == ASSUME RunTypes PROVE LinkStatus \in [width : 0..16, speed : 0..7]
<1>1. board.width \in 0..16 /\ board.speed \in 0..7 /\ 0 \in 0..16 /\ 7 \in 0..7
  BY BoardAssumption DEF RunTypes
<1> QED BY <1>1, Zenon DEF LinkStatus

CountTypes ==
  /\ ii \in Nat /\ mbps \in Nat /\ MaxIter \in Nat
  /\ num_iter \in Nat /\ 1 <= num_iter /\ num_iter <= MaxIter
LEMMA CountTypesHold == ASSUME RunTypes, GuiTypes PROVE CountTypes
BY BoundAssumption DEF RunTypes, GuiTypes, CountTypes

LEMMA JudgeTypes == ASSUME RunTypes, GuiTypes, Counting, Judge PROVE RunTypes'
<1>1. result' \in [Dirs -> Results]
  BY DEF Judge, Verdict, RunTypes, Results
<1>2. rc' \in BOOLEAN
  BY DEF Judge
<1>3. mbps' \in 0..MaxIter
  <2>1. CountTypes
    BY CountTypesHold
  <2>2. mbps <= ii /\ ii < num_iter
    BY DEF Counting, Judge, InRun
  <2>3. mbps + 1 \in 0..MaxIter
    BY <2>1, <2>2 DEF CountTypes
  <2> QED BY <2>3 DEF Judge, RunTypes
<1>4. UNCHANGED <<cfg, ii, seen, board>>
  BY DEF Judge, outside
<1> QED BY <1>1, <1>2, <1>3, <1>4 DEF RunTypes, cfg

LEMMA CallingTypes == ASSUME RunTypes, GuiTypes, Counting, DeviceTypes, Calling PROVE RunTypes'
<1>1. CASE GetCapabilities
  BY <1>1 DEF GetCapabilities, RunTypes, run
<1>2. CASE UpdateRegs \/ CheckSpeed
  BY <1>2, RunUnchanged DEF UpdateRegs, CheckSpeed
<1>3. CASE NextIteration \/ Usleep \/ ShowFailure
  BY <1>3, RunUnchanged DEF NextIteration, Usleep, ShowFailure, outside
<1>4. CASE WriteData \/ InitiatorReset \/ SetRegisters \/ StartDMA
  BY <1>4, RunUnchanged DEF WriteData, InitiatorReset, SetRegisters, StartDMA
<1>5. CASE Setup
  <2>1. rc' \in BOOLEAN
    BY <1>5 DEF Setup
  <2> QED BY <1>5, <2>1 DEF Setup, RunTypes, outside, cfg
<1>6. CASE ReadStatus
  <2>1. seen' \subseteq Dirs
    BY <1>6 DEF ReadStatus, XPCIe_Ioctl_Read
  <2> QED BY <1>6, <2>1 DEF ReadStatus, RunTypes, outside, cfg
<1>7. CASE AfterIteration
  <2>1. CountTypes /\ ii < num_iter
    BY <1>7, CountTypesHold DEF Counting, AfterIteration, InRun
  <2>2. ii + 1 \in 0..MaxIter
    BY <2>1 DEF CountTypes
  <2> QED BY <1>7, <2>2 DEF AfterIteration, RunTypes, outside, cfg, Inc
<1> QED BY <1>1, <1>2, <1>3, <1>4, <1>5, <1>6, <1>7, JudgeTypes DEF Calling

LEMMA RunStep == ASSUME RunTypes, GuiTypes, Counting, DeviceTypes, Next PROVE RunTypes'
<1>1. CASE Silent
  BY <1>1, SilentKeeps, RunUnchanged
<1>2. CASE Handling
  BY <1>2, HandlingKeeps, RunUnchanged DEF outside
<1>3. CASE Open \/ NothingSelected \/ on_main_window_destroy
  BY <1>3, RunUnchanged DEF Open, NothingSelected, on_main_window_destroy, outside
<1>4. CASE VerifyLink
  <2>1. CASE LinkStatus.speed \in {1, 2}
    BY <1>4, <2>1, LinkType DEF VerifyLink, RunTypes, run
  <2> QED BY <1>4, <2>1, FreshRunTypes DEF VerifyLink
<1>5. CASE Quit
  BY <1>5, FreshRunTypes DEF Quit
<1>6. CASE on_start_button_clicked
  <2>1. mbps' \in 0..MaxIter
    BY <1>6, Bounds DEF on_start_button_clicked, RunTypes, mbps_Reset
  <2> QED BY <1>6, <2>1 DEF on_start_button_clicked, RunTypes, outside, cfg
<1>7. CASE Display
  <2>1. ii' = 0 /\ rc' = FALSE /\ seen' = {} /\ UNCHANGED <<result, mbps, cfg, board>>
    BY <1>7 DEF Display, outside
  <2> QED BY <2>1, Bounds DEF RunTypes, cfg
<1> QED BY <1>1, <1>2, <1>3, <1>4, <1>5, <1>6, <1>7, CallingTypes, Steps

LEMMA DeviceStep == ASSUME GuiTypes, DeviceTypes, Progress, Next PROVE DeviceTypes'
<1>1. CASE Load
  BY <1>1, DeviceUnchanged DEF Load
<1>2. CASE Calling
  <2>1. CASE WriteData
    <3>1. ToNumber(pattern["read"]) \in Numbers
      BY NumberType, DirFunctions DEF GuiTypes, ToNumber, Numbers
    <3>2. gWriteBuffer' \in [1..MaxSize -> Numbers] /\ gReadBuffer' \in Numbers
      BY <2>1, <3>1 DEF WriteData, XPCIe_Write
    <3> QED BY <2>1, <3>2 DEF WriteData, DeviceTypes, regs, device
  <2>2. CASE InitiatorReset
    <3>1. /\ dev' \in [Dirs -> {"idle", "running", "done"}]
      BY <2>2 DEF InitiatorReset
    <3>2. moved' = 0 /\ dataError' = FALSE /\ UNCHANGED <<buffers, regs>>
      BY <2>2 DEF InitiatorReset
    <3> QED BY <3>1, <3>2, Bounds, Zenon DEF DeviceTypes, buffers, regs
  <2>3. CASE SetRegisters
    <3> DEFINE p == [d \in Dirs |-> ToNumber(pattern[d])]
    <3>1. \A d \in Dirs : ToNumber(pattern[d]) \in Numbers
      BY NumberType DEF GuiTypes, ToNumber, Numbers
    <3>2. p \in [Dirs -> Numbers] /\ "own" \in Numbers
      BY <3>1 DEF Numbers, Patterns
    <3>3. regPat' = PatternRegisters(p) /\ regLen' = size
          /\ UNCHANGED <<buffers, addr, device>>
      BY <2>3 DEF SetRegisters, XPCIe_Ioctl_Write
    <3> HIDE DEF p
    <3>4. regPat' \in [Dirs -> Numbers]
      BY <3>2, <3>3 DEF PatternRegisters
    <3> QED BY <3>3, <3>4 DEF DeviceTypes, GuiTypes, buffers, device
  <2>4. CASE StartDMA
    <3>1. dev' \in [Dirs -> {"idle", "running", "done"}]
      BY <2>4 DEF StartDMA, DeviceTypes
    <3> QED BY <2>4, <3>1 DEF StartDMA, DeviceTypes, buffers, regs
  <2>5. CASE GetCapabilities \/ UpdateRegs \/ CheckSpeed \/ NextIteration \/ Setup \/ Usleep
             \/ ReadStatus \/ Judge \/ ShowFailure \/ AfterIteration
    BY <2>5, DeviceUnchanged DEF GetCapabilities, UpdateRegs, CheckSpeed, NextIteration, Setup,
       Usleep, ReadStatus, Judge, ShowFailure, AfterIteration, outside
  <2> QED BY <1>2, <2>1, <2>2, <2>3, <2>4, <2>5 DEF Calling
<1>3. CASE Handling
  BY <1>3, HandlingKeeps, DeviceUnchanged DEF outside
<1>4. CASE Open \/ NothingSelected \/ on_main_window_destroy \/ on_start_button_clicked \/ Display
           \/ VerifyLink \/ Quit
  BY <1>4, DeviceUnchanged DEF Open, NothingSelected, on_main_window_destroy,
     on_start_button_clicked, Display, VerifyLink, Quit, outside
<1> QED BY <1>1, <1>2, <1>3, <1>4, InitCardTypes, UnloadTypes, DeviceWriteTypes,
           DeviceReadTypes, Steps DEF Silent

(* Wherever a step does not touch the device, it does not lead from        *)
(* elsewhere to the steps between the reset and the start.                 *)
LEMMA ProgressKept ==
  ASSUME Progress, UNCHANGED <<regLen, dev, moved>>,
         pc' = pc \/ pc' \notin {"program", "start"}
  PROVE  Progress'
BY DEF Progress

LEMMA ProgressStep == ASSUME DeviceTypes, Progress, GuiTypes, Next PROVE Progress'
<1>1. CASE Load \/ Unload
  BY <1>1, ProgressKept DEF Load, Unload, regs, device
<1>2. CASE InitCard
  <2>1. dev' = [d \in Dirs |-> "idle"] /\ moved' = 0
    BY <1>2 DEF InitCard
  <2> QED BY <2>1 DEF Progress, Dirs
<1>3. CASE DeviceWrite
  <2>1. moved \in Nat /\ regLen \in Nat /\ moved < regLen
    BY <1>3 DEF DeviceTypes, Progress, DeviceWrite
  <2>2. pc' = pc /\ dev["write"] = "running" /\ regLen' = regLen /\ moved' = moved + 1
        /\ dev'["write"] = IF moved' = regLen THEN "done" ELSE "running"
    BY <1>3 DEF DeviceWrite, regs, DeviceTypes, Dirs
  <2>3. pc \notin {"program", "start"}
    BY <2>2 DEF Progress, Dirs
  <2>4. moved + 1 \in Nat /\ (moved + 1 = regLen \/ moved + 1 < regLen)
    BY <2>1
  <2> QED BY <2>2, <2>3, <2>4 DEF Progress
<1>4. CASE DeviceRead
  <2>1. pc' = pc /\ dev["read"] = "running" /\ UNCHANGED <<regLen, moved>>
        /\ dev'["write"] = dev["write"]
    BY <1>4 DEF DeviceRead, regs, DeviceTypes, Dirs
  <2>2. pc \notin {"program", "start"}
    BY <2>1 DEF Progress, Dirs
  <2> QED BY <2>1, <2>2 DEF Progress
<1>5. CASE InitiatorReset
  <2>1. dev' = [d \in Dirs |-> "idle"] /\ moved' = 0
    BY <1>5 DEF InitiatorReset
  <2> QED BY <2>1 DEF Progress, Dirs
<1>6. CASE SetRegisters
  <2>1. pc = "program" /\ UNCHANGED device
    BY <1>6 DEF SetRegisters
  <2>2. dev' = [d \in Dirs |-> "idle"] /\ moved' = 0
    BY <2>1 DEF Progress, device
  <2> QED BY <2>2 DEF Progress, Dirs
<1>7. CASE StartDMA
  <2>1. pc = "start" /\ pc' = "wait" /\ moved' = moved /\ regLen' = regLen
        /\ dev' = [d \in Dirs |-> IF d \in enable THEN "running" ELSE dev[d]]
    BY <1>7 DEF StartDMA, regs
  <2>2. moved = 0 /\ dev["write"] = "idle" /\ 0 < regLen
    BY <2>1 DEF Progress, Dirs, DeviceTypes
  <2>3. dev'["write"] # "done"
    BY <2>1, <2>2 DEF Dirs
  <2> QED BY <2>1, <2>2, <2>3 DEF Progress
<1>8. CASE Calling /\ ~(InitiatorReset \/ SetRegisters \/ StartDMA)
  BY <1>8, ProgressKept DEF Calling, WriteData, GetCapabilities, UpdateRegs, CheckSpeed,
     NextIteration, Setup, Usleep, ReadStatus, Judge, ShowFailure, AfterIteration, outside, regs, device
<1>9. CASE Handling
  BY <1>9, HandlingKeeps, ProgressKept DEF outside, regs, device
<1>10. CASE Open \/ NothingSelected \/ on_main_window_destroy \/ on_start_button_clicked
            \/ Display \/ VerifyLink \/ Quit
  BY <1>10, ProgressKept DEF Open, NothingSelected, on_main_window_destroy,
     on_start_button_clicked, Display, VerifyLink, Quit, outside, regs, device, GuiTypes
<1> QED BY <1>1, <1>2, <1>3, <1>4, <1>5, <1>6, <1>7, <1>8, <1>9, <1>10, Steps DEF Silent

(* The user changes nothing during a run.                                  *)
LEMMA CountingKept ==
  ASSUME Counting, pc' = pc, UNCHANGED <<gui, ii, mbps>> PROVE Counting'
BY DEF Counting, gui, choice

LEMMA CountingStep == ASSUME RunTypes, GuiTypes, Counting, Next PROVE Counting'
<1>1. CASE Silent
  BY <1>1, SilentKeeps, CountingKept DEF run
<1>2. CASE Handling
  <2>1. bytes' = size'
    <3>1. bytes = size
      BY DEF Counting
    <3> QED BY <1>2, <3>1 DEF Handling, on_run_count_value_changed, on_wr_size_changed,
               on_checkbox_toggled, on_pattern_entry_changed
  <2> QED BY <1>2, <2>1, HandlingKeeps DEF run, Counting, InRun, GuiTypes
<1>3. CASE GetCapabilities \/ UpdateRegs \/ CheckSpeed \/ Open \/ NothingSelected
           \/ on_main_window_destroy
  BY <1>3 DEF GetCapabilities, UpdateRegs, CheckSpeed, GuiTypes, Open, NothingSelected,
     on_main_window_destroy, gui, choice, run, outside, Counting, InRun
<1>4. CASE VerifyLink \/ Quit
  BY <1>4 DEF VerifyLink, Quit, Fresh, choice, run, Counting, InRun
<1>5. CASE on_start_button_clicked
  <2>1. pc \notin InRun /\ ii' = ii /\ UNCHANGED choice
    BY <1>5 DEF on_start_button_clicked, Idle, GuiTypes, InRun
  <2>2. CASE enable = {}
    BY <1>5, <2>1, <2>2 DEF on_start_button_clicked, choice, Counting, InRun
  <2>3. CASE enable # {}
    <3>1. pc' = "iter" /\ text' = [d \in Dirs |-> " "] /\ mbps' = 0
      BY <1>5, <2>3 DEF on_start_button_clicked, EraseOldResults, mbps_Reset
    <3>2. ii = 0 /\ bytes = size
      BY <2>1 DEF Counting, InRun
    <3>3. 0 <= num_iter /\ 0 <= 0
      BY CountTypesHold DEF CountTypes
    <3>4. ii' = 0 /\ UNCHANGED <<enable, size, bytes, num_iter>>
      BY <2>1, <3>2 DEF choice
    <3> QED BY <2>3, <3>1, <3>2, <3>3, <3>4 DEF Counting, InRun
  <2> QED BY <2>2, <2>3
<1>6. CASE NextIteration
  <2>1. pc = "iter" /\ pc' = (IF ii < num_iter THEN "setup" ELSE "results")
        /\ UNCHANGED <<gui, ii, mbps>>
    BY <1>6 DEF NextIteration, run
  <2>2. mbps <= ii /\ ii <= num_iter
    BY <2>1 DEF Counting, InRun
  <2>3. mbps <= num_iter
    BY <2>2, CountTypesHold DEF CountTypes
  <2> QED BY <2>1, <2>2, <2>3 DEF Counting, InRun, gui, choice
<1>7. CASE Setup
  <2>1. pc = "setup" /\ pc' \in {"fill", "failed"} /\ UNCHANGED <<gui, ii, mbps>>
    BY <1>7 DEF Setup
  <2>2. mbps <= ii /\ ii < num_iter
    BY <2>1 DEF Counting, InRun
  <2>3. mbps <= ii + 1
    BY <2>2, CountTypesHold DEF CountTypes
  <2> QED BY <2>1, <2>2, <2>3 DEF Counting, InRun, gui, choice
<1>8. CASE WriteData \/ InitiatorReset \/ SetRegisters \/ StartDMA
  BY <1>8 DEF WriteData, InitiatorReset, SetRegisters, StartDMA, gui, choice, run, Counting, InRun
<1>9. CASE Usleep \/ ReadStatus \/ ShowFailure
  BY <1>9 DEF Usleep, ReadStatus, ShowFailure, gui, choice, run, Counting, InRun
<1>10. CASE Judge
  <2>1. pc = "judge" /\ pc' \in {"failed", "next"} /\ UNCHANGED <<gui, ii>>
        /\ mbps' \in {mbps, mbps + 1}
    BY <1>10 DEF Judge
  <2>2. mbps <= ii /\ ii < num_iter
    BY <2>1 DEF Counting, InRun
  <2>3. mbps <= ii + 1 /\ mbps + 1 <= ii + 1
    BY <2>2, CountTypesHold DEF CountTypes
  <2>4. mbps' <= ii' + 1
    BY <2>1, <2>3
  <2> QED BY <2>1, <2>2, <2>4 DEF Counting, InRun, gui, choice
<1>11. CASE AfterIteration
  <2>1. /\ pc = "next" /\ UNCHANGED <<gui, mbps>>
        /\ (pc' = "results" /\ ii' = ii) \/ (pc' = "iter" /\ ii' = ii + 1)
    BY <1>11 DEF AfterIteration, Inc
  <2>2. mbps <= ii + 1 /\ ii < num_iter
    BY <2>1 DEF Counting, InRun
  <2>3. mbps <= num_iter /\ ii + 1 <= num_iter
    BY <2>2, CountTypesHold DEF CountTypes
  <2>4. CASE pc' = "results" /\ ii' = ii
    BY <2>1, <2>2, <2>3, <2>4 DEF Counting, InRun, gui, choice
  <2>5. CASE pc' = "iter" /\ ii' = ii + 1
    <3>1. mbps' = mbps /\ num_iter' = num_iter
      BY <2>1 DEF gui, choice
    <3>2. mbps' <= ii' /\ ii' <= num_iter'
      BY <2>2, <2>3, <2>5, <3>1, Zenon
    <3>3. bytes' = size' /\ enable' # {} /\ text' = [d \in Dirs |-> " "]
      BY <2>1 DEF Counting, InRun, gui, choice
    <3> QED BY <2>5, <3>2, <3>3 DEF Counting, InRun
  <2> QED BY <2>1, <2>4, <2>5
<1>12. CASE Display
  BY <1>12 DEF Display, choice, Counting, InRun, GuiTypes
<1> QED BY <1>1, <1>2, <1>3, <1>4, <1>5, <1>6, <1>7, <1>8, <1>9, <1>10, <1>11, <1>12,
           Steps DEF Calling

(* The program does not come to its main loop with a link it cannot have.  *)
LEMMA LinkedStep == ASSUME GuiTypes, Linked, Next PROVE Linked'
<1> USE DEF Linked, Homed, LinkIsReal
<1>1. CASE Silent
  BY <1>1, SilentKeeps DEF cfg, gui
<1>2. CASE Handling
  BY <1>2, HandlingKeeps DEF cfg, outside
<1>3. CASE GetCapabilities \/ Open \/ Quit
  BY <1>3 DEF GetCapabilities, Open, Quit, Fresh, Starting, gui
<1>4. CASE UpdateRegs \/ CheckSpeed
  BY <1>4 DEF UpdateRegs, CheckSpeed, Starting
<1>5. CASE VerifyLink
  <2>1. CASE LinkStatus.speed \in {1, 2}
    <3>1. /\ pc' = "idle" /\ home' = "idle" /\ link' = LinkStatus
          /\ board' = board
      BY <1>5, <2>1 DEF VerifyLink
    <3>2. offsets # "zero"
      BY <2>1 DEF LinkStatus
    <3> QED BY <3>1, <3>2 DEF LinkStatus, Starting
  <2>2. CASE LinkStatus.speed \notin {1, 2}
    BY <1>5, <2>2 DEF VerifyLink, Fresh, Starting
  <2> QED BY <2>1, <2>2
<1>6. CASE NothingSelected \/ on_main_window_destroy \/ on_start_button_clicked \/ Display
  <2>1. pc \notin Starting /\ UNCHANGED <<home, link, board>>
    BY <1>6 DEF NothingSelected, on_main_window_destroy, on_start_button_clicked, Display,
       outside, cfg, Idle, Starting
  <2>2. pc' \in {pc, home, "nothing", "iter"}
    BY <1>6 DEF NothingSelected, on_main_window_destroy, on_start_button_clicked, Display
  <2>3. home \in {"width", "speed", "idle"}
    BY <2>1 DEF GuiTypes
  <2>4. pc' \notin Starting
    BY <2>1, <2>2, <2>3 DEF Starting
  <2> QED BY <2>1, <2>3, <2>4
<1>7. CASE NextIteration \/ Setup \/ Usleep \/ ReadStatus \/ Judge \/ ShowFailure \/ AfterIteration
  BY <1>7 DEF NextIteration, Setup, Usleep, ReadStatus, Judge, ShowFailure, AfterIteration,
     outside, cfg, gui, Starting
<1>8. CASE WriteData \/ InitiatorReset \/ SetRegisters \/ StartDMA
  BY <1>8 DEF WriteData, InitiatorReset, SetRegisters, StartDMA, cfg, gui, Starting
<1> QED BY <1>1, <1>2, <1>3, <1>4, <1>5, <1>6, <1>7, <1>8, Steps DEF Calling

LEMMA ProgramInvStep == ASSUME IInv, ProgramInv, [Next]_vars PROVE ProgramInv'
<1>1. GuiTypes /\ RunTypes /\ DeviceTypes /\ Progress /\ Counting /\ Linked
  BY TypeParts DEF ProgramInv
<1>2. CASE Next
  <2>1. IInv'
    BY <1>2, ComposedStep, DriverStep
  <2>2. DriverTypeOK' /\ GuiTypes' /\ RunTypes' /\ DeviceTypes'
    BY <1>1, <1>2, <2>1, GuiStep, RunStep, DeviceStep DEF IInv
  <2>3. Progress' /\ Counting' /\ Linked'
    BY <1>1, <1>2, ProgressStep, CountingStep, LinkedStep
  <2>4. TypeOK'
    BY <2>2, TypeParts, PTL
  <2> QED BY <2>3, <2>4 DEF ProgramInv
<1>3. CASE UNCHANGED vars
  <2>1. UNCHANGED <<driverVars, pc, gui, cfg, run, buffers, regs, device, board>>
    BY <1>3 DEF vars, outside
  <2>2. DriverTypeOK'
    BY <2>1 DEF ProgramInv, TypeOK, DriverTypeOK, driverVars
  <2>3. GuiTypes' /\ RunTypes' /\ DeviceTypes'
    BY <1>1, <2>1, GuiUnchanged, RunUnchanged, DeviceUnchanged
  <2>4. TypeOK'
    BY <2>2, <2>3, TypeParts, PTL
  <2>5. Progress' /\ Counting'
    BY <1>1, <2>1, ProgressKept, CountingKept DEF regs, device, run
  <2>6. Linked'
    BY <1>1, <2>1 DEF Linked, Homed, LinkIsReal, cfg, gui
  <2> QED BY <2>4, <2>5, <2>6 DEF ProgramInv
<1> QED BY <1>2, <1>3

(* Whatever the environment does.                                          *)
LEMMA ProgramCorrect == Spec => [](IInv /\ ProgramInv)
<1>1. Init => IInv /\ ProgramInv
  BY ProgramStart, DriverStart DEF Init
<1>2. IInv /\ ProgramInv /\ [Next]_vars => (IInv /\ ProgramInv)'
  BY ProgramInvStep, ComposedStep, DriverStep
<1> QED BY <1>1, <1>2, PTL DEF Spec
-----------------------------------------------------------------------------
(* A load that fails has not come to the device file.                      *)
LEMMA NoFileLeft ==
  ASSUME IInv, "chrdev" \notin left, [DriverNext]_driverVars PROVE "chrdev" \notin left'
<1>1. CASE InitFails
  <2>1. at \in 1..7 /\ left' = left \cup held /\ held = Before(InitOrder, at)
    BY <1>1, InitOrderFacts DEF InitFails, IInv, LoadInv
  <2>2. "chrdev" \notin Before(InitOrder, at)
    <3> SUFFICES ASSUME NEW i \in 1..(at - 1), InitOrder[i] = "chrdev" PROVE FALSE
      BY DEF Before
    <3>1. i \in 1..6
      BY <2>1
    <3> QED BY <3>1, InitOrderFacts
  <2> QED BY <2>1, <2>2
<1> QED BY <1>1 DEF DriverNext, Insmod, Acquire, InitDone, Rmmod, Release, ExitDone,
          driverVars

LEMMA OwnedStep ==
  ASSUME Env \cap {"early", "rmmod"} = {}, Owned, DeviceTypes, [Next]_vars
  PROVE  Owned'
<1> USE DEF Owned
<1>1. IInv' /\ "chrdev" \notin left'
  BY ComposedStep, DriverStep, NoFileLeft
<1>2. CASE Load
  <2>1. phase # "up" /\ phase' # "up" /\ UNCHANGED <<pc, dev>>
    BY <1>2 DEF Load, Insmod, Acquire, InitFails, device
  <2> QED BY <1>1, <2>1 DEF Running
<1>3. CASE InitCard
  BY <1>1, <1>3 DEF InitCard, InitDone
<1>4. CASE Unload
  <2>1. phase' # "up" /\ UNCHANGED <<pc, dev>>
    BY <1>4 DEF Unload, Rmmod, Release, ExitDone, device
  <2>2. pc = "none" /\ Running = {}
    BY <1>4 DEF Unload, Rmmod, Release, ExitDone
  <2> QED BY <1>1, <2>1, <2>2 DEF Running
<1>5. ASSUME ~Load, ~InitCard, ~Unload PROVE UNCHANGED <<phase, addr>>
  <2>1. CASE UNCHANGED vars
    BY <2>1 DEF vars, outside, driverVars, regs
  <2>2. CASE Calling
    BY <1>5, <2>2 DEF Calling, WriteData, InitiatorReset, SetRegisters, StartDMA,
       GetCapabilities, UpdateRegs, CheckSpeed, NextIteration, Setup, Usleep, ReadStatus, Judge,
       ShowFailure, AfterIteration, outside, driverVars, regs
  <2>3. CASE Silent \/ Handling
    BY <1>5, <2>3, HandlingKeeps DEF Silent, DeviceWrite, DeviceRead, outside, driverVars, regs
  <2>4. CASE Open \/ NothingSelected \/ on_main_window_destroy \/ on_start_button_clicked
            \/ Display \/ VerifyLink \/ Quit
    BY <2>4 DEF Open, NothingSelected, on_main_window_destroy, on_start_button_clicked,
       Display, VerifyLink, Quit, outside, driverVars, regs
  <2> QED BY <2>1, <2>2, <2>3, <2>4, Steps
<1>6. ASSUME ~Load, ~InitCard, ~Unload, phase # "up" PROVE pc' = "none" /\ Running' = {}
  <2>1. pc = "none" /\ Running = {}
    BY <1>6
  <2>2. ~(DeviceWrite \/ DeviceRead)
    BY <2>1 DEF DeviceWrite, DeviceRead, Running, Dirs
  <2>3. ~Open
    <3>1. "chrdev" \notin held \cup left \/ phase \in {"init", "exit"}
      BY <1>6 DEF IInv, ExitInv, DriverTypeOK
    <3> QED BY <3>1 DEF Open, Registered
  <2>4. UNCHANGED vars
    BY <1>6, <2>1, <2>2, <2>3 DEF Next, User, ProgramStep, Change, Idle, on_run_count_value_changed,
       on_wr_size_changed, on_checkbox_toggled, on_pattern_entry_changed,
       on_start_button_clicked, on_main_window_destroy, GetCapabilities, UpdateRegs, CheckSpeed,
       VerifyLink, NothingSelected, NextIteration, Setup, WriteData, InitiatorReset,
       SetRegisters, StartDMA, Usleep, ReadStatus, Judge, ShowFailure, AfterIteration,
       Display, Quit
  <2> QED BY <2>1, <2>4 DEF vars, outside, device, Running
<1>7. CASE ~Load /\ ~InitCard /\ ~Unload
  BY <1>1, <1>5, <1>6, <1>7
<1> QED BY <1>2, <1>3, <1>4, <1>7

-----------------------------------------------------------------------------
(* Only the verdict of an iteration sets a result, and only with the list  *)
(* of capabilities read to its end.                                        *)
LEMMA ResultingKept ==
  ASSUME Resulting, UNCHANGED <<enable, offsets, result, seen, ii>>, pc' = pc
  PROVE  Resulting'
BY DEF Resulting, Judged

LEMMA ResultingStep ==
  ASSUME Env \cap {"linkdown", "nolog"} = {}, RunTypes, GuiTypes, Counting, Homed, Resulting,
         [Next]_vars
  PROVE  Resulting'
<1> DEFINE Empty == [d \in Dirs |-> " "]
<1>1. CASE Silent \/ UNCHANGED vars
  BY <1>1, SilentKeeps, ResultingKept DEF vars, outside, gui, choice, cfg, run
<1>2. CASE Handling
  <2>1. pc \in {"width", "speed", "idle"} /\ pc' = pc /\ UNCHANGED <<offsets, result>>
    BY <1>2, HandlingKeeps DEF run, outside, cfg, GuiTypes
  <2> QED BY <2>1 DEF Resulting, Judged, Starting
<1>3. CASE Open \/ UpdateRegs \/ CheckSpeed
  <2>1. /\ pc \in Starting \/ pc' \notin Starting
        /\ pc' \in Starting \cup {"width", "speed"} /\ UNCHANGED <<offsets, result>>
    BY <1>3 DEF Open, UpdateRegs, CheckSpeed, run, outside, cfg, Starting
  <2> QED BY <2>1 DEF Resulting, Judged, Starting
<1>4. CASE GetCapabilities
  <2>1. pc \in Starting /\ pc' \in Starting /\ UNCHANGED result
    BY <1>4 DEF GetCapabilities, run, Starting
  <2> QED BY <2>1 DEF Resulting, Judged, Starting
<1>5. CASE VerifyLink \/ Quit
  <2>1. CASE Fresh /\ pc' = "none"
    BY <2>1 DEF Resulting, Fresh, Judged
  <2>2. CASE VerifyLink /\ LinkStatus.speed \in {1, 2}
    <3>1. pc' = "idle" /\ UNCHANGED <<offsets, result>>
      BY <2>2 DEF VerifyLink, run
    <3> QED BY <3>1 DEF Resulting, Judged, Starting
  <2> QED BY <1>5, <2>1, <2>2 DEF VerifyLink, Quit
<1>6. CASE NothingSelected \/ on_start_button_clicked \/ on_main_window_destroy \/ Display
  <2>1. /\ pc \notin Starting /\ UNCHANGED <<offsets, result>>
        /\ \/ pc' = pc /\ UNCHANGED <<enable, seen, ii>>
           \/ pc' \in {"width", "speed", "idle", "nothing"}
           \/ pc' = "iter" /\ ii' = 0
    <3>1. CASE NothingSelected \/ on_main_window_destroy \/ Display
      <4>1. pc \notin Starting
        BY <3>1 DEF NothingSelected, on_main_window_destroy, Display, Starting
      <4>2. home \in {"width", "speed", "idle"}
        BY <4>1 DEF Homed, GuiTypes
      <4> QED BY <3>1, <4>1, <4>2 DEF NothingSelected, on_main_window_destroy, Display, choice,
                 run, outside, cfg
    <3>2. CASE on_start_button_clicked
      <4>1. pc \in {"width", "speed", "idle"}
        BY <3>2 DEF on_start_button_clicked, Idle, GuiTypes
      <4>2. ii = 0
        BY <4>1 DEF Counting, InRun
      <4> QED BY <3>2, <4>1, <4>2 DEF on_start_button_clicked, outside, cfg, Starting
    <3> QED BY <1>6, <3>1, <3>2
  <2>2. CASE pc' = pc /\ UNCHANGED <<enable, seen, ii>>
    BY <2>1, <2>2, ResultingKept
  <2>3. CASE pc' \in {"width", "speed", "idle", "nothing"} \/ (pc' = "iter" /\ ii' = 0)
    <3>1. offsets' # "copied" => result' = Empty
      BY <2>1 DEF Resulting
    <3>2. ~Judged' /\ ~(pc' = "iter" /\ ii' > 0)
      <4>1. ~(0 > 0)
        OBVIOUS
      <4> QED BY <2>3, <4>1 DEF Judged
    <3> QED BY <2>3, <3>1, <3>2 DEF Resulting, Starting
  <2> QED BY <2>1, <2>2, <2>3
<1>7. CASE Setup
  <2>1. /\ pc = "setup" /\ UNCHANGED <<offsets, result, seen, enable, ii>>
        /\ \/ pc' = "fill" /\ offsets = "copied"
           \/ pc' = "failed" /\ offsets # "copied"
    BY <1>7 DEF Setup, outside, cfg, gui, choice
  <2>2. offsets' # "copied" => result' = Empty
    BY <2>1 DEF Resulting
  <2>3. pc' = "failed" => \A d \in enable' : result'[d] # "success"
    BY <2>1, <2>2 DEF GuiTypes
  <2> QED BY <2>1, <2>2, <2>3 DEF Resulting, Judged, Starting
<1>8. CASE NextIteration \/ ShowFailure
  <2>1. /\ UNCHANGED <<offsets, result, seen, enable, ii>>
        /\ \/ pc = "iter" /\ ii < num_iter /\ pc' = "setup"
           \/ pc = "iter" /\ ~(ii < num_iter) /\ pc' = "results"
           \/ pc = "failed" /\ pc' = "next"
    BY <1>8 DEF NextIteration, ShowFailure, gui, choice, run, outside, cfg
  <2>2. pc = "iter" /\ ~(ii < num_iter) => ii > 0
    BY CountTypesHold DEF CountTypes
  <2>3. Judged' => Judged
    BY <2>1, <2>2 DEF Judged
  <2> QED BY <2>1, <2>3 DEF Resulting, Starting
<1>9. CASE WriteData \/ InitiatorReset \/ SetRegisters \/ StartDMA
  BY <1>9 DEF WriteData, InitiatorReset, SetRegisters, StartDMA, Resulting, Judged,
     Starting, gui, choice, run, cfg
<1>10. CASE Usleep \/ ReadStatus
  BY <1>10 DEF Usleep, ReadStatus, Resulting, Judged, Starting, gui, choice, run, outside, cfg
<1>11. CASE Judge
  <2>1. /\ pc = "judge" /\ pc' \in {"failed", "next"}
        /\ UNCHANGED <<offsets, seen, enable, ii>>
        /\ result' = [d \in Dirs |-> IF d \in enable THEN Verdict(d) ELSE result[d]]
    BY <1>11 DEF Judge, outside, cfg, gui, choice
  <2>2. offsets' = "copied"
    BY <2>1 DEF Resulting
  <2>3. \A d \in enable : result'[d] = "success" => d \in seen
    BY <2>1 DEF Verdict, GuiTypes
  <2> QED BY <2>1, <2>2, <2>3 DEF Resulting, Judged, Starting
<1>12. CASE AfterIteration
  <2>1. /\ pc = "next" /\ pc' \in {"results", "iter"}
        /\ UNCHANGED <<offsets, seen, enable, result>>
        /\ pc' = "iter" => \A d \in enable : result[d] = "success"
    BY <1>12 DEF AfterIteration, Broken, outside, cfg, gui, choice
  <2> QED BY <2>1 DEF Resulting, Judged, Starting
<1> QED BY <1>1, <1>2, <1>3, <1>4, <1>5, <1>6, <1>7, <1>8, <1>9, <1>10, <1>11, <1>12,
           Steps DEF Calling

-----------------------------------------------------------------------------
(* What Transferred relates, and what stays while it does.                 *)
Related == <<offsets, enable, size, pattern, result, seen, gReadBuffer, gWriteBuffer,
             regLen, regPat, moved, dataError, dev, board>>

LEMMA TransferredKept ==
  ASSUME Transferred, UNCHANGED Related,
         Finished' => Finished, Programmed' => Programmed,
         pc' = pc \/ pc' \notin {"reset", "program", "judge"}
  PROVE  Transferred'
<1>1. ToNumber(pattern["read"])' = ToNumber(pattern["read"])
      /\ ToNumber(pattern["write"])' = ToNumber(pattern["write"])
  BY DEF Related, ToNumber, ValidPattern
<1> QED BY <1>1 DEF Transferred, Related, Writable

LEMMA OutsideRun == ASSUME pc' \notin InRun PROVE Transferred'
BY DEF Transferred, Programmed, Finished, Judged, InRun

(* While the program has the file open, only the device is beside it.      *)
LEMMA BesideProgram ==
  ASSUME Env \cap {"early", "rmmod"} = {}, Owned, Silent, pc # "none"
  PROVE  addr = "ours" /\ (DeviceWrite \/ DeviceRead)
BY DEF Owned, Silent, Load, InitCard, Unload, Insmod, Acquire, InitFails, InitDone, Rmmod,
   Release, ExitDone

LEMMA WriteTransfers ==
  ASSUME RunTypes, DeviceTypes, Progress, Resulting, Transferred, DeviceWrite,
         addr = "ours"
  PROVE  Transferred'
<1>1. /\ UNCHANGED <<pc, offsets, enable, size, pattern, result, seen, ii, board>>
      /\ UNCHANGED <<gReadBuffer, regLen, regPat, dataError>>
      /\ dev["write"] = "running" /\ dev' = [dev EXCEPT !["write"] = dev'["write"]]
      /\ moved' = moved + 1
      /\ gWriteBuffer' = [gWriteBuffer EXCEPT ![moved + 1] = regPat["write"]]
  BY DEF DeviceWrite, gui, choice, cfg, run, regs, DeviceTypes, Dirs
<1>2. Finished' = Finished /\ Programmed' = Programmed
  BY <1>1 DEF Finished, Programmed, Judged
<1>3. ToNumber(pattern["read"])' = ToNumber(pattern["read"])
      /\ ToNumber(pattern["write"])' = ToNumber(pattern["write"])
  BY <1>1 DEF ToNumber, ValidPattern
<1>4. ASSUME Programmed, NEW j \in 1..moved' PROVE gWriteBuffer'[j] = regPat'["write"]
  <2>1. moved \in Nat /\ MaxSize \in Nat /\ regLen \in 1..MaxSize /\ moved < regLen
        /\ gWriteBuffer \in [1..MaxSize -> Numbers]
    BY <1>1, BoundAssumption DEF DeviceTypes, Progress
  <2>2. j \in 1..MaxSize /\ (j = moved + 1 \/ j \in 1..moved)
    BY <1>1, <2>1
  <2>3. j \in 1..moved => gWriteBuffer[j] = regPat["write"]
    BY <1>4 DEF Transferred
  <2> QED BY <1>1, <2>1, <2>2, <2>3
<1>5. ASSUME pc = "judge" \/ Finished
      PROVE  "write" \notin seen /\ \A d \in seen : dev'[d] = "done"
  <2>1. \A d \in seen : dev[d] = "done"
    BY <1>5 DEF Transferred
  <2>2. "write" \notin seen
    BY <1>1, <2>1
  <2>3. \A d \in Dirs : d # "write" => dev'[d] = dev[d]
    BY <1>1 DEF DeviceTypes
  <2> QED BY <2>1, <2>2, <2>3 DEF RunTypes
<1>6. ~(Finished /\ "write" \in enable /\ result["write"] = "success")
  BY <1>5 DEF Resulting, Finished
<1> QED BY <1>1, <1>2, <1>3, <1>4, <1>5, <1>6 DEF Transferred, Writable

LEMMA ReadTransfers ==
  ASSUME DeviceTypes, Progress, Transferred, DeviceRead PROVE Transferred'
<1>1. /\ UNCHANGED <<pc, offsets, enable, size, pattern, result, seen, ii, board>>
      /\ UNCHANGED <<gReadBuffer, gWriteBuffer, regLen, regPat, moved>>
      /\ dev["read"] = "running" /\ dev' = [dev EXCEPT !["read"] = "done"]
      /\ "dataerror" \in Env \/ dataError' = (gReadBuffer # regPat["read"])
  BY DEF DeviceRead, gui, choice, cfg, run, regs, buffers
<1>2. Finished' = Finished /\ Programmed' = Programmed
  BY <1>1 DEF Finished, Programmed, Judged
<1>3. ToNumber(pattern["read"])' = ToNumber(pattern["read"])
      /\ ToNumber(pattern["write"])' = ToNumber(pattern["write"])
  BY <1>1 DEF ToNumber, ValidPattern
<1>4. pc # "program"
  BY <1>1 DEF Progress, Dirs
<1>5. ASSUME Programmed PROVE "dataerror" \in Env \/ ~dataError'
  BY <1>1, <1>5 DEF Transferred
<1>6. ASSUME pc = "judge" \/ Finished PROVE \A d \in seen : dev'[d] = "done"
  BY <1>1, <1>6 DEF Transferred, DeviceTypes, Dirs
<1> QED BY <1>1, <1>2, <1>3, <1>4, <1>5, <1>6 DEF Transferred, Writable

(* The steps of a run, in their order.                                     *)
LEMMA WriteDataTransfers == ASSUME WriteData PROVE Transferred'
<1>1. pc' = "reset" /\ gReadBuffer' = ToNumber(pattern["read"]) /\ pattern' = pattern
  BY DEF WriteData, XPCIe_Write, gui, choice
<1> QED BY <1>1 DEF Transferred, Programmed, Finished, Judged, ToNumber, ValidPattern,
           Writable

LEMMA ResetTransfers == ASSUME Transferred, InitiatorReset PROVE Transferred'
<1>1. pc = "reset" /\ pc' = "program" /\ dataError' = FALSE
      /\ UNCHANGED <<gReadBuffer, pattern>>
  BY DEF InitiatorReset, gui, choice, buffers
<1> QED BY <1>1 DEF Transferred, Programmed, Finished, Judged, ToNumber, ValidPattern,
           Writable

LEMMA RegistersTransfers ==
  ASSUME GuiTypes, Progress, Transferred, SetRegisters PROVE Transferred'
<1>1. /\ pc = "program" /\ pc' = "start" /\ regLen' = size
      /\ regPat' = PatternRegisters([d \in Dirs |-> ToNumber(pattern[d])])
      /\ UNCHANGED <<gReadBuffer, pattern, size, board, dataError, moved>>
  BY DEF SetRegisters, XPCIe_Ioctl_Write, gui, choice, buffers, device
<1>2. moved' = 0
  BY <1>1 DEF Progress
<1>3. \A j \in 1..moved' : FALSE
  BY <1>2
<1>4. regPat'["read"] = ToNumber(pattern["read"])
      /\ (Writable => regPat'["write"] = ToNumber(pattern["write"]))
  BY <1>1 DEF PatternRegisters, Dirs, Writable
<1> QED BY <1>1, <1>3, <1>4 DEF Transferred, Programmed, Finished, Judged, ToNumber,
           ValidPattern, Writable

LEMMA StartTransfers == ASSUME Transferred, StartDMA PROVE Transferred'
<1>1. /\ pc = "start" /\ pc' = "wait"
      /\ UNCHANGED <<gReadBuffer, gWriteBuffer, pattern, size, board, dataError, moved, regLen,
                     regPat>>
  BY DEF StartDMA, gui, choice, buffers, regs
<1> QED BY <1>1 DEF Transferred, Programmed, Finished, Judged, ToNumber, ValidPattern,
           Writable

LEMMA StatusTransfers == ASSUME Transferred, ReadStatus PROVE Transferred'
<1>1. /\ pc = "status" /\ pc' = "judge" /\ seen' = {d \in Dirs : dev[d] = "done"}
      /\ UNCHANGED <<gReadBuffer, gWriteBuffer, pattern, size, board, dataError, moved, regLen,
                     regPat, dev>>
  BY DEF ReadStatus, XPCIe_Ioctl_Read, gui, choice, outside, buffers, regs, device
<1> QED BY <1>1 DEF Transferred, Programmed, Finished, Judged, ToNumber, ValidPattern,
           Writable

LEMMA JudgeTransfers ==
  ASSUME GuiTypes, Transferred, Judge PROVE Transferred'
<1>1. /\ pc = "judge" /\ pc' \in {"failed", "next"}
      /\ result' = [d \in Dirs |-> IF d \in enable THEN Verdict(d) ELSE result[d]]
      /\ UNCHANGED <<enable, pattern, size, board, seen, gReadBuffer, gWriteBuffer, dataError,
                     moved, regLen, regPat, dev>>
  BY DEF Judge, gui, choice, outside, buffers, regs, device
<1>2. ASSUME "write" \in enable, result'["write"] = "success"
      PROVE  \A j \in 1..size : gWriteBuffer[j] = ToNumber(pattern["write"])
  BY <1>1, <1>2 DEF Verdict, DataMatches, XPCIe_Read, Dirs
<1>3. ToNumber(pattern["read"])' = ToNumber(pattern["read"])
      /\ ToNumber(pattern["write"])' = ToNumber(pattern["write"])
  BY <1>1 DEF ToNumber, ValidPattern
<1>4. Programmed
  BY <1>1 DEF Programmed
<1> QED BY <1>1, <1>2, <1>3, <1>4 DEF Transferred, Writable

LEMMA TransferredStep ==
  ASSUME Env \cap {"early", "rmmod"} = {}, Env \cap {"linkdown", "nolog"} = {},
         ProgramInv, Owned, Resulting, Transferred, [Next]_vars
  PROVE  Transferred'
<1>0. GuiTypes /\ RunTypes /\ DeviceTypes /\ Progress /\ Counting
  BY TypeParts DEF ProgramInv
<1>1. CASE Silent
  <2>1. CASE pc = "none"
    BY <1>1, <2>1, SilentKeeps, OutsideRun DEF InRun
  <2>2. CASE pc # "none"
    BY <1>0, <1>1, <2>2, BesideProgram, WriteTransfers, ReadTransfers
  <2> QED BY <2>1, <2>2
<1>2. CASE UNCHANGED vars
  <2>1. UNCHANGED Related /\ pc' = pc /\ ii' = ii
    BY <1>2 DEF vars, outside, gui, choice, cfg, run, buffers, regs, device, Related
  <2> QED BY <2>1, TransferredKept DEF Finished, Programmed, Judged, Related
<1>3. CASE Handling \/ Open \/ VerifyLink \/ Quit \/ NothingSelected \/ Display \/ GetCapabilities
           \/ UpdateRegs \/ CheckSpeed
  <2>1. pc' \notin InRun
    BY <1>0, <1>3, HandlingKeeps DEF Open, VerifyLink, Quit, NothingSelected, Display,
       GetCapabilities, UpdateRegs, CheckSpeed, InRun, GuiTypes
  <2> QED BY <2>1, OutsideRun
<1>4. CASE on_start_button_clicked
  <2>1. pc' = "nothing" \/ (pc' = "iter" /\ ii' = 0)
    BY <1>0, <1>4 DEF on_start_button_clicked, Idle, Counting, InRun, GuiTypes
  <2>2. ~(0 > 0)
    OBVIOUS
  <2> QED BY <2>1, <2>2 DEF Transferred, Programmed, Finished, Judged
<1>5. CASE on_main_window_destroy \/ ShowFailure \/ Usleep
  <2>1. UNCHANGED Related /\ ii' = ii
    BY <1>5 DEF on_main_window_destroy, ShowFailure, Usleep, outside, gui, choice, cfg,
       run, buffers, regs, device, Related
  <2>2. \/ pc' = pc
        \/ pc = "failed" /\ pc' = "next"
        \/ pc = "wait" /\ pc' = "status"
    BY <1>5 DEF on_main_window_destroy, ShowFailure, Usleep
  <2> QED BY <2>1, <2>2, TransferredKept DEF Finished, Programmed, Judged, Related
<1>6. CASE NextIteration
  <2>1. UNCHANGED Related /\ pc = "iter"
        /\ pc' = (IF ii < num_iter THEN "setup" ELSE "results")
    BY <1>6 DEF NextIteration, outside, gui, choice, cfg, run, buffers, regs, device, Related
  <2>2. ~(ii < num_iter) => ii > 0
    BY <1>0, CountTypesHold DEF CountTypes
  <2> QED BY <2>1, <2>2, TransferredKept DEF Finished, Programmed, Judged, Related
<1>7. CASE Setup
  <2>1. pc' = "fill" \/ (pc' = "failed" /\ offsets' # "copied")
    BY <1>7 DEF Setup, outside, cfg
  <2> QED BY <2>1 DEF Transferred, Programmed, Finished, Judged
<1>8. CASE AfterIteration
  <2>1. UNCHANGED Related /\ pc = "next" /\ pc' \in {"results", "iter"}
    BY <1>8 DEF AfterIteration, outside, gui, choice, cfg, buffers, regs, device, Related
  <2> QED BY <2>1, TransferredKept DEF Finished, Programmed, Judged, Related
<1> QED BY <1>0, <1>1, <1>2, <1>3, <1>4, <1>5, <1>6, <1>7, <1>8, WriteDataTransfers,
           ResetTransfers, RegistersTransfers, StartTransfers, StatusTransfers,
           JudgeTransfers, Steps DEF Calling

-----------------------------------------------------------------------------
LEMMA Begin == ASSUME Init PROVE IInv /\ ProgramInv /\ Owned /\ Resulting /\ Transferred
<1>1. IInv /\ ProgramInv
  BY ProgramStart, DriverStart DEF Init
<1>2. Owned
  BY <1>1 DEF Owned, Init, DriverInit, Running
<1>3. Resulting /\ Transferred
  BY DEF Init, Resulting, Transferred, Programmed, Finished, Judged
<1> QED BY <1>1, <1>2, <1>3

(* As long as the module is neither opened before it is ready nor removed  *)
(* under the program, the program finds the registers and the buffers, and *)
(* it comes to its main loop with the link the device has, any number of   *)
(* failed loads and unloads before.  Both are assumptions on the user: the *)
(* device file has no owner, it is there before the reset of init and goes *)
(* last in exit.                                                           *)
THEOREM AppCorrect ==
  ASSUME Env \cap {"early", "rmmod"} = {} PROVE Spec => []AppInv
<1>1. Init => IInv /\ ProgramInv /\ Owned
  BY Begin
<1>2. IInv /\ ProgramInv /\ Owned /\ [Next]_vars => (IInv /\ ProgramInv /\ Owned)'
  <2> SUFFICES ASSUME IInv, ProgramInv, Owned, [Next]_vars PROVE (IInv /\ ProgramInv /\ Owned)'
    OBVIOUS
  <2>1. IInv' /\ ProgramInv'
    BY ComposedStep, DriverStep, ProgramInvStep
  <2>2. Owned'
    BY OwnedStep, TypeParts DEF ProgramInv
  <2> QED BY <2>1, <2>2
<1>3. ProgramInv /\ Owned => AppInv
  BY DEF ProgramInv, Owned, IInv, ExitInv, Resources, AppInv, Linked, CallsFindResources
<1> QED BY <1>1, <1>2, <1>3, PTL DEF Spec

(* In its main loop the program computes a performance at the width and the*)
(* speed of the link, whatever the list of capabilities and the environment.*)
THEOREM LinkCorrect == Spec => []LinkIsReal
<1>1. ProgramInv => LinkIsReal
  BY DEF ProgramInv, Linked
<1> QED BY <1>1, ProgramCorrect, PTL
-----------------------------------------------------------------------------
RunInv == IInv /\ ProgramInv /\ Resulting

LEMMA RunInvHolds == ASSUME Env \cap {"linkdown", "nolog"} = {} PROVE Spec => []RunInv
<1>1. Init => RunInv
  BY Begin DEF RunInv
<1>2. RunInv /\ [Next]_vars => RunInv'
  <2> SUFFICES ASSUME IInv, ProgramInv, Resulting, [Next]_vars PROVE RunInv'
    BY DEF RunInv
  <2>1. IInv' /\ ProgramInv'
    BY ComposedStep, DriverStep, ProgramInvStep
  <2>2. Resulting'
    BY ResultingStep, TypeParts DEF ProgramInv, Linked
  <2> QED BY <2>1, <2>2 DEF RunInv
<1> QED BY <1>1, <1>2, PTL DEF Spec

(* An average never has more summands than the iterations it is divided by,*)
(* whatever runs there were before, and a next iteration is begun only after*)
(* ones of the same run whose verdicts were all successes; a critical      *)
(* condition is no verdict.  With configuration reads that fail, or a log  *)
(* file that does not open, an iteration has no verdict of its own and is  *)
(* judged by an older one.                                                 *)
THEOREM IterationsGood ==
  ASSUME Env \cap {"linkdown", "nolog"} = {} PROVE Spec => IterationsAreGood
<1> DEFINE Average == Display => mbps <= num_iter
           Follows == NextIteration /\ pc' = "setup" /\ ii > 0
                        => \A d \in enable : result[d] = "success" /\ d \in seen
<1>1. RunInv => Average
  BY DEF RunInv, ProgramInv, Counting, InRun, Display
<1>2. RunInv => Follows
  BY DEF RunInv, Resulting, Judged, NextIteration
<1>3. RunInv /\ [Next]_vars => [Average]_vars /\ [Follows]_vars
  BY <1>1, <1>2
<1> QED BY <1>3, RunInvHolds, PTL DEF Spec, IterationsAreGood, NoIterationAfterFailure,
           AverageIsNotInflated
-----------------------------------------------------------------------------
ShownInv == IInv /\ ProgramInv /\ Owned /\ Resulting /\ Transferred

LEMMA ShownInvHolds ==
  ASSUME Env \cap {"early", "rmmod"} = {}, Env \cap {"linkdown", "nolog"} = {}
  PROVE  Spec => []ShownInv
<1>1. Init => ShownInv
  BY Begin DEF ShownInv
<1>2. ShownInv /\ [Next]_vars => ShownInv'
  <2> SUFFICES ASSUME IInv, ProgramInv, Owned, Resulting, Transferred, [Next]_vars
               PROVE  ShownInv'
    BY DEF ShownInv
  <2>1. IInv' /\ ProgramInv'
    BY ComposedStep, DriverStep, ProgramInvStep
  <2>2. Owned' /\ Resulting' /\ Transferred'
    BY OwnedStep, ResultingStep, TransferredStep, TypeParts DEF ProgramInv, Linked
  <2> QED BY <2>1, <2>2 DEF ShownInv
<1> QED BY <1>1, <1>2, PTL DEF Spec

(* What a text that is shown as a success stands on.                       *)
LEMMA ShownSuccess ==
  ASSUME ShownInv, Display, NEW d \in Dirs, text'[d] = "success"
  PROVE  /\ d \in enable /\ result[d] = "success" /\ Finished /\ dev[d] = "done"
<1>1. pc = "results" /\ text' = [e \in Dirs |-> IF e \in enable THEN result[e] ELSE text[e]]
  BY DEF Display
<1>2. text[d] = " "
  BY <1>1 DEF ShownInv, ProgramInv, Counting, InRun
<1>3. d \in enable /\ result[d] = "success"
  BY <1>1, <1>2
<1>4. offsets = "copied"
  BY <1>3 DEF ShownInv, Resulting
<1>5. Judged /\ Finished
  BY <1>1, <1>4 DEF Judged, Finished
<1> QED BY <1>3, <1>5 DEF ShownInv, Resulting, Transferred

(* The device is started with this load's buffers, and a write is shown as *)
(* a success only with the last unit moved in this run and its pattern in  *)
(* the buffer, over the length that is shown: also when the device is late,*)
(* reports errors or writes another pattern.  The module must not be       *)
(* removed under the program, which nothing in the code keeps the user from*)
(* doing, and the iterations must come to their verdicts.                  *)
THEOREM WriteShownReal ==
  ASSUME Env \cap {"early", "rmmod", "linkdown", "nolog"} = {}
  PROVE  Spec => StartsMapped /\ ShownWriteIsReal
<1> DEFINE Mapped == StartDMA => addr = "ours"
           Real == Display /\ text'["write"] = "success"
                     => /\ dev["write"] = "done" /\ moved = bytes
                        /\ \A j \in 1..bytes : gWriteBuffer[j] = ToNumber(pattern["write"])
<1>1. ShownInv => Mapped
  BY DEF ShownInv, Owned, StartDMA
<1>2. ShownInv => Real
  <2> SUFFICES ASSUME ShownInv, Display, text'["write"] = "success"
               PROVE  /\ dev["write"] = "done" /\ moved = bytes
                      /\ \A j \in 1..bytes : gWriteBuffer[j] = ToNumber(pattern["write"])
    OBVIOUS
  <2>1. /\ "write" \in enable /\ result["write"] = "success" /\ Finished
        /\ dev["write"] = "done"
    BY ShownSuccess DEF Dirs
  <2>2. moved = regLen /\ regLen = size /\ bytes = size
    BY <2>1 DEF ShownInv, ProgramInv, Progress, Counting, Transferred, Programmed
  <2> QED BY <2>1, <2>2 DEF ShownInv, Transferred
<1>3. ShownInv /\ [Next]_vars => [Mapped]_vars /\ [Real]_vars
  BY <1>1, <1>2
<1>4. Env \cap {"early", "rmmod"} = {} /\ Env \cap {"linkdown", "nolog"} = {}
  OBVIOUS
<1> QED BY <1>3, <1>4, ShownInvHolds, PTL DEF Spec, StartsMapped, ShownWriteIsReal

(* With a device that finds no error that is not there, be its write       *)
(* pattern a register or a constant, all that is shown is what the device  *)
(* did: no good write of a pattern the device can write is shown as an     *)
(* error, and a read is shown as a success only with the data the device   *)
(* expected.                                                               *)
THEOREM ShownReal ==
  ASSUME Env \subseteq {"late", "fatal"} PROVE Spec => ShownIsReal
<1> DEFINE NotFailed == Judge /\ "write" \in enable \cap seen
                        /\ (board.pattern = "any" \/ ToNumber(pattern["write"]) = "own")
                          => result'["write"] = "success"
           Real == Display /\ text'["read"] = "success" => dev["read"] = "done" /\ ~dataError
<1>1. ShownInv => NotFailed
  <2> SUFFICES ASSUME ShownInv, Judge, "write" \in enable, "write" \in seen, Writable
               PROVE  result'["write"] = "success"
    BY DEF Writable
  <2>1. pc = "judge" /\ Programmed
    BY DEF Judge, Programmed
  <2>2. dev["write"] = "done" /\ moved = regLen
    BY <2>1 DEF ShownInv, ProgramInv, Progress, Transferred
  <2>3. regLen = size /\ regPat["write"] = ToNumber(pattern["write"])
    BY <2>1 DEF ShownInv, Transferred
  <2>4. DataMatches
    BY <2>1, <2>2, <2>3 DEF ShownInv, Transferred, DataMatches, XPCIe_Read
  <2> QED BY <2>4 DEF Judge, Verdict, Dirs
<1>2. ShownInv => Real
  BY ShownSuccess DEF Dirs, ShownInv, Transferred, Programmed
<1>3. ShownInv /\ [Next]_vars => [NotFailed]_vars /\ [Real]_vars
  BY <1>1, <1>2
<1>4. /\ Env \cap {"early", "rmmod"} = {} /\ Env \cap {"linkdown", "nolog"} = {}
      /\ Env \cap {"early", "rmmod", "linkdown", "nolog"} = {}
  OBVIOUS
<1>5. Spec => []ShownInv
  BY <1>4, ShownInvHolds
<1>6. Spec => StartsMapped /\ ShownWriteIsReal
  BY <1>4, WriteShownReal
<1> QED BY <1>3, <1>5, <1>6, PTL DEF Spec, ShownIsReal, GoodWriteIsNotFailed, ShownReadIsReal
=============================================================================
