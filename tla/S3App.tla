-------------------------------- MODULE S3App --------------------------------
(***************************************************************************)
(* The Windows application: the start button and the polling timer of the  *)
(* form (GUI/Main.frm), the DriverMgr object they call                     *)
(* (DriverMgr/s3_1000.cpp), and below it the driver's control codes and    *)
(* its requests (win32_driver/source/s3_1000.c) as far as the application  *)
(* depends on them.  S3Irp has the requests in detail.                     *)
(*                                                                         *)
(* The form has one thread.  Between any two of its calls the device may   *)
(* finish a transfer and the DPC complete requests.                        *)
(* A definition with a suffix is the next one with a plausible bug.        *)
(***************************************************************************)
EXTENDS Integers, FiniteSets

CONSTANTS
  Env,        (* what may happen, see below                                *)
  Runs,       (* txtRun: how often a good run is repeated                  *)
  MaxQueue    (* requests a queue of the driver may hold                   *)

(* "failure"       a call to the driver may fail before the first request   *)
(*                 is queued, or while polling                              *)
(* "latefailure"   or when it is, or after that                             *)
(* "dataerror"     the device may find an error in the data it reads        *)
(* "interruptsoff" the user may turn the device's interrupts off            *)
(* "latedpc"       the form may compare the buffer, and begin another run,  *)
(*                 before the DPC has run                                  *)
Environment == {"failure", "latefailure", "dataerror", "interruptsoff", "latedpc"}
ASSUME EnvAssumption == Env \subseteq Environment
ASSUME BoundAssumption == Runs \in Nat \ {0} /\ MaxQueue \in Nat

VARIABLES
  pc,                          (* the form: idle, in btnStart_Click, ...   *)
  Mode, controls, runCount,    (* check boxes, enabled or not, runs        *)
  text,                        (* the result panels                        *)
  status,                      (* of Timer1_Timer: what GetDMAStatus said  *)
  averaged,                    (* how many runs readMbps, writeMbps sum up *)
  cycleTime,                   (* what GetCycleTime has said, 0: nothing   *)
  Operation,                   (* of the DriverMgr object                  *)
  buffer,                      (* TLPWriteBuffer: filled, cut (its first   *)
                               (* double word 0), or data of this or of an *)
                               (* earlier run, which is taken to match     *)
  current, queued, lengthSet,  (* the driver: request, queue, Length > 0   *)
  addr,                        (* the address registers                    *)
  dev, unseen, dataError,      (* the device, its interrupts, its bit 31   *)
  intEnabled,
  board                        (* path width, link width, Virtex-5 or not  *)

form   == <<pc, Mode, controls, runCount, text, status, averaged, cycleTime>>
driver == <<current, queued, lengthSet>>
device == <<dev, unseen, dataError, intEnabled>>
vars == <<form, Operation, buffer, driver, addr, device, board>>

Dirs == {"read", "write"}
Places == {"closed", "idle", "reset", "clear", "setwrite", "submitwrite",
           "setread", "submitread", "start", "polling", "cycletime", "verify", "finish",
           "stuck"}
Boards ==    (* 0: a link width that is none *)
  [width : {32, 64}, link : {0, 1, 2, 4, 8, 12, 16, 32}, virtex5 : BOOLEAN]

TypeOK ==
  /\ pc \in Places /\ Mode \subseteq Dirs /\ controls \in BOOLEAN
  /\ runCount \in 1..Runs /\ text \in [Dirs -> {"", "number", "FAIL"}]
  /\ status \in {"running", "fail", "pass"}
  /\ averaged \in [Dirs -> 0..Runs] /\ cycleTime \in 0..320
  /\ Operation \subseteq Dirs /\ buffer \in {"fill", "cut", "old", "data"}
  /\ current \in [Dirs -> BOOLEAN] /\ queued \in [Dirs -> 0..MaxQueue]
  /\ lengthSet \in [Dirs -> BOOLEAN] /\ addr \in [Dirs -> {"none", "virtual", "mapped"}]
  /\ dev \in [Dirs -> {"idle", "running", "done"}] /\ unseen \subseteq Dirs
  /\ dataError \in BOOLEAN /\ intEnabled \in BOOLEAN /\ board \in Boards

Init ==
  /\ pc = "closed" /\ Mode = {} /\ controls = TRUE /\ runCount = 1
  /\ text = [d \in Dirs |-> "number"]            (* the panels start with 0 *)
  /\ status = "running" /\ averaged = [d \in Dirs |-> 0] /\ cycleTime = 0
  /\ Operation = {} /\ buffer = "old"
  /\ current = [d \in Dirs |-> FALSE] /\ queued = [d \in Dirs |-> 0]
  /\ lengthSet = [d \in Dirs |-> FALSE] /\ addr = [d \in Dirs |-> "none"]
  /\ dev = [d \in Dirs |-> "idle"] /\ unseen = {}
  /\ dataError = FALSE /\ intEnabled = TRUE
  /\ board \in Boards
-----------------------------------------------------------------------------
(***************************************************************************)
(* The driver and the device.                                              *)
(***************************************************************************)
(* WriteFile and ReadFile: with a request current the new one is queued,   *)
(* and nothing is programmed; else its buffer is mapped and the address    *)
(* register set.                                                           *)
Submit(d) ==
  IF current[d]
    THEN /\ queued[d] < MaxQueue
         /\ queued' = [queued EXCEPT ![d] = @ + 1]
         /\ UNCHANGED <<current, lengthSet, addr>>
    ELSE /\ current' = [current EXCEPT ![d] = TRUE]
         /\ lengthSet' = [lengthSet EXCEPT ![d] = TRUE]
         /\ addr' = [addr EXCEPT ![d] = "mapped"]
         /\ UNCHANGED queued

(* A transfer of the device ends.  What it has written is in the buffer at *)
(* once, or with bounce buffers when the mapping is released.              *)
DeviceDone(d) ==
  /\ dev[d] = "running"
  /\ dev' = [dev EXCEPT ![d] = "done"]
  /\ unseen' = unseen \cup {d}
  /\ buffer' \in {buffer} \cup IF d = "write" /\ current[d] THEN {"data"} ELSE {}
  /\ dataError' \in {dataError} \cup
       IF d = "read" /\ "dataerror" \in Env THEN {TRUE} ELSE {}
  /\ UNCHANGED <<form, Operation, driver, addr, intEnabled, board>>

(* One interrupt and its DPC: every request whose length is not 0 ends and *)
(* the last one queued takes its place.                                    *)
Ending == {d \in Dirs : current[d] /\ lengthSet[d]}
DpcForIsr_One(d) ==
  /\ d \in unseen /\ intEnabled
  /\ unseen' = {}
  /\ buffer' = IF "write" \in Ending /\ dev["write"] = "done" THEN "data" ELSE buffer
  /\ current' = [current EXCEPT ![d] = queued[d] > 0]
  /\ lengthSet' = [lengthSet EXCEPT ![d] = queued[d] > 0]
  /\ UNCHANGED <<form, Operation, addr, queued, dev, dataError, intEnabled, board>>
DpcForIsr(d) ==
  /\ d \in unseen /\ intEnabled
  /\ unseen' = unseen \ {d}
  /\ buffer' = IF "write" \in Ending /\ dev["write"] = "done" THEN "data" ELSE buffer
  /\ current' = [c \in Dirs |-> IF c \in Ending THEN queued[c] > 0 ELSE current[c]]
  /\ lengthSet' = [c \in Dirs |-> IF c \in Ending THEN queued[c] > 0 ELSE lengthSet[c]]
  /\ addr' = [c \in Dirs |-> IF c \in Ending /\ queued[c] > 0 THEN "mapped" ELSE addr[c]]
  /\ queued' = [c \in Dirs |-> IF c \in Ending THEN 0 ELSE queued[c]]
  /\ UNCHANGED <<form, Operation, dev, dataError, intEnabled, board>>
-----------------------------------------------------------------------------
(***************************************************************************)
(* The form and the DriverMgr object.                                      *)
(***************************************************************************)
(* OpenDevice finds the device or leaves the form without controls.        *)
Form_Load ==
  /\ pc = "closed"
  /\ \E ok \in {TRUE} \cup {"failure" \notin Env} :
       /\ pc' = IF ok THEN "idle" ELSE "stuck"
       /\ controls' = ok
  /\ UNCHANGED <<Mode, runCount, text, status, averaged, cycleTime, Operation, buffer,
                 driver, addr, device, board>>

SetInterruptState ==
  /\ pc = "idle"
  /\ intEnabled' \in {TRUE} \cup {"interruptsoff" \notin Env}
  /\ UNCHANGED <<form, Operation, buffer, driver, addr, dev, unseen, dataError, board>>

btnStart_Click ==
  /\ pc = "idle" /\ controls
  /\ Mode' \in (SUBSET Dirs) \ {{}}
  /\ pc' = "reset" /\ controls' = FALSE
  /\ UNCHANGED <<runCount, text, status, averaged, cycleTime, Operation, buffer, driver,
                 addr, device, board>>

(* IOCTL_INITIATOR_RESET clears the lengths as well as the device.         *)
Reset ==
  /\ pc = "reset" /\ pc' = "clear"
  /\ lengthSet' = [d \in Dirs |-> FALSE]
  /\ dev' = [d \in Dirs |-> "idle"] /\ unseen' = {} /\ dataError' = FALSE
  /\ buffer' = IF buffer = "data" THEN "old" ELSE buffer
  /\ UNCHANGED <<Mode, controls, runCount, text, status, averaged, cycleTime, Operation,
                 current, queued, addr, intEnabled, board>>

(* ... and IOCTL_CLEAR_INITIATOR_RESET ends it.                            *)
ClearReset ==
  /\ pc = "clear"
  /\ pc' = IF "write" \in Mode THEN "setwrite" ELSE "setread"
  /\ UNCHANGED <<Mode, controls, runCount, text, status, averaged, cycleTime, Operation,
                 buffer, driver, addr, device, board>>

(* The panel is cleared, then SetRegister called four times: the address is *)
(* the buffer's virtual one, which the driver replaces when it starts the  *)
(* request.  The memset before them clears as much as a pointer's size.    *)
Panel(d) == text' = [text EXCEPT ![d] = ""]
Memset(d) == buffer' = IF d = "write" THEN "cut" ELSE buffer
SetRegisters(d, here, next) ==
  /\ pc = here /\ pc' = next
  /\ addr' = [addr EXCEPT ![d] = "virtual"]
  /\ Panel(d) /\ Memset(d)
  /\ UNCHANGED <<Mode, controls, runCount, status, averaged, cycleTime, Operation,
                 driver, device, board>>

SetDMAWrite ==
  /\ pc = "submitwrite"
  /\ pc' = IF "read" \in Mode THEN "setread" ELSE "start"
  /\ buffer' = "fill" /\ Operation' = {"write"}
  /\ Submit("write")
  /\ UNCHANGED <<Mode, controls, runCount, text, status, averaged, cycleTime, device, board>>

SetDMARead_Alone ==
  /\ pc = "submitread" /\ pc' = "start"
  /\ Operation' = {"read"}
  /\ Submit("read")
  /\ UNCHANGED <<Mode, controls, runCount, text, status, averaged, cycleTime, buffer,
                 device, board>>
SetDMARead ==
  /\ pc = "submitread" /\ pc' = "start"
  /\ Operation' = IF Operation = {"write"} THEN {"read", "write"} ELSE {"read"}
  /\ Submit("read")
  /\ UNCHANGED <<Mode, controls, runCount, text, status, averaged, cycleTime, buffer, device, board>>

(* IOCTL_DMA_START sets the start bits of the operation.                   *)
StartDMA ==
  /\ pc = "start" /\ pc' = "polling"
  /\ dev' = [d \in Dirs |-> IF d \in Operation THEN "running" ELSE dev[d]]
  /\ UNCHANGED <<Mode, controls, runCount, text, status, averaged, cycleTime, Operation,
                 buffer, driver, addr, unseen, dataError, intEnabled, board>>

(* A call of btnStart_Click fails.  A panel has been cleared before its     *)
(* registers are set, any of which may fail, and Operation has been set    *)
(* before WriteFile or ReadFile is called, and stays.                      *)
MayFail ==
  pc \in IF "latefailure" \in Env
          THEN {"reset", "clear", "setwrite", "submitwrite", "setread", "submitread", "start"}
          ELSE IF "failure" \in Env /\ \A d \in Dirs : ~current[d]
          THEN {"reset", "clear", "setwrite", "setread"} ELSE {}
FailsIn(d) == pc = (IF d = "write" THEN "setwrite" ELSE "setread")
StartFails_Keep ==
  /\ MayFail
  /\ pc' = "idle"
  /\ UNCHANGED <<Mode, controls, runCount, text, status, averaged, cycleTime, Operation,
                 buffer, driver, addr, device, board>>
StartFails ==
  /\ MayFail
  /\ pc' = "idle" /\ controls' = TRUE
  /\ text' = [d \in Dirs |-> IF FailsIn(d) THEN "" ELSE text[d]]
  /\ addr' \in {addr} \cup {[addr EXCEPT ![d] = "virtual"] : d \in {c \in Dirs : FailsIn(c)}}
  /\ buffer' = CASE pc = "setwrite"    -> "cut"
                 [] pc = "submitwrite" -> "fill"
                 [] OTHER              -> buffer
  /\ Operation' = CASE pc = "start"       -> {}
                    [] pc = "submitwrite" -> {"write"}
                    [] pc = "submitread"  ->
                         IF Operation = {"write"} THEN {"read", "write"} ELSE {"read"}
                    [] OTHER              -> Operation
  /\ UNCHANGED <<Mode, runCount, status, averaged, cycleTime, driver, device, board>>

(* GetDMAStatus looks at the done bits of the operation; with a read, at   *)
(* bit 31 too.                                                             *)
DMAStatus_NoError ==
  IF \E d \in Operation : dev[d] # "done" THEN "running"
  ELSE IF Operation = {"read"} /\ dataError THEN "fail" ELSE "pass"
DMAStatus ==
  IF \E d \in Operation : dev[d] # "done" THEN "running"
  ELSE IF "read" \in Operation /\ dataError THEN "fail" ELSE "pass"

(* The timer event that finds the transfer done turns the timer off.       *)
GetDMAStatus ==
  /\ pc = "polling" /\ DMAStatus # "running"
  /\ status' = DMAStatus /\ Operation' = {} /\ pc' = "cycletime"
  /\ UNCHANGED <<Mode, controls, runCount, text, averaged, cycleTime, buffer, driver,
                 addr, device, board>>

(* GetDMAStatus fails, or IOCTL_CLEANUP, which does nothing, in it: the     *)
(* timer is turned off and nothing turned on.                              *)
PollFails ==
  /\ pc = "polling" /\ "failure" \in Env /\ pc' = "stuck"
  /\ Operation' \in {Operation} \cup IF DMAStatus = "running" THEN {} ELSE {{}}
  /\ UNCHANGED <<Mode, controls, runCount, text, status, averaged, cycleTime, buffer,
                 driver, addr, device, board>>

(* GetFPGAFamily is called for a x1 link only; for x4 and x8 its result is *)
(* not initialised.  The unit is 0.1 ns.                                   *)
CycleTimes ==
  LET narrow == board.width = 32
      v5 == IF board.link = 1 THEN {board.virtex5} ELSE BOOLEAN
  IN CASE board.link = 1  -> {IF v \/ narrow THEN 160 ELSE 320 : v \in v5}
       [] board.link = 2  -> {IF narrow THEN 80 ELSE 160}
       [] board.link = 4  -> {IF narrow /\ ~v THEN 40 ELSE 80 : v \in v5}
       [] board.link = 8  -> {IF narrow /\ ~v THEN 20 ELSE 40 : v \in v5}
       [] board.link = 12 -> {IF narrow THEN 15 ELSE 30}
       [] board.link = 16 -> {IF narrow THEN 10 ELSE 20}
       [] board.link = 32 -> {IF narrow THEN 5 ELSE 10}
       [] OTHER           -> {320}
GetCycleTime ==
  /\ pc = "cycletime" /\ pc' = "verify"
  /\ cycleTime' \in CycleTimes
  /\ UNCHANGED <<Mode, controls, runCount, text, status, averaged, Operation, buffer,
                 driver, addr, device, board>>

(* The write panel, by a comparison of the buffer.                         *)
VerifyDMAWrite ==
  /\ pc = "verify" /\ pc' = "finish"
  /\ "latedpc" \in Env \/ ~intEnabled \/ unseen = {}
  /\ text' = [text EXCEPT !["write"] =
       IF "write" \notin Mode THEN @
       ELSE IF buffer \in {"old", "data"} THEN "number" ELSE "FAIL"]
  /\ UNCHANGED <<Mode, controls, runCount, status, averaged, cycleTime, Operation, buffer,
                 driver, addr, device, board>>

MoreRuns == runCount < Runs
NextRun == runCount + 1

(* The rest of the event: the read panel, by the device's status, the      *)
(* controls and, if the panels show numbers, the next run.                 *)
Timer1_Timer ==
  /\ pc = "finish"
  /\ text' = [text EXCEPT !["read"] =
       IF "read" \notin Mode THEN @ ELSE IF status = "pass" THEN "number" ELSE "FAIL"]
  /\ LET again == (\A d \in Dirs : text'[d] = "number") /\ MoreRuns
     IN /\ pc' = IF again THEN "reset" ELSE "idle"
        /\ controls' = ~again
        /\ runCount' = IF again THEN NextRun ELSE 1
        /\ averaged' = [d \in Dirs |->
             IF ~again THEN 0
             ELSE averaged[d] + IF d \in Mode THEN 1 ELSE 0]
  /\ UNCHANGED <<Mode, status, cycleTime, Operation, buffer, driver, addr, device, board>>

StartStep ==
  \/ Reset \/ ClearReset
  \/ SetRegisters("write", "setwrite", "submitwrite") \/ SetDMAWrite
  \/ SetRegisters("read", "setread", "submitread") \/ SetDMARead \/ StartDMA
TimerStep == GetDMAStatus \/ GetCycleTime \/ VerifyDMAWrite \/ Timer1_Timer

Next ==
  \/ Form_Load \/ SetInterruptState \/ btnStart_Click
  \/ StartStep \/ StartFails \/ TimerStep \/ PollFails
  \/ \E d \in Dirs : DeviceDone(d) \/ DpcForIsr(d)

(* The form's thread goes on, the timer ticks, the device finishes what it *)
(* was told to do, and an enabled interrupt is served.                     *)
Fairness ==
  /\ WF_vars(StartStep) /\ WF_vars(TimerStep)
  /\ \A d \in Dirs : WF_vars(DeviceDone(d)) /\ WF_vars(DpcForIsr(d))
Spec == Init /\ [][Next]_vars /\ Fairness
-----------------------------------------------------------------------------
(***************************************************************************)
(* Properties.                                                             *)
(***************************************************************************)
(* When the device is started, each direction it moves data in has a       *)
(* current request and its address register the address of that request's  *)
(* mapped buffer, not the virtual one SetDMAWrite and SetDMARead put there. *)
StartsMapped ==
  [][StartDMA => \A d \in Operation : current[d] /\ addr[d] = "mapped"]_vars

(* The start bits are the appropriate ones: those of the directions the    *)
(* check boxes ask for.  Operation, from which they are taken, is put      *)
(* together by two calls and cleared where a run ends or fails to start.   *)
StartMatchesMode == [][StartDMA => Operation = Mode]_vars

(* Nothing that is asked for is left out, whatever Operation an earlier    *)
(* run has left; a read alone may take a write along.                      *)
StartsNoLess ==
  [][StartDMA => Mode \subseteq Operation
                   /\ (Operation = Mode \/ Mode = {"read"})]_vars

(* A number in the write panel is about data the device wrote in this run, *)
(* not about what an earlier one has left in the buffer.                   *)
ShownWriteIsReal ==
  [][VerifyDMAWrite /\ "write" \in Mode /\ text'["write"] = "number"
       => dev["write"] = "done" /\ buffer = "data"]_vars

(* A number in the read panel is about a finished read without data error. *)
ShownReadIsReal ==
  [][Timer1_Timer /\ "read" \in Mode /\ text'["read"] = "number"
       => dev["read"] = "done" /\ ~dataError]_vars

(* A write alone that the device finished is not shown as failed: its data *)
(* is in the buffer by the time VerifyDMAWrite compares.                   *)
GoodWriteIsNotFailed ==
  [][VerifyDMAWrite /\ Mode = {"write"} => text'["write"] = "number"]_vars

(* Between two runs the driver holds no request of an earlier one, which a *)
(* reset would leave without a length and so without an end.               *)
NoRequestLeft == pc = "idle" => \A d \in Dirs : ~current[d] /\ queued[d] = 0

(* The averages divide by the run count, which a failed start leaves as it *)
(* is: they never sum up more runs than they divide by.                    *)
AverageIsNotInflated ==
  pc = "polling" => \A d \in Dirs : averaged[d] =< runCount - 1

(* On a 64 bit path the cycle time is that of the table in the source,     *)
(* whatever the uninitialised family, and 32 ns for an illegal link width. *)
Tabulated ==
  CASE board.link = 1  -> IF board.virtex5 THEN 160 ELSE 320
    [] board.link = 2  -> 160
    [] board.link = 4  -> 80
    [] board.link = 8  -> 40
    [] board.link = 12 -> 30
    [] board.link = 16 -> 20
    [] board.link = 32 -> 10
    [] board.link = 0  -> 320
CycleTimeIsTabulated == board.width = 64 /\ cycleTime # 0 => cycleTime = Tabulated

(* The form between and within runs.                                       *)
AppInv == TypeOK /\ NoRequestLeft /\ AverageIsNotInflated /\ CycleTimeIsTabulated

(* A run moves the data it was asked to move, to and from mapped buffers,  *)
(* as long as no call fails once a request has been made.                  *)
StartsAsAsked == StartsMapped /\ StartMatchesMode

(* What a panel shows is what the device did: the numbers, whatever calls  *)
(* fail and however late the DPC is, and, with a DPC in time, the failures *)
(* of a write.                                                             *)
NumbersAreReal == ShownWriteIsReal /\ ShownReadIsReal
ShownIsReal == NumbersAreReal /\ GoodWriteIsNotFailed

(* Every run ends, and the form can start another unless a poll failed.    *)
RunEnds == pc = "reset" ~> (pc = "idle" /\ controls) \/ pc = "stuck"
=============================================================================
