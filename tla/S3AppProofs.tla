---------------------------- MODULE S3AppProofs -----------------------------
(***************************************************************************)
(* What the Windows application shows and asks for, for every number of    *)
(* runs, every board, and any order of device, interrupts and form.        *)
(***************************************************************************)
EXTENDS S3App, TLAPS

(***************************************************************************)
(* Without an assumption on the environment: types, averages and the cycle *)
(* time.                                                                   *)
(***************************************************************************)
FormTypes ==
  /\ pc \in Places /\ Mode \subseteq Dirs /\ controls \in BOOLEAN
  /\ runCount \in 1..Runs /\ text \in [Dirs -> {"", "number", "FAIL"}]
  /\ status \in {"running", "fail", "pass"}
  /\ averaged \in [Dirs -> 0..Runs] /\ cycleTime \in 0..320
  /\ Operation \subseteq Dirs /\ board \in Boards
DriverTypes ==
  /\ buffer \in {"fill", "cut", "old", "data"}
  /\ current \in [Dirs -> BOOLEAN] /\ queued \in [Dirs -> 0..MaxQueue]
  /\ lengthSet \in [Dirs -> BOOLEAN] /\ addr \in [Dirs -> {"none", "virtual", "mapped"}]
  /\ dev \in [Dirs -> {"idle", "running", "done"}] /\ unseen \subseteq Dirs
  /\ dataError \in BOOLEAN /\ intEnabled \in BOOLEAN

(* An average never sums up more runs than have ended.                     *)
Averages == \A d \in Dirs : averaged[d] =< runCount - 1

FormInv == FormTypes /\ DriverTypes /\ Averages /\ CycleTimeIsTabulated

LEMMA TypeParts == TypeOK <=> FormTypes /\ DriverTypes
BY DEF TypeOK, FormTypes, DriverTypes

(* The cycle time is one of the table, and on a 64 bit path only that one. *)
LEMMA CycleTimeValues ==
  ASSUME board \in Boards, NEW t \in CycleTimes
  PROVE  t \in 0..320 /\ (board.width = 64 => t = Tabulated)
<1>1. /\ board.width \in {32, 64} /\ board.link \in {0, 1, 2, 4, 8, 12, 16, 32}
      /\ board.virtex5 \in BOOLEAN
  BY DEF Boards
<1>2. CASE board.link = 1
  BY <1>1, <1>2 DEF CycleTimes, Tabulated
<1>3. CASE board.link = 2
  BY <1>1, <1>3 DEF CycleTimes, Tabulated
<1>4. CASE board.link = 4
  BY <1>1, <1>4 DEF CycleTimes, Tabulated
<1>5. CASE board.link = 8
  BY <1>1, <1>5 DEF CycleTimes, Tabulated
<1>6. CASE board.link = 12
  BY <1>1, <1>6 DEF CycleTimes, Tabulated
<1>7. CASE board.link = 16
  BY <1>1, <1>7 DEF CycleTimes, Tabulated
<1>8. CASE board.link = 32
  BY <1>1, <1>8 DEF CycleTimes, Tabulated
<1>9. CASE board.link = 0
  BY <1>1, <1>9 DEF CycleTimes, Tabulated
<1> QED BY <1>1, <1>2, <1>3, <1>4, <1>5, <1>6, <1>7, <1>8, <1>9

LEMMA FormInit == Init => FormInv
<1> SUFFICES ASSUME Init PROVE FormInv
  OBVIOUS
<1>1. FormTypes
  BY BoundAssumption DEF Init, FormTypes, Places
<1>2. DriverTypes
  <2>1. 0 \in 0..MaxQueue
    BY BoundAssumption
  <2> QED BY <2>1 DEF Init, DriverTypes
<1>3. Averages /\ CycleTimeIsTabulated
  BY DEF Init, Averages, CycleTimeIsTabulated
<1> QED BY <1>1, <1>2, <1>3 DEF FormInv

(* A step that leaves the counters of the form alone.                      *)
LEMMA CountersKept ==
  ASSUME FormInv, UNCHANGED <<runCount, averaged, cycleTime, board>>
  PROVE  /\ runCount' \in 1..Runs /\ averaged' \in [Dirs -> 0..Runs] /\ cycleTime' \in 0..320
         /\ board' \in Boards /\ Averages' /\ CycleTimeIsTabulated'
BY DEF FormInv, FormTypes, Averages, CycleTimeIsTabulated, Tabulated

(* A request is submitted only to a queue that has room for it.            *)
LEMMA SubmitTypes ==
  ASSUME DriverTypes, NEW d \in Dirs, Submit(d)
  PROVE  /\ current' \in [Dirs -> BOOLEAN] /\ queued' \in [Dirs -> 0..MaxQueue]
         /\ lengthSet' \in [Dirs -> BOOLEAN] /\ addr' \in [Dirs -> {"none", "virtual", "mapped"}]
<1>1. CASE current[d]
  <2>1. queued[d] + 1 \in 0..MaxQueue
    BY <1>1, BoundAssumption DEF Submit, DriverTypes
  <2> QED BY <1>1, <2>1 DEF Submit, DriverTypes
<1>2. CASE ~current[d]
  BY <1>2 DEF Submit, DriverTypes
<1> QED BY <1>1, <1>2

LEMMA FormStep == FormInv /\ [Next]_vars => FormInv'
<1> SUFFICES ASSUME FormInv, [Next]_vars PROVE FormInv'
  OBVIOUS
<1> USE DEF FormInv
<1>0. "read" \in Dirs /\ "write" \in Dirs
  BY DEF Dirs
<1>1. CASE UNCHANGED vars
  BY <1>1, CountersKept DEF vars, form, driver, device, FormTypes, DriverTypes
<1>2. CASE Form_Load
  BY <1>2, CountersKept DEF Form_Load, driver, device, FormTypes, DriverTypes, Places
<1>3. CASE SetInterruptState
  BY <1>3, CountersKept DEF SetInterruptState, form, driver, FormTypes, DriverTypes
<1>4. CASE btnStart_Click
  BY <1>4, CountersKept DEF btnStart_Click, driver, device, FormTypes, DriverTypes, Places
<1>5. CASE Reset
  BY <1>5, CountersKept DEF Reset, FormTypes, DriverTypes, Places
<1>6. CASE ClearReset
  BY <1>6, CountersKept DEF ClearReset, driver, device, FormTypes, DriverTypes, Places
<1>7. ASSUME NEW d \in Dirs, NEW here, NEW next \in Places, SetRegisters(d, here, next)
      PROVE  FormInv'
  BY <1>7, CountersKept DEF SetRegisters, Panel, Memset, driver, device, FormTypes, DriverTypes
<1>8. CASE SetDMAWrite
  BY <1>0, <1>8, CountersKept, SubmitTypes DEF SetDMAWrite, device, FormTypes, DriverTypes, Places
<1>9. CASE SetDMARead
  BY <1>0, <1>9, CountersKept, SubmitTypes DEF SetDMARead, device, FormTypes, DriverTypes, Places
<1>10. CASE StartDMA
  BY <1>10, CountersKept DEF StartDMA, driver, FormTypes, DriverTypes, Places
<1>11. CASE StartFails
  <2>1. addr' \in [Dirs -> {"none", "virtual", "mapped"}]
    BY <1>11 DEF StartFails, DriverTypes
  <2>2. text' \in [Dirs -> {"", "number", "FAIL"}]
    BY <1>11 DEF StartFails, FormTypes
  <2>3. buffer' \in {"fill", "cut", "old", "data"} /\ Operation' \subseteq Dirs
    BY <1>0, <1>11 DEF StartFails, DriverTypes, FormTypes
  <2> QED BY <1>11, <2>1, <2>2, <2>3, CountersKept DEF StartFails, driver, device, FormTypes,
             DriverTypes, Places
<1>12. CASE PollFails
  BY <1>12, CountersKept DEF PollFails, driver, device, FormTypes, DriverTypes, Places
<1>13. CASE Timer1_Timer
  <2>1. board' = board /\ cycleTime' = cycleTime
    BY <1>13 DEF Timer1_Timer, device
  <2>2. cycleTime' \in 0..320 /\ CycleTimeIsTabulated'
    BY <2>1 DEF FormTypes, CycleTimeIsTabulated, Tabulated
  <2>3. DriverTypes' /\ Operation' \subseteq Dirs /\ status' \in {"running", "fail", "pass"}
    BY <1>13 DEF Timer1_Timer, driver, device, DriverTypes, FormTypes
  <2>4. text' \in [Dirs -> {"", "number", "FAIL"}]
    BY <1>13 DEF Timer1_Timer, FormTypes
  <2> DEFINE again == (\A d \in Dirs : text'[d] = "number") /\ MoreRuns
  <2>5. /\ pc' = (IF again THEN "reset" ELSE "idle") /\ controls' = ~again
        /\ runCount' = (IF again THEN NextRun ELSE 1)
        /\ averaged' = [d \in Dirs |->
             IF ~again THEN 0 ELSE averaged[d] + IF d \in Mode THEN 1 ELSE 0]
        /\ UNCHANGED <<Mode, board>>
    BY <1>13 DEF Timer1_Timer, device
  <2>6. pc' \in Places /\ controls' \in BOOLEAN
    BY <2>5 DEF Places
  <2>7. again \in BOOLEAN /\ (again => runCount < Runs)
    BY DEF MoreRuns
  <2> HIDE DEF again
  <2>8. runCount' \in 1..Runs /\ averaged' \in [Dirs -> 0..Runs] /\ Averages'
    <3>1. CASE again
      <4>1. runCount' = runCount + 1 /\ runCount < Runs /\ runCount \in 1..Runs
        BY <2>5, <2>7, <3>1 DEF NextRun, FormTypes
      <4>2. ASSUME NEW d \in Dirs PROVE averaged'[d] \in 0..runCount
        <5>1. averaged[d] \in 0..Runs /\ averaged[d] <= runCount - 1
          BY DEF FormTypes, Averages
        <5>2. averaged'[d] = averaged[d] + IF d \in Mode THEN 1 ELSE 0
          BY <2>5, <3>1
        <5> QED BY <4>1, <5>1, <5>2
      <4>3. averaged' = [d \in Dirs |-> averaged'[d]]
        BY <2>5
      <4>4. 0..runCount \subseteq 0..Runs /\ runCount' \in 1..Runs
        BY <4>1, BoundAssumption
      <4> QED BY <4>1, <4>2, <4>3, <4>4 DEF Averages
    <3>2. CASE ~again
      BY <2>5, <3>2, BoundAssumption DEF Averages
    <3> QED BY <3>1, <3>2, <2>7
  <2> QED BY <2>2, <2>3, <2>4, <2>5, <2>6, <2>8 DEF FormTypes
<1>14. ASSUME NEW d \in Dirs, DeviceDone(d) PROVE FormInv'
  BY <1>14, CountersKept DEF DeviceDone, form, driver, FormTypes, DriverTypes
<1>15. ASSUME NEW d \in Dirs, DpcForIsr(d) PROVE FormInv'
  <2>1. 0 \in 0..MaxQueue /\ (\A c \in Dirs : (queued[c] > 0) \in BOOLEAN)
    BY BoundAssumption
  <2>2. DriverTypes'
    BY <1>15, <2>1 DEF DpcForIsr, DriverTypes
  <2> QED BY <1>15, <2>2, CountersKept DEF DpcForIsr, form, FormTypes
<1>16. CASE GetDMAStatus
  <2>1. DMAStatus \in {"running", "fail", "pass"}
    BY DEF DMAStatus
  <2> QED BY <1>16, <2>1, CountersKept DEF GetDMAStatus, driver, device, FormTypes, DriverTypes,
             Places
<1>17. CASE VerifyDMAWrite
  BY <1>0, <1>17, CountersKept DEF VerifyDMAWrite, driver, device, FormTypes, DriverTypes, Places
<1>18. CASE GetCycleTime
  <2>1. cycleTime' \in CycleTimes /\ board' = board /\ Tabulated' = Tabulated
    BY <1>18 DEF GetCycleTime, device, Tabulated
  <2>2. cycleTime' \in 0..320 /\ (board.width = 64 => cycleTime' = Tabulated)
    BY <2>1, CycleTimeValues DEF FormTypes
  <2>3. CycleTimeIsTabulated'
    BY <2>1, <2>2 DEF CycleTimeIsTabulated
  <2>4. DriverTypes' /\ Averages'
    BY <1>18 DEF GetCycleTime, driver, device, DriverTypes, Averages
  <2> QED BY <1>18, <2>2, <2>3, <2>4 DEF GetCycleTime, device, FormTypes, Places
<1> QED BY <1>0, <1>1, <1>2, <1>3, <1>4, <1>5, <1>6, <1>7, <1>8, <1>9, <1>10, <1>11, <1>12, <1>13,
           <1>14, <1>15, <1>16, <1>17, <1>18 DEF Next, StartStep, TimerStep, Places

(* Every variable of the application, the driver and the device stays in   *)
(* its type, also when requests are queued behind a failed start.          *)
THEOREM TypeCorrect == Spec => []TypeOK
<1>1. FormInv => TypeOK
  BY TypeParts DEF FormInv
<1> QED BY <1>1, FormInit, FormStep, PTL DEF Spec

(* The averages of a run divide by at least as many runs as they sum up,   *)
(* and on a 64 bit path the cycle time is the one of the table, although   *)
(* the family is not always initialised: in every environment.             *)
THEOREM FormCorrect == Spec => [](AverageIsNotInflated /\ CycleTimeIsTabulated)
<1>1. FormInv => AverageIsNotInflated /\ CycleTimeIsTabulated
  BY DEF FormInv, Averages, AverageIsNotInflated
<1> QED BY <1>1, FormInit, FormStep, PTL DEF Spec
-----------------------------------------------------------------------------
(***************************************************************************)
(* In every environment: what is started and what a number means.          *)
(***************************************************************************)
(* A run fills the buffer before its request is made, starts at least what *)
(* is asked for, and looks at its results when that is done.               *)
Results == {"cycletime", "verify", "finish"}
Gathered ==
  /\ pc \notin {"closed", "stuck", "idle"} => Mode # {}
  /\ pc \in {"setwrite", "submitwrite"} => "write" \in Mode
  /\ pc \in {"setread", "submitread"} =>
       "read" \in Mode /\ ("write" \in Mode => Operation = {"write"})
  /\ pc \in {"start", "polling"} => Mode \subseteq Operation /\ (Operation = Mode \/ Mode = {"read"})
  /\ pc \in {"setread", "submitread", "start", "polling", "cycletime", "verify"}
       /\ "write" \in Mode => buffer \notin {"old", "cut"}
  /\ pc \in Results => \A d \in Mode : dev[d] = "done"
  /\ pc \in Results /\ "read" \in Mode /\ status = "pass" => ~dataError

LEMMA GatheredStep ==
  FormInv /\ Gathered /\ [Next]_vars => Gathered'
<1> SUFFICES ASSUME FormInv, Gathered, [Next]_vars PROVE Gathered'
  OBVIOUS
<1> USE DEF Gathered, Results
<1>0. /\ "read" \in Dirs /\ "write" \in Dirs /\ \A d \in Dirs : d = "read" \/ d = "write"
      /\ Mode \subseteq Dirs
  BY DEF Dirs, FormInv, FormTypes
<1>1. CASE UNCHANGED vars
  BY <1>1 DEF vars, form, device
<1>2. CASE Form_Load
  BY <1>2 DEF Form_Load
<1>3. CASE SetInterruptState
  BY <1>3 DEF SetInterruptState, form
<1>4. CASE btnStart_Click \/ Reset
  <2>1. CASE btnStart_Click
    <3>1. Mode' \in (SUBSET Dirs) \ {{}} /\ pc' = "reset"
      BY <2>1 DEF btnStart_Click
    <3>2. Mode' # {}
      <4> HIDE DEF Gathered
      <4> QED BY <3>1
    <3> QED BY <3>1, <3>2
  <2>2. CASE Reset
    BY <2>2 DEF Reset
  <2> QED BY <1>4, <2>1, <2>2
<1>5. CASE ClearReset
  <2>1. pc' = (IF "write" \in Mode THEN "setwrite" ELSE "setread") /\ Mode' = Mode /\ Mode # {}
    BY <1>5 DEF ClearReset
  <2> QED BY <1>0, <2>1
<1>6. CASE SetRegisters("write", "setwrite", "submitwrite")
  BY <1>6 DEF SetRegisters
<1>7. CASE SetRegisters("read", "setread", "submitread")
  BY <1>7 DEF SetRegisters, Memset
<1>8. CASE SetDMAWrite
  BY <1>0, <1>8 DEF SetDMAWrite
<1>9. CASE SetDMARead
  BY <1>0, <1>9 DEF SetDMARead
<1>10. CASE StartDMA
  BY <1>10 DEF StartDMA
<1>11. CASE StartFails \/ PollFails
  BY <1>11 DEF StartFails, PollFails
<1>12. CASE GetDMAStatus
  <2>1. \A d \in Mode : dev[d] = "done"
    BY <1>12 DEF GetDMAStatus, DMAStatus
  <2>2. "read" \in Mode /\ DMAStatus = "pass" => ~dataError
    BY <1>12 DEF GetDMAStatus, DMAStatus
  <2> QED BY <1>12, <2>1, <2>2 DEF GetDMAStatus, device
<1>13. CASE GetCycleTime \/ VerifyDMAWrite
  BY <1>13 DEF GetCycleTime, VerifyDMAWrite, device
<1>14. CASE Timer1_Timer
  BY <1>14 DEF Timer1_Timer
<1>15. ASSUME NEW d \in Dirs, DeviceDone(d) PROVE Gathered'
  <2>1. /\ dev[d] = "running" /\ UNCHANGED form /\ Operation' = Operation
        /\ \A c \in Dirs : dev'[c] = IF c = d THEN "done" ELSE dev[c]
        /\ buffer' \in {buffer, "data"}
        /\ d # "read" => dataError' = dataError
    BY <1>15 DEF DeviceDone, FormInv, DriverTypes
  <2>2. pc \in Results => d \notin Mode
    BY <2>1
  <2> QED BY <1>0, <2>1, <2>2 DEF form
<1>16. ASSUME NEW d \in Dirs, DpcForIsr(d) PROVE Gathered'
  BY <1>16 DEF DpcForIsr, form
<1> QED BY <1>1, <1>2, <1>3, <1>4, <1>5, <1>6, <1>7, <1>8, <1>9, <1>10, <1>11, <1>12, <1>13, <1>14,
           <1>15, <1>16 DEF Next, StartStep, TimerStep

LEMMA GatheredHolds == Spec => [](FormInv /\ Gathered)
<1>1. Init => FormInv /\ Gathered
  BY FormInit DEF Init, Gathered, Results
<1>2. FormInv /\ Gathered /\ [Next]_vars => (FormInv /\ Gathered)'
  BY FormStep, GatheredStep
<1> QED BY <1>1, <1>2, PTL DEF Spec

(* Whatever calls have failed and whatever they left in Operation, all     *)
(* that is asked for is started, and more only with a read alone.          *)
THEOREM StartsEnough == Spec => StartsNoLess
<1> DEFINE Enough == StartDMA => Mode \subseteq Operation /\ (Operation = Mode \/ Mode = {"read"})
<1>1. FormInv /\ Gathered => Enough
  BY DEF Gathered, StartDMA
<1>2. FormInv /\ Gathered /\ [Next]_vars => [Enough]_vars
  BY <1>1
<1> QED BY <1>2, GatheredHolds, PTL DEF Spec, StartsNoLess

(* Whatever calls fail and however late the DPC is, a number in the write  *)
(* panel is about data the device wrote in this run, one in the read panel *)
(* about a finished read without data error.                               *)
THEOREM NumbersReal == Spec => NumbersAreReal
<1> DEFINE Write == VerifyDMAWrite /\ "write" \in Mode /\ text'["write"] = "number"
                      => dev["write"] = "done" /\ buffer = "data"
           Read == Timer1_Timer /\ "read" \in Mode /\ text'["read"] = "number"
                      => dev["read"] = "done" /\ ~dataError
<1>1. FormInv /\ Gathered => Write /\ Read
  <2> SUFFICES ASSUME FormInv, Gathered PROVE Write /\ Read
    OBVIOUS
  <2>1. Write
    <3> SUFFICES ASSUME VerifyDMAWrite, "write" \in Mode, text'["write"] = "number"
                 PROVE  dev["write"] = "done" /\ buffer = "data"
      OBVIOUS
    <3>1. pc = "verify" /\ text' = [text EXCEPT !["write"] =
            IF buffer \in {"old", "data"} THEN "number" ELSE "FAIL"]
      BY DEF VerifyDMAWrite
    <3>2. buffer \in {"old", "data"}
      BY <3>1 DEF FormInv, FormTypes, Dirs
    <3> QED BY <3>1, <3>2 DEF Gathered, Results
  <2>2. Read
    <3> SUFFICES ASSUME Timer1_Timer, "read" \in Mode, text'["read"] = "number"
                 PROVE  dev["read"] = "done" /\ ~dataError
      OBVIOUS
    <3>1. pc = "finish" /\ text' = [text EXCEPT !["read"] =
            IF status = "pass" THEN "number" ELSE "FAIL"]
      BY DEF Timer1_Timer
    <3>2. status = "pass"
      BY <3>1 DEF FormInv, FormTypes, Dirs
    <3> QED BY <3>1, <3>2 DEF Gathered, Results
  <2> QED BY <2>1, <2>2
<1>2. FormInv /\ Gathered /\ [Next]_vars => [Write]_vars /\ [Read]_vars
  BY <1>1
<1> QED BY <1>2, GatheredHolds, PTL
        DEF Spec, NumbersAreReal, ShownWriteIsReal, ShownReadIsReal
-----------------------------------------------------------------------------
(***************************************************************************)
(* With interrupts on, a DPC that is through before the form's next poll,  *)
(* and calls that fail only before a request is made: what the driver and  *)
(* the device have of the run, for each place of the form.                 *)
(***************************************************************************)
Calm == Env \subseteq {"failure", "dataerror"}

(* The directions with a request in this run, and whose DPC is through.    *)
Polled == {"polling", "cycletime", "verify"}
Asked ==
  CASE pc \in {"setread", "submitread"}        -> Mode \ {"read"}
    [] pc \in {"start", "stuck"} \cup Polled   -> Mode
    [] OTHER                                   -> {}
Served(d) == dev[d] = "done" /\ d \notin unseen

(* The driver's requests are those of this run, programmed and not queued. *)
Requested ==
  /\ \A d \in Dirs : current[d] => d \in Asked /\ lengthSet[d] /\ addr[d] = "mapped"
  /\ \A d \in Dirs : queued[d] = 0
  /\ pc \in {"setread", "submitread", "start"} => \A d \in Asked : current[d]
  /\ pc \notin {"stuck", "cycletime", "verify"} => Operation = Asked
  /\ pc \in {"cycletime", "verify"} => Operation = {}

(* A run has a direction, and its write buffer no data of an earlier one.  *)
Prepared ==
  /\ pc \notin {"closed", "stuck", "idle"} => Mode # {}
  /\ pc \in {"setwrite", "submitwrite"} => "write" \in Mode
  /\ pc \in {"setread", "submitread"} => "read" \in Mode
  /\ pc \in {"setread", "submitread", "start"} \cup Polled /\ "write" \in Mode =>
       buffer \notin {"old", "cut"}

(* The device moves from its start until the poll that sees it done, and   *)
(* the first DPC ends all requests.                                        *)
Moving ==
  /\ pc \in {"clear", "setwrite", "submitwrite", "setread", "submitread", "start"} =>
       (\A d \in Dirs : dev[d] = "idle") /\ unseen = {}
  /\ pc \in {"closed", "idle", "reset", "cycletime", "verify", "finish"} =>
       \A d \in Dirs : dev[d] # "running"
  /\ \A d \in unseen : dev[d] = "done"
  /\ intEnabled = TRUE
  /\ pc \in Polled =>
       /\ \A d \in Dirs : dev[d] # "idle" <=> d \in Mode
       /\ (\E d \in Dirs : Served(d)) => \A d \in Dirs : ~current[d]
       /\ (\A d \in Dirs : ~Served(d)) => \A d \in Mode : current[d]
       /\ Mode = {"write"} /\ Served("write") => buffer = "data"

RunInv == FormTypes /\ DriverTypes /\ Requested /\ Prepared /\ Moving

LEMMA RunInit == Init => RunInv
<1> SUFFICES ASSUME Init PROVE RunInv
  OBVIOUS
<1>1. FormTypes /\ DriverTypes
  BY FormInit DEF FormInv
<1>2. Requested /\ Prepared /\ Moving
  BY DEF Init, Requested, Prepared, Moving, Asked, Polled
<1> QED BY <1>1, <1>2 DEF RunInv

(* A request finds nothing current.                                        *)
LEMMA SubmitFirst ==
  ASSUME DriverTypes, Requested, NEW d \in Dirs, d \notin Asked, Submit(d)
  PROVE  /\ queued' = queued
         /\ \A c \in Dirs : current'[c] = IF c = d THEN TRUE ELSE current[c]
         /\ \A c \in Dirs : lengthSet'[c] = IF c = d THEN TRUE ELSE lengthSet[c]
         /\ \A c \in Dirs : addr'[c] = IF c = d THEN "mapped" ELSE addr[c]
BY DEF DriverTypes, Requested, Submit

(* A call fails, in this environment, while nothing is current.            *)
LEMMA FailsEarly ==
  ASSUME Calm, MayFail
  PROVE  pc \in {"reset", "clear", "setwrite", "setread"} /\ \A d \in Dirs : ~current[d]
BY DEF Calm, MayFail

(* The check boxes, one by one.                                            *)
LEMMA Modes ==
  ASSUME NEW m, m \subseteq Dirs
  PROVE  /\ "write" \in m /\ "read" \in m => m = {"read", "write"} /\ m \ {"read"} = {"write"}
         /\ "write" \in m /\ "read" \notin m => m = {"write"}
         /\ "write" \notin m => m \ {"read"} = {} /\ ("read" \in m => m = {"read"})
BY DEF Dirs

(* The first DPC ends every request, and finds none queued.                *)
LEMMA AllEnd ==
  ASSUME DriverTypes, Requested, NEW d \in Dirs, DpcForIsr(d), NEW c \in Dirs
  PROVE  ~current'[c] /\ queued'[c] = 0
<1>1. queued[c] = 0 /\ (current[c] => lengthSet[c])
  BY DEF Requested
<1>2. /\ current'[c] = (IF c \in Ending THEN queued[c] > 0 ELSE current[c])
      /\ queued'[c] = (IF c \in Ending THEN 0 ELSE queued[c])
  BY DEF DpcForIsr
<1>3. CASE c \in Ending
  <2>1. (queued[c] > 0) = FALSE
    BY <1>1
  <2> QED BY <1>2, <1>3, <2>1
<1>4. CASE c \notin Ending
  BY <1>1, <1>2, <1>4 DEF Ending
<1> QED BY <1>3, <1>4

LEMMA RequestedStep ==
  ASSUME Calm, RunInv, [Next]_vars PROVE Requested'
<1> USE DEF RunInv, Requested, Asked, Polled
<1>0. "read" \in Dirs /\ "write" \in Dirs /\ \A d \in Dirs : d = "read" \/ d = "write"
  BY DEF Dirs
<1>1. CASE UNCHANGED vars
  BY <1>1 DEF vars, form, driver
<1>2. CASE Form_Load
  BY <1>2 DEF Form_Load, driver
<1>3. CASE SetInterruptState
  BY <1>3 DEF SetInterruptState, form, driver
<1>4. CASE btnStart_Click
  BY <1>4 DEF btnStart_Click, driver
<1>5. CASE Reset
  BY <1>5 DEF Reset
<1>6. CASE ClearReset
  <2>1. pc = "clear" /\ pc' \in {"setwrite", "setread"} /\ Mode' = Mode /\ Operation' = Operation
        /\ UNCHANGED driver /\ UNCHANGED addr
    BY <1>6 DEF ClearReset
  <2>2. Asked = {} /\ pc' = (IF "write" \in Mode THEN "setwrite" ELSE "setread")
    BY <1>6 DEF ClearReset
  <2>3. Asked' = {}
    <3>1. CASE "write" \in Mode
      BY <2>2, <3>1
    <3>2. CASE "write" \notin Mode
      <4>1. Mode \ {"read"} = {}
        BY <3>2, Modes DEF FormTypes
      <4> QED BY <2>1, <2>2, <3>2, <4>1
    <3> QED BY <3>1, <3>2
  <2> QED BY <2>1, <2>2, <2>3 DEF driver
<1>7. CASE SetRegisters("write", "setwrite", "submitwrite")
  BY <1>7 DEF SetRegisters, driver
<1>8. CASE SetRegisters("read", "setread", "submitread")
  BY <1>0, <1>8 DEF SetRegisters, driver, DriverTypes
<1>9. CASE SetDMAWrite
  <2>1. Submit("write") /\ "write" \notin Asked /\ pc = "submitwrite"
    BY <1>9 DEF SetDMAWrite
  <2>2. "write" \in Mode /\ Mode \subseteq Dirs /\ Asked = {}
    BY <2>1 DEF Prepared, FormTypes
  <2>3. /\ pc' = (IF "read" \in Mode THEN "setread" ELSE "start")
        /\ Mode' = Mode /\ Operation' = {"write"}
    BY <1>9 DEF SetDMAWrite
  <2>4. pc' \in {"setread", "start"} /\ Asked' = {"write"}
    <3>1. CASE "read" \in Mode
      <4>1. Mode \ {"read"} = {"write"}
        BY <1>0, <2>2
      <4> QED BY <2>3, <3>1, <4>1
    <3>2. CASE "read" \notin Mode
      <4>1. Mode = {"write"}
        BY <1>0, <2>2, <3>2
      <4> QED BY <2>3, <3>2, <4>1
    <3> QED BY <3>1, <3>2
  <2>5. /\ queued' = queued
        /\ \A c \in Dirs : current'[c] = IF c = "write" THEN TRUE ELSE current[c]
        /\ \A c \in Dirs : lengthSet'[c] = IF c = "write" THEN TRUE ELSE lengthSet[c]
        /\ \A c \in Dirs : addr'[c] = IF c = "write" THEN "mapped" ELSE addr[c]
    BY <1>0, <2>1, SubmitFirst
  <2>6. \A c \in Dirs : current'[c] => c \in Asked' /\ lengthSet'[c] /\ addr'[c] = "mapped"
    BY <2>2, <2>4, <2>5
  <2>7. \A c \in Asked' : current'[c]
    BY <1>0, <2>4, <2>5
  <2> HIDE DEF Asked
  <2> QED BY <2>3, <2>4, <2>5, <2>6, <2>7
<1>10. CASE SetDMARead
  <2>1. Submit("read") /\ "read" \notin Asked /\ pc = "submitread" /\ "read" \in Mode
    BY <1>10 DEF SetDMARead, Prepared
  <2>2. Operation = Mode \ {"read"} /\ Asked = Mode \ {"read"}
    BY <2>1
  <2>3. Mode' = Mode /\ pc' = "start"
        /\ Operation' = IF Operation = {"write"} THEN {"read", "write"} ELSE {"read"}
    BY <1>10 DEF SetDMARead
  <2>4. Operation' = Mode
    <3>1. CASE "write" \in Mode
      <4>1. Mode = {"read", "write"} /\ Operation = {"write"}
        BY <2>1, <2>2, <3>1, Modes DEF FormTypes
      <4> QED BY <2>3, <4>1
    <3>2. CASE "write" \notin Mode
      <4>1. Mode = {"read"} /\ Operation = {}
        BY <2>1, <2>2, <3>2, Modes DEF FormTypes
      <4> QED BY <2>3, <4>1
    <3> QED BY <3>1, <3>2
  <2>5. /\ queued' = queued
        /\ \A c \in Dirs : current'[c] = IF c = "read" THEN TRUE ELSE current[c]
        /\ \A c \in Dirs : lengthSet'[c] = IF c = "read" THEN TRUE ELSE lengthSet[c]
        /\ \A c \in Dirs : addr'[c] = IF c = "read" THEN "mapped" ELSE addr[c]
    BY <1>0, <2>1, SubmitFirst
  <2>6. Asked' = Mode /\ Mode \subseteq Dirs
    BY <2>3 DEF FormTypes
  <2>7. \A c \in Dirs : current'[c] => c \in Mode /\ lengthSet'[c] /\ addr'[c] = "mapped"
    BY <2>1, <2>2, <2>5
  <2>8. \A c \in Mode : current'[c]
    <3>1. \A c \in Mode \ {"read"} : current[c]
      BY <2>1, <2>2
    <3>2. Mode \subseteq Dirs
      BY <2>6
    <3> HIDE DEF Requested, Asked, RunInv
    <3> QED BY <2>5, <3>1, <3>2
  <2> HIDE DEF Asked
  <2> QED BY <2>3, <2>4, <2>5, <2>6, <2>7, <2>8
<1>11. CASE StartDMA
  BY <1>11 DEF StartDMA, driver
<1>12. CASE StartFails
  <2>1. pc \in {"reset", "clear", "setwrite", "setread"} /\ \A d \in Dirs : ~current[d]
    BY <1>12, FailsEarly DEF StartFails
  <2>2. Operation = {}
    BY <2>1 DEF FormTypes
  <2>3. Operation' = {} /\ pc' = "idle" /\ UNCHANGED driver
    BY <1>12, <2>1, <2>2 DEF StartFails
  <2> QED BY <2>1, <2>3 DEF driver
<1>13. CASE PollFails
  BY <1>13 DEF PollFails, driver
<1>14. CASE Timer1_Timer
  <2>1. pc = "finish" /\ pc' \in {"reset", "idle"} /\ Operation' = Operation /\ UNCHANGED driver
    BY <1>14 DEF Timer1_Timer
  <2>2. \A d \in Dirs : ~current[d]
    BY <2>1
  <2> QED BY <2>1, <2>2 DEF driver
<1>17. CASE GetDMAStatus
  BY <1>17 DEF GetDMAStatus, driver
<1>18. CASE GetCycleTime
  BY <1>18 DEF GetCycleTime, driver
<1>19. CASE VerifyDMAWrite
  <2>1. unseen = {} /\ pc = "verify" /\ Mode # {} /\ Operation = {}
    BY <1>19 DEF VerifyDMAWrite, Calm, Moving, Prepared
  <2>2. \A d \in Mode : dev[d] = "done"
    BY <2>1 DEF Moving, DriverTypes, FormTypes
  <2>3. \A d \in Dirs : ~current[d]
    BY <2>1, <2>2 DEF Moving, Served, FormTypes
  <2>4. pc' = "finish" /\ Operation' = Operation /\ UNCHANGED driver
    BY <1>19 DEF VerifyDMAWrite
  <2> QED BY <2>1, <2>3, <2>4 DEF driver
<1>15. ASSUME NEW d \in Dirs, DeviceDone(d) PROVE Requested'
  BY <1>15 DEF DeviceDone, form, driver
<1>16. ASSUME NEW d \in Dirs, DpcForIsr(d) PROVE Requested'
  <2>1. Ending = {c \in Dirs : current[c]}
    BY DEF Ending
  <2>2. ASSUME NEW c \in Dirs PROVE ~current'[c] /\ queued'[c] = 0
    BY <1>16, AllEnd
  <2>3. pc \notin {"setread", "submitread", "start"}
    BY <1>16 DEF DpcForIsr, Moving
  <2> QED BY <1>16, <2>2, <2>3 DEF DpcForIsr, form
<1> QED BY <1>1, <1>2, <1>3, <1>4, <1>5, <1>6, <1>7, <1>8, <1>9, <1>10, <1>11, <1>12, <1>13, <1>14,
           <1>15, <1>16, <1>17, <1>18, <1>19 DEF Next, StartStep, TimerStep

LEMMA PreparedStep ==
  ASSUME Calm, RunInv, [Next]_vars PROVE Prepared'
<1> USE DEF RunInv, Prepared, Polled
<1>1. CASE UNCHANGED vars
  BY <1>1 DEF vars, form
<1>2. CASE Form_Load \/ SetInterruptState
  BY <1>2 DEF Form_Load, SetInterruptState, form
<1>3. CASE btnStart_Click
  <2>1. Mode' # {} /\ pc' = "reset"
    <3>1. Mode' \in (SUBSET Dirs) \ {{}} /\ pc' = "reset"
      BY <1>3 DEF btnStart_Click
    <3> HIDE DEF RunInv, Prepared
    <3> QED BY <3>1
  <2> HIDE DEF RunInv
  <2> QED BY <2>1
<1>4. CASE Reset
  BY <1>4 DEF Reset
<1>5. CASE ClearReset
  BY <1>5 DEF ClearReset, FormTypes, Dirs
<1>6. CASE SetRegisters("write", "setwrite", "submitwrite") \/ SetRegisters("read", "setread", "submitread")
  BY <1>6 DEF SetRegisters, Memset
<1>7. CASE SetDMAWrite
  BY <1>7 DEF SetDMAWrite
<1>8. CASE SetDMARead \/ StartDMA
  BY <1>8 DEF SetDMARead, StartDMA
<1>9. CASE StartFails \/ PollFails
  BY <1>9 DEF StartFails, PollFails
<1>10. CASE Timer1_Timer
  <2>1. pc' \in {"reset", "idle"} /\ Mode' = Mode /\ Mode # {}
    BY <1>10 DEF Timer1_Timer
  <2> QED BY <2>1
<1>11. ASSUME NEW d \in Dirs, DeviceDone(d) PROVE Prepared'
  BY <1>11 DEF DeviceDone, form
<1>13. CASE GetDMAStatus \/ GetCycleTime \/ VerifyDMAWrite
  BY <1>13 DEF GetDMAStatus, GetCycleTime, VerifyDMAWrite
<1>12. ASSUME NEW d \in Dirs, DpcForIsr(d) PROVE Prepared'
  BY <1>12 DEF DpcForIsr, form
<1> QED BY <1>1, <1>2, <1>3, <1>4, <1>5, <1>6, <1>7, <1>8, <1>9, <1>10, <1>11, <1>12, <1>13
        DEF Next, StartStep, TimerStep

LEMMA MovingStep ==
  ASSUME Calm, RunInv, [Next]_vars PROVE Moving'
<1> USE DEF RunInv, Moving, Served, Polled
<1>0. "read" \in Dirs /\ "write" \in Dirs /\ \A d \in Dirs : d = "read" \/ d = "write"
  BY DEF Dirs
<1>1. CASE UNCHANGED vars
  BY <1>1 DEF vars, form, driver, device
<1>2. CASE Form_Load \/ btnStart_Click
  BY <1>2 DEF Form_Load, btnStart_Click, device
<1>3. CASE SetInterruptState
  BY <1>3 DEF SetInterruptState, form, Calm
<1>4. CASE Reset
  BY <1>4 DEF Reset
<1>5. CASE ClearReset
  BY <1>5 DEF ClearReset, device
<1>6. CASE SetRegisters("write", "setwrite", "submitwrite") \/ SetRegisters("read", "setread", "submitread")
  BY <1>6 DEF SetRegisters, device
<1>7. CASE SetDMAWrite \/ SetDMARead
  BY <1>7 DEF SetDMAWrite, SetDMARead, device
<1>8. CASE StartDMA
  <2>1. Operation = Mode /\ \A d \in Mode : current[d]
    BY <1>8 DEF StartDMA, Requested, Asked
  <2>2. \A d \in Dirs : dev'[d] = IF d \in Mode THEN "running" ELSE "idle"
    BY <1>8, <2>1 DEF StartDMA
  <2>3. UNCHANGED <<driver, unseen, intEnabled, Mode>> /\ pc' = "polling" /\ unseen = {}
    BY <1>8 DEF StartDMA
  <2> QED BY <1>0, <2>1, <2>2, <2>3 DEF driver
<1>9. CASE StartFails
  <2>1. pc \in {"reset", "clear", "setwrite", "setread"}
    BY <1>9, FailsEarly DEF StartFails
  <2> QED BY <1>9, <2>1 DEF StartFails, device
<1>10. CASE PollFails
  BY <1>10 DEF PollFails, device
<1>11. CASE Timer1_Timer
  <2>1. pc = "finish" /\ pc' \in {"reset", "idle"} /\ UNCHANGED device
    BY <1>11 DEF Timer1_Timer
  <2> QED BY <2>1 DEF device
<1>14. CASE GetDMAStatus
  <2>1. pc = "polling" /\ Operation = Mode
    BY <1>14 DEF GetDMAStatus, Requested, Asked
  <2>2. \A d \in Mode : dev[d] = "done"
    BY <1>14, <2>1 DEF GetDMAStatus, DMAStatus
  <2>3. \A d \in Dirs : dev[d] # "running"
    BY <2>1, <2>2
  <2>4. pc' = "cycletime" /\ UNCHANGED <<Mode, buffer, driver, device>>
    BY <1>14 DEF GetDMAStatus
  <2> QED BY <2>1, <2>3, <2>4 DEF driver, device
<1>15. CASE GetCycleTime
  BY <1>15 DEF GetCycleTime, driver, device
<1>16. CASE VerifyDMAWrite
  BY <1>16 DEF VerifyDMAWrite, device
<1>12. ASSUME NEW d \in Dirs, DeviceDone(d) PROVE Moving'
  <2>1. dev[d] = "running" /\ pc \in {"polling", "stuck"}
    BY <1>12 DEF DeviceDone, FormTypes, Places
  <2>2. /\ unseen' = unseen \cup {d} /\ UNCHANGED <<pc, Mode, current, intEnabled>>
        /\ \A c \in Dirs : dev'[c] = IF c = d THEN "done" ELSE dev[c]
    BY <1>12 DEF DeviceDone, form, driver, DriverTypes
  <2>3. \A c \in Dirs : Served(c)' <=> Served(c)
    BY <2>1, <2>2
  <2>4. Served("write") => d # "write" /\ (Mode = {"write"} => pc \notin Polled)
    BY <1>0, <2>1
  <2>5. \A c \in Dirs : dev'[c] # "idle" <=> dev[c] # "idle"
    BY <2>1, <2>2
  <2>6. \A c \in unseen' : dev'[c] = "done"
    BY <2>2 DEF DriverTypes
  <2>7. pc \notin {"clear", "setwrite", "submitwrite", "setread", "submitread", "start",
                  "closed", "idle", "reset", "cycletime", "verify", "finish"}
    BY <2>1
  <2>8. ASSUME pc' \in Polled
        PROVE  /\ \A c \in Dirs : dev'[c] # "idle" <=> c \in Mode'
               /\ (\E c \in Dirs : Served(c)') => \A c \in Dirs : ~current'[c]
               /\ (\A c \in Dirs : ~Served(c)') => \A c \in Mode' : current'[c]
               /\ Mode' = {"write"} /\ Served("write")' => buffer' = "data"
    <3> HIDE DEF Served
    <3> QED BY <1>0, <2>1, <2>2, <2>3, <2>4, <2>5, <2>8
  <2>9. intEnabled' = TRUE
    BY <2>2
  <2> HIDE DEF RunInv
  <2> QED BY <2>2, <2>6, <2>7, <2>8, <2>9
<1>13. ASSUME NEW d \in Dirs, DpcForIsr(d) PROVE Moving'
  <2>1. /\ d \in unseen /\ unseen' = unseen \ {d}
        /\ UNCHANGED <<pc, Mode, dev, intEnabled>>
        /\ buffer' = IF "write" \in Ending /\ dev["write"] = "done" THEN "data" ELSE buffer
    BY <1>13 DEF DpcForIsr, form
  <2>2. \A c \in Dirs : ~current'[c]
    BY <1>13, AllEnd
  <2>3. Served(d)'
    BY <2>1
  <2>4. ASSUME pc \in Polled, Mode = {"write"} PROVE buffer' = "data"
    <3>1. d = "write"
      BY <1>0, <2>1, <2>4
    <3>2. ~Served(d) /\ ~Served("read")
      BY <1>0, <2>1, <2>4
    <3>3. "write" \in Ending
      BY <1>0, <2>4, <3>1, <3>2 DEF Ending, Requested
    <3> QED BY <2>1, <3>1, <3>3
  <2> QED BY <2>1, <2>2, <2>3, <2>4
<1> QED BY <1>1, <1>2, <1>3, <1>4, <1>5, <1>6, <1>7, <1>8, <1>9, <1>10, <1>11, <1>12, <1>13, <1>14,
           <1>15, <1>16 DEF Next, StartStep, TimerStep

LEMMA RunInvHolds == ASSUME Calm PROVE Spec => [](FormInv /\ RunInv)
<1>1. Init => FormInv /\ RunInv
  BY FormInit, RunInit
<1>2. FormInv /\ RunInv /\ [Next]_vars => (FormInv /\ RunInv)'
  <2>1. FormInv /\ [Next]_vars => FormInv' /\ FormTypes' /\ DriverTypes'
    BY FormStep DEF FormInv
  <2> QED BY <2>1, RequestedStep, PreparedStep, MovingStep DEF RunInv
<1> QED BY <1>1, <1>2, PTL DEF Spec
-----------------------------------------------------------------------------
(* While no call fails after a request is made, interrupts are on and the  *)
(* DPC is in time: between two runs the driver has no request left that a  *)
(* reset would take the length of; averages and cycle time as above.       *)
THEOREM AppCorrect == ASSUME Calm PROVE Spec => []AppInv
<1>1. FormInv /\ RunInv => AppInv
  <2> SUFFICES ASSUME FormInv, RunInv PROVE AppInv
    OBVIOUS
  <2>1. TypeOK /\ AverageIsNotInflated /\ CycleTimeIsTabulated
    BY TypeParts DEF FormInv, Averages, AverageIsNotInflated
  <2>2. NoRequestLeft
    BY DEF RunInv, Requested, Asked, Polled, NoRequestLeft
  <2> QED BY <2>1, <2>2 DEF AppInv
<1> QED BY <1>1, RunInvHolds, PTL

(* While no call fails after a request is made, so that Operation is empty *)
(* when a run begins: the device is started in the directions the check    *)
(* boxes ask for, each with a mapped buffer in its address register.       *)
THEOREM StartsCorrect == ASSUME Calm PROVE Spec => StartsAsAsked
<1> DEFINE Mapped == StartDMA => \A d \in Operation : current[d] /\ addr[d] = "mapped"
           Matches == StartDMA => Operation = Mode
<1>1. FormInv /\ RunInv => Mapped /\ Matches
  BY DEF RunInv, Requested, Asked, Polled, StartDMA, FormTypes
<1>2. FormInv /\ RunInv /\ [Next]_vars => [Mapped]_vars /\ [Matches]_vars
  BY <1>1
<1> QED BY <1>2, RunInvHolds, PTL DEF Spec, StartsAsAsked, StartsMapped, StartMatchesMode

(* What NumbersReal says of the numbers, and a write alone that the device *)
(* finished is not shown as failed.                                        *)
THEOREM ShownReal == ASSUME Calm PROVE Spec => ShownIsReal
<1> DEFINE Good == VerifyDMAWrite /\ Mode = {"write"} => text'["write"] = "number"
<1>1. FormInv /\ RunInv => Good
  <2> SUFFICES ASSUME FormInv, RunInv, VerifyDMAWrite, Mode = {"write"}
               PROVE  text'["write"] = "number"
    OBVIOUS
  <2>1. /\ pc = "verify" /\ unseen = {}
        /\ text' = [text EXCEPT !["write"] =
             IF buffer \in {"old", "data"} THEN "number" ELSE "FAIL"]
    BY DEF VerifyDMAWrite, Calm, RunInv, Moving
  <2>2. "write" \in Dirs /\ dev["write"] = "done"
    BY <2>1 DEF Dirs, RunInv, Moving, Polled, DriverTypes
  <2>3. buffer = "data"
    BY <2>1, <2>2 DEF RunInv, Moving, Polled, Served
  <2> QED BY <2>1, <2>2, <2>3 DEF RunInv, FormTypes
<1>2. FormInv /\ RunInv /\ [Next]_vars => [Good]_vars
  BY <1>1
<1> QED BY <1>2, RunInvHolds, NumbersReal, PTL DEF Spec, ShownIsReal, GoodWriteIsNotFailed
=============================================================================
