------------------------------ MODULE XbmdApp ------------------------------
(***************************************************************************)
(* The Linux application on top of the driver: the start of the program    *)
(* and the search of the capability list (xbmd_main.cpp, cfg.cpp), the     *)
(* handlers of the GUI (xbmd_main.cpp), one DMA iteration (bmd.cpp), the   *)
(* driver's file operations (xbmd.c), and the device as they see it.       *)
(*                                                                         *)
(* The program has one thread.  The device moves data between any two of   *)
(* its steps, and the module may be loaded and unloaded around it.         *)
(* The driver's ioctl never fails, so the application's tests of its       *)
(* result are left out, and wr_success is the text of the result.  Only    *)
(* the length of a write matters to a property; mbps counts the summands.  *)
(* A definition with a suffix is the next one with a plausible bug.        *)
(***************************************************************************)
EXTENDS XbmdDriver, FiniteSets

CONSTANTS
  Env,       (* what may happen, see below                                 *)
  Boards,    (* capability list and link of the device                     *)
  MaxIter,   (* the greatest number of iterations                          *)
  MaxSize,   (* the greatest length of a transfer                          *)
  MaxChanges (* how often the user changes a setting in one process        *)

(* "late"       the device need not finish within the 30 ms of a run       *)
(* "fatal"      the device may report a fatal error                        *)
(* "dataerror"  the device may find an error in the data it reads          *)
(* "linkdown"   configuration reads of a run may return all ones           *)
(* "nolog"      the log file of a run may not open                         *)
(* "early"      the device file may be opened before init has returned     *)
(* "rmmod"      the module may be removed while the file is open or the    *)
(*              device is running: its operations have no owner            *)
Environment == {"late", "fatal", "dataerror", "linkdown", "nolog", "early", "rmmod"}
Dirs == {"read", "write"}
Capabilities == {"PM", "MSI", "PCIE", "OTHER"}
ASSUME EnvAssumption == Env \subseteq Environment
ASSUME BoundAssumption == MaxIter \in Nat \ {0} /\ MaxSize \in Nat \ {0}
                           /\ MaxChanges \in Nat
ASSUME BoardAssumption ==
  \A b \in Boards : /\ b.pattern \in {"any", "own"} /\ b.caps \in Seq(Capabilities) /\ b.caps # <<>>
                    /\ b.width \in {1, 2, 4, 8, 16} /\ b.speed \in {1, 2}

VARIABLES
  pc,                       (* of the program                              *)
  window, start, rest,      (* open; start button and other controls live  *)
  home, quit,               (* where events are served, gtk_main is told   *)
                            (* to return                                   *)
  enable, pattern, size, num_iter,            (* what the user has chosen  *)
  text, bytes,              (* the status texts and the bytes to write     *)
  offsets, link,            (* of the configuration space                  *)
  ii, rc, seen,             (* iteration, result of run_xbmd, done bits    *)
  result, mbps,             (* the bmd_t object                            *)
  gWriteBuffer, gReadBuffer,                  (* the driver's buffers      *)
  addr, regLen, regPat,     (* the device's registers,                     *)
  dev, moved, dataError,    (* its progress and bit 31 of register 1       *)
  board,
  changes                   (* of settings by the user of this process     *)

choice == <<enable, pattern, size, bytes, num_iter, changes>>
gui    == <<window, start, rest, home, quit, choice, text>>
cfg    == <<offsets, link>>
run    == <<ii, rc, seen, result, mbps>>
buffers == <<gWriteBuffer, gReadBuffer>>
regs   == <<addr, regLen, regPat>>
device == <<dev, moved, dataError>>
outside == <<driverVars, cfg, buffers, regs, device, board>>
vars == <<pc, gui, run, outside>>

Patterns == {"own", "other"}      (* own: 32'h62222434, see PatternRegisters *)
Numbers == Patterns \cup {"zero"}
Places == {"none", "caps", "update", "width", "speed", "idle", "nothing", "iter", "setup",
           "fill", "reset", "program", "start", "wait", "status", "judge",
           "failed", "next", "results"}
Results == {" ", "success", "mismatch", "incomplete"}

TypeOK ==
  /\ DriverTypeOK
  /\ pc \in Places /\ window \in BOOLEAN /\ start \in BOOLEAN /\ rest \in BOOLEAN
  /\ home \in {"none", "width", "speed", "idle"} /\ quit \in BOOLEAN
  /\ enable \subseteq Dirs /\ pattern \in [Dirs -> Patterns \cup {"bad"}]
  /\ size \in 1..MaxSize /\ num_iter \in 1..MaxIter
  /\ text \in [Dirs -> Results] /\ bytes \in 1..MaxSize
  /\ offsets \in {"zero", "found", "copied"} /\ link \in [width : 0..16, speed : 0..7]
  /\ ii \in 0..MaxIter /\ rc \in BOOLEAN /\ seen \subseteq Dirs
  /\ result \in [Dirs -> Results] /\ mbps \in 0..MaxIter
  /\ gWriteBuffer \in [1..MaxSize -> Numbers] /\ gReadBuffer \in Numbers
  /\ addr \in {"none", "ours", "old"} /\ regLen \in 1..MaxSize
  /\ regPat \in [Dirs -> Numbers] /\ dev \in [Dirs -> {"idle", "running", "done"}]
  /\ moved \in 0..MaxSize /\ dataError \in BOOLEAN /\ board \in Boards
  /\ changes \in 0..MaxChanges

(* A new process.                                                          *)
Fresh ==
  /\ window' = TRUE /\ start' = TRUE /\ rest' = TRUE /\ enable' = {}
  /\ home' = "none" /\ quit' = FALSE
  /\ pattern' = [d \in Dirs |-> "own"] /\ size' = 1 /\ num_iter' = 1
  /\ text' = [d \in Dirs |-> " "] /\ bytes' = 1
  /\ offsets' = "zero" /\ link' = [width |-> 0, speed |-> 0]
  /\ ii' = 0 /\ rc' = FALSE /\ seen' = {}
  /\ result' = [d \in Dirs |-> " "] /\ mbps' = 0 /\ changes' = 0

Init ==
  /\ DriverInit /\ pc = "none"
  /\ window = TRUE /\ start = TRUE /\ rest = TRUE /\ enable = {}
  /\ home = "none" /\ quit = FALSE
  /\ pattern = [d \in Dirs |-> "own"] /\ size = 1 /\ num_iter = 1
  /\ text = [d \in Dirs |-> " "] /\ bytes = 1
  /\ offsets = "zero" /\ link = [width |-> 0, speed |-> 0]
  /\ ii = 0 /\ rc = FALSE /\ seen = {}
  /\ result = [d \in Dirs |-> " "] /\ mbps = 0 /\ changes = 0
  /\ gWriteBuffer = [j \in 1..MaxSize |-> "zero"] /\ gReadBuffer = "zero"
  /\ addr = "none" /\ regLen = 1 /\ regPat = [d \in Dirs |-> "zero"]
  /\ dev = [d \in Dirs |-> "idle"] /\ moved = 0 /\ dataError = FALSE
  /\ board \in Boards
-----------------------------------------------------------------------------
(***************************************************************************)
(* The module around the program, and the device.                          *)
(***************************************************************************)
Running == {d \in Dirs : dev[d] = "running"}

(* The device of fpga/BMD stores one constant, whatever is written to its  *)
(* register 5; that of pcie_7x_0_example stores what is written.           *)
PatternRegisters(pat) ==
  IF board.pattern = "own" THEN [pat EXCEPT !["write"] = "own"] ELSE pat

Load ==
  /\ Insmod \/ Acquire \/ InitFails
  /\ UNCHANGED <<pc, gui, cfg, run, buffers, regs, device, board>>

(* XPCIe_InitCard: a reset, the addresses of the new buffers, and lengths  *)
(* and patterns that every run replaces.                                   *)
InitCard ==
  /\ InitDone
  /\ addr' = "ours"
  /\ regLen' = MaxSize
  /\ regPat' = PatternRegisters([d \in Dirs |-> IF d = "write" THEN "zero" ELSE "other"])
  /\ dev' = [d \in Dirs |-> "idle"] /\ moved' = 0 /\ dataError' = FALSE
  /\ UNCHANGED <<pc, gui, cfg, run, buffers, board>>

(* XPCIe_exit does not touch the device: its registers keep the addresses. *)
Unload ==
  /\ \/ Rmmod /\ ("rmmod" \in Env \/ (pc = "none" /\ Running = {}))
     \/ Release
     \/ ExitDone
  /\ addr' = "old"
  /\ gWriteBuffer' = [j \in 1..MaxSize |-> "zero"] /\ gReadBuffer' = "zero"
  /\ UNCHANGED <<pc, gui, cfg, run, regLen, regPat, device, board>>

(* The device writes one unit of its pattern; the last one sets done.      *)
DeviceWrite ==
  /\ dev["write"] = "running"
  /\ moved' = moved + 1
  /\ gWriteBuffer' =
       IF addr = "ours" THEN [gWriteBuffer EXCEPT ![moved + 1] = regPat["write"]]
       ELSE gWriteBuffer
  /\ dev' = [dev EXCEPT !["write"] = IF moved' = regLen THEN "done" ELSE @]
  /\ UNCHANGED <<driverVars, pc, gui, cfg, run, gReadBuffer, regs, dataError, board>>

(* It reads the buffer and compares it with its pattern register.          *)
DeviceRead ==
  /\ dev["read"] = "running"
  /\ dev' = [dev EXCEPT !["read"] = "done"]
  /\ dataError' \in {gReadBuffer # regPat["read"]} \cup
                    IF "dataerror" \in Env THEN {TRUE} ELSE {}
  /\ UNCHANGED <<driverVars, pc, gui, cfg, run, buffers, regs, moved, board>>
-----------------------------------------------------------------------------
(***************************************************************************)
(* The start of the program.                                               *)
(***************************************************************************)
Registered ==
  /\ "chrdev" \in held \cup left
  /\ phase = "init" => "early" \in Env
  /\ phase = "exit" => "rmmod" \in Env

(* Without a device file the program ends.                                 *)
Open ==
  /\ pc = "none" /\ Registered
  /\ pc' = "caps"
  /\ UNCHANGED <<gui, run, outside>>

(* cfg_get_capabilities follows the list and gives up at a capability it   *)
(* does not know: what it has found so far stays in the cfg_t object, but  *)
(* is not copied into the descriptors.                                     *)
Walked == {j \in 1..Len(board.caps) : \A i \in 1..j : board.caps[i] # "OTHER"}
HasLink == \E j \in Walked : board.caps[j] = "PCIE"
GetCapabilities ==
  /\ pc = "caps" /\ pc' = "update"
  /\ offsets' = IF Walked = 1..Len(board.caps) THEN "copied"
                ELSE IF HasLink THEN "found" ELSE "zero"
  /\ UNCHANGED <<driverVars, gui, link, run, buffers, regs, device, board>>

(* With offset 0 the link status is read from the device and vendor        *)
(* number, 0x000710EE: width 0, speed 7.  A width below the device's turns *)
(* the controls off for three seconds.                                     *)
LinkStatus ==
  IF offsets = "zero" THEN [width |-> 0, speed |-> 7]
  ELSE [width |-> board.width, speed |-> board.speed]
WidthMatches == LinkStatus.width = board.capwidth
SpeedMatches == LinkStatus.speed = board.capspeed
UpdateRegs ==
  /\ pc = "update" /\ pc' = "width" /\ home' = "width"
  /\ start' = WidthMatches /\ rest' = WidthMatches
  /\ UNCHANGED <<driverVars, window, quit, choice, text, cfg, run, buffers, regs, device,
                 board>>

(* A speed below the device's turns them off for good.                     *)
CheckSpeed ==
  /\ pc = "width" /\ pc' = "speed" /\ home' = "speed"
  /\ start' = (SpeedMatches /\ (start \/ ~WidthMatches)) /\ rest' = SpeedMatches
  /\ UNCHANGED <<driverVars, window, quit, choice, text, cfg, run, buffers, regs, device,
                 board>>

(* A speed that is neither 1 nor 2 ends the program, any other enters      *)
(* gtk_main.                                                               *)
VerifyLink ==
  /\ pc = "speed"
  /\ IF LinkStatus.speed \notin {1, 2}
       THEN pc' = "none" /\ Fresh
       ELSE /\ pc' = "idle" /\ home' = "idle" /\ link' = LinkStatus
            /\ UNCHANGED <<window, start, rest, quit, choice, text, offsets, run>>
  /\ UNCHANGED <<driverVars, buffers, regs, device, board>>
-----------------------------------------------------------------------------
(***************************************************************************)
(* The handlers of the GUI.  They run in gtk_main, and, as the GUI is      *)
(* repainted, twice before it: a whole run may come before the link is     *)
(* known.                                                                  *)
(***************************************************************************)
Idle == pc = home /\ pc # "none" /\ window
Change ==
  /\ Idle /\ rest
  /\ changes < MaxChanges /\ changes' = changes + 1
  /\ UNCHANGED <<pc, window, rest, home, quit, run, outside>>

on_checkbox_toggled(d) ==
  /\ Change
  /\ enable' = IF d \in enable THEN enable \ {d} ELSE enable \cup {d}
  /\ UNCHANGED <<start, pattern, size, bytes, num_iter, text>>

on_run_count_value_changed ==
  /\ Change
  /\ num_iter' \in (1..MaxIter) \ {num_iter}
  /\ UNCHANGED <<start, enable, pattern, size, bytes, text>>

on_wr_size_changed ==
  /\ Change
  /\ size' \in (1..MaxSize) \ {size} /\ bytes' = size'
  /\ UNCHANGED <<start, enable, pattern, num_iter, text>>

(* An invalid pattern turns the start button off, a valid one turns it on, *)
(* whatever the other pattern is; the status text says which.              *)
ValidPattern(p) == p # "bad"
on_pattern_entry_changed(d) ==
  /\ Change
  /\ \E p \in (Patterns \cup {"bad"}) \ {pattern[d]} :
       pattern' = [pattern EXCEPT ![d] = p] /\ start' = ValidPattern(p)
  /\ text' = [text EXCEPT ![d] = " "]
  /\ UNCHANGED <<enable, size, bytes, num_iter>>

(* gtk_main_iteration serves events wherever the GUI is repainted.  The     *)
(* gtk_main_quit is for a gtk_main that runs; without one it has no effect. *)
on_main_window_destroy ==
  /\ pc \in {"width", "speed", "idle", "nothing", "iter", "failed"} /\ window
  /\ window' = FALSE
  /\ quit' = (home = "idle")
  /\ UNCHANGED <<pc, start, rest, home, choice, text, run, outside>>

Quit ==
  /\ pc = "idle" /\ quit
  /\ pc' = "none" /\ Fresh
  /\ UNCHANGED <<driverVars, buffers, regs, device, board>>

mbps_Reset == 0
EraseOldResults == text' = [d \in Dirs |-> " "]
on_start_button_clicked ==
  /\ Idle /\ start
  /\ start' = FALSE /\ rest' = FALSE
  /\ IF enable = {}
       THEN pc' = "nothing" /\ UNCHANGED <<text, mbps>>
       ELSE pc' = "iter" /\ EraseOldResults /\ mbps' = mbps_Reset
  /\ UNCHANGED <<window, home, quit, choice, ii, rc, seen, result, outside>>

NothingSelected ==
  /\ pc = "nothing" /\ pc' = home
  /\ start' = TRUE /\ rest' = TRUE
  /\ UNCHANGED <<window, home, quit, choice, text, run, outside>>

NextIteration ==
  /\ pc = "iter"
  /\ pc' = IF ii < num_iter THEN "setup" ELSE "results"
  /\ UNCHANGED <<gui, run, outside>>
-----------------------------------------------------------------------------
(***************************************************************************)
(* The file operations of the driver.  Of the registers that are read only *)
(* the done bits of register 1 decide something, of those that are written *)
(* the lengths, the patterns and the start bits.  A write puts the data    *)
(* into both buffers; a read takes it from the one the device writes.      *)
(***************************************************************************)
XPCIe_Ioctl_Read == {d \in Dirs : dev[d] = "done"}
XPCIe_Ioctl_Write(len, pat) == regLen' = len /\ regPat' = PatternRegisters(pat)
XPCIe_Write(n) ==
  gWriteBuffer' = [j \in 1..MaxSize |-> n] /\ gReadBuffer' = n
XPCIe_Read == gWriteBuffer
-----------------------------------------------------------------------------
(***************************************************************************)
(* run_xbmd, one iteration.                                                *)
(***************************************************************************)
ToNumber(p) == IF ValidPattern(p) THEN p ELSE "zero"

(* The log file, then the payload limit in the device control register:    *)
(* the vendor number and all ones are no valid one.                        *)
Setup ==
  /\ pc = "setup"
  /\ \E valid \in {offsets = "copied"} \cup IF Env \cap {"linkdown", "nolog"} # {} THEN {FALSE} ELSE {} :
       rc' = ~valid /\ pc' = IF valid THEN "fill" ELSE "failed"
  /\ UNCHANGED <<gui, ii, seen, result, mbps, outside>>

(* The data the device reads has the pattern of the read.                 *)
WriteData ==
  /\ pc = "fill" /\ pc' = "reset"
  /\ XPCIe_Write(ToNumber(pattern["read"]))
  /\ UNCHANGED <<driverVars, gui, cfg, run, regs, device, board>>

(* INITRST, XPCIe_InitiatorReset.                                          *)
InitiatorReset ==
  /\ pc = "reset" /\ pc' = "program"
  /\ dev' = [d \in Dirs |-> "idle"] /\ moved' = 0 /\ dataError' = FALSE
  /\ UNCHANGED <<driverVars, gui, cfg, run, buffers, regs, board>>

SetRegisters_Swapped ==
  /\ pc = "program" /\ pc' = "start"
  /\ XPCIe_Ioctl_Write(size, [read |-> ToNumber(pattern["write"]),
                              write |-> ToNumber(pattern["read"])])
  /\ UNCHANGED <<driverVars, gui, cfg, run, buffers, addr, device, board>>
SetRegisters ==
  /\ pc = "program" /\ pc' = "start"
  /\ XPCIe_Ioctl_Write(size, [d \in Dirs |-> ToNumber(pattern[d])])
  /\ UNCHANGED <<driverVars, gui, cfg, run, buffers, addr, device, board>>

(* WRDDMACR sets the start bits of the directions that are checked.        *)
StartDMA ==
  /\ pc = "start" /\ pc' = "wait"
  /\ dev' = [d \in Dirs |-> IF d \in enable THEN "running" ELSE dev[d]]
  /\ UNCHANGED <<driverVars, gui, cfg, run, buffers, regs, moved, dataError, board>>

(* usleep(30000).                                                          *)
Usleep ==
  /\ pc = "wait" /\ pc' = "status"
  /\ "late" \in Env \/ Running = {}
  /\ UNCHANGED <<gui, run, outside>>

(* The done bits are read before the buffer is copied.                     *)
ReadStatus ==
  /\ pc = "status" /\ pc' = "judge"
  /\ seen' = XPCIe_Ioctl_Read
  /\ UNCHANGED <<gui, ii, rc, result, mbps, outside>>

(* The write: data, then done bit.  The read: the done bit only, the mask  *)
(* 0x11110000 drops bit 31.                                                *)
DataMatches == \A j \in 1..size : XPCIe_Read[j] = ToNumber(pattern["write"])
Verdict(d) ==
  IF d = "write" /\ ~DataMatches THEN "mismatch"
  ELSE IF d \in seen THEN "success" ELSE "incomplete"

(* A fatal error of the device, or a link the performance is not defined   *)
(* for, makes run_xbmd fail after the verdict and before the performance.  *)
Judge ==
  /\ pc = "judge"
  /\ result' = [d \in Dirs |-> IF d \in enable THEN Verdict(d) ELSE result[d]]
  /\ rc' \in {link.width \notin {1, 2, 4, 8} \/ link.speed \notin {1, 2}} \cup IF "fatal" \in Env THEN {TRUE} ELSE {}
  /\ pc' = IF rc' THEN "failed" ELSE "next"
  /\ mbps' = IF rc' THEN mbps ELSE mbps + 1
  /\ UNCHANGED <<gui, ii, seen, outside>>

(* The GUI shows the failure for two seconds and goes on.                  *)
ShowFailure ==
  /\ pc = "failed" /\ pc' = "next"
  /\ UNCHANGED <<gui, run, outside>>

Broken_Write == "write" \in enable /\ result["write"] # "success"
Broken == \E d \in enable : result[d] # "success"
Inc_OnSuccess == IF rc THEN ii ELSE ii + 1
Inc == ii + 1
AfterIteration ==
  /\ pc = "next"
  /\ IF Broken THEN pc' = "results" /\ UNCHANGED ii ELSE pc' = "iter" /\ ii' = Inc
  /\ UNCHANGED <<gui, rc, seen, result, mbps, outside>>

(* get_results_and_display and the end of the handler: its locals go.      *)
Display ==
  /\ pc = "results" /\ pc' = home
  /\ text' = [d \in Dirs |-> IF d \in enable THEN result[d] ELSE text[d]]
  /\ start' = TRUE /\ rest' = TRUE
  /\ ii' = 0 /\ rc' = FALSE /\ seen' = {}
  /\ UNCHANGED <<window, home, quit, choice, result, mbps, outside>>
-----------------------------------------------------------------------------
ProgramStep ==
  \/ GetCapabilities \/ UpdateRegs \/ CheckSpeed \/ VerifyLink
  \/ NothingSelected \/ NextIteration \/ Setup \/ WriteData \/ InitiatorReset
  \/ SetRegisters \/ StartDMA \/ Usleep \/ ReadStatus \/ Judge \/ ShowFailure
  \/ AfterIteration \/ Display \/ Quit

User ==
  \/ Open \/ on_run_count_value_changed \/ on_wr_size_changed \/ on_start_button_clicked
  \/ on_main_window_destroy
  \/ \E d \in Dirs : \/ on_checkbox_toggled(d) \/ on_pattern_entry_changed(d)

Next ==
  \/ Load \/ InitCard \/ Unload
  \/ DeviceWrite \/ DeviceRead
  \/ User \/ ProgramStep

(* The program's thread goes on, and the device finishes what it started   *)
(* where a run relies on it.                                               *)
Fairness ==
  /\ WF_vars(ProgramStep)
  /\ "late" \in Env \/ (WF_vars(DeviceWrite) /\ WF_vars(DeviceRead))
Spec == Init /\ [][Next]_vars /\ Fairness
-----------------------------------------------------------------------------
(***************************************************************************)
(* Properties.                                                             *)
(***************************************************************************)
(* A call of the program finds the registers mapped and both buffers       *)
(* allocated: the file operations are registered last.                     *)
CallsFindResources ==
  pc # "none" => {"registers", "readbuf", "writebuf"} \subseteq held

(* The device is started with the addresses of this load's buffers.        *)
StartsMapped == [][StartDMA => addr = "ours"]_vars

(* A write is shown as a success when the device has finished it in this   *)
(* run and the buffer holds its pattern over the length that is shown.     *)
ShownWriteIsReal ==
  [][Display /\ text'["write"] = "success"
       => /\ dev["write"] = "done" /\ moved = bytes
          /\ \A j \in 1..bytes : gWriteBuffer[j] = ToNumber(pattern["write"])]_vars

(* A finished write is shown as a success when the device can write the    *)
(* user's pattern: the one in its register is that of this run.            *)
GoodWriteIsNotFailed ==
  [][Judge /\ "write" \in enable \cap seen
       /\ (board.pattern = "any" \/ ToNumber(pattern["write"]) = "own")
       => result'["write"] = "success"]_vars

(* The call that sets the pattern for writes sets it: what the device is   *)
(* started with is what the user has chosen.                               *)
PatternIsSet == [][StartDMA => regPat["write"] = ToNumber(pattern["write"])]_vars

(* A read is shown as a success when the device has finished it and has    *)
(* found the data it expected.                                             *)
ShownReadIsReal ==
  [][Display /\ text'["read"] = "success" => dev["read"] = "done" /\ ~dataError]_vars

(* After an iteration that judged one direction to have failed no other    *)
(* one is begun.  A critical condition is no such verdict, see below.      *)
NoIterationAfterFailure ==
  [][NextIteration /\ pc' = "setup" /\ ii > 0
       => \A d \in enable : result[d] = "success" /\ d \in seen]_vars

(* A critical condition, a fatal error among them, stops the run.          *)
StopsAtCritical == [][NextIteration /\ pc' = "setup" => ~rc]_vars

(* The averages divide by the number of iterations: they never sum up more *)
(* than that, whatever runs there were before.                             *)
AverageIsNotInflated ==
  [][Display => mbps =< num_iter]_vars

(* The program only comes to its main loop with the width and speed the    *)
(* link has, also when the capability list could not be followed.          *)
LinkIsReal ==
  home = "idle" => link = [width |-> board.width, speed |-> board.speed]

(* The program only runs on a driver and a link that are there.            *)
AppInv == TypeOK /\ CallsFindResources /\ LinkIsReal

(* What the GUI shows is what the device did, in this run's buffers.       *)
ShownIsReal ==
  StartsMapped /\ ShownWriteIsReal /\ GoodWriteIsNotFailed /\ ShownReadIsReal

(* Every iteration that is averaged followed good ones of the same run.    *)
IterationsAreGood == NoIterationAfterFailure /\ AverageIsNotInflated

(* A run ends and gives the controls back; a window that is closed while   *)
(* gtk_main runs, also in the middle of a run, ends the program.           *)
RunsEnd ==
  /\ pc = "iter" ~> (pc = home /\ start) \/ pc = "none"
  /\ quit ~> pc = "none"

(* Closing the window closes the GUI, whenever it is closed.               *)
CloseEnds == ~window ~> pc = "none"
=============================================================================
