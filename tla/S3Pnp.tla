-------------------------------- MODULE S3Pnp --------------------------------
(***************************************************************************)
(* The Plug and Play requests of the Windows driver                        *)
(* (win32_driver/source/pnp.c): the device's state, its interrupt, its DMA *)
(* adapters, the remove lock and who completes the request, while the      *)
(* application's reads and writes go on.                                   *)
(*                                                                         *)
(* The Plug and Play manager has one request at a time under way.  todo is *)
(* what DispatchPnP and the handler it has called still have to do, one    *)
(* step per call; Handler gives the calls of each handler in their order.  *)
(* Requests of the application come between any two of them.  Here a       *)
(* direction has at most one such request; S3Irp has the details and       *)
(* several requests.                                                       *)
(* A definition with a suffix is the next one with a plausible bug.        *)
(***************************************************************************)
EXTENDS Integers, Sequences

CONSTANTS
  Env,          (* what may happen, see below                              *)
  MaxDrift      (* no new request once the remove lock is that far below 0 *)

(* "failure"     a lower driver refuses a QUERY_REMOVE or the first start,  *)
(*               or that start gets no interrupt                           *)
(* "surprise"    the device is removed by surprise                         *)
(* "veto"        a lower driver refuses a QUERY_STOP                       *)
(* "adapterfail" IoGetDmaAdapter fails                                     *)
(* "restartfail" the start after a stop fails so                           *)
(* "unstop"      a request is in a queue when a stop is cancelled          *)
Environment == {"failure", "surprise", "veto", "adapterfail", "restartfail", "unstop"}
ASSUME EnvAssumption == Env \subseteq Environment
ASSUME MaxDriftAssumption == MaxDrift \in Nat

VARIABLES
  DevicePnPState, PreviousPnPState,
  RemoveLock,                    (* the count of the remove lock           *)
  InterruptObject, adapter,      (* null, held, or given back but kept     *)
  interface,                     (* IoSetDeviceInterfaceState              *)
  stallcount, abortstatus, evStop,
  req,                           (* the application's request              *)
  open,                          (* a handle, while its timer runs         *)
  minor, todo, status,           (* the PnP request under way              *)
  manager,                       (* the state the PnP manager assumes      *)
  completions, misuse            (* observers: how often the PnP request   *)
                                 (* was completed, what was released twice *)

device  == <<DevicePnPState, PreviousPnPState>>
held    == <<InterruptObject, adapter, interface>>
gate    == <<stallcount, abortstatus, evStop>>
pnpIrp  == <<minor, status, manager, completions>>
vars == <<device, RemoveLock, held, gate, req, open, pnpIrp, todo, misuse>>

Dirs == {"read", "write"}
States == {"NotStarted", "Deleted", "SurpriseRemoved", "Stopped",
           "RemovePending", "StopPending", "Started"}
Minors == {"START", "QUERY_STOP", "STOP", "CANCEL_STOP", "QUERY_REMOVE",
           "REMOVE", "CANCEL_REMOVE", "SURPRISE", "OTHER"}
Ownership == {"null", "held", "stale"}

TypeOK ==
  /\ DevicePnPState \in States /\ PreviousPnPState \in States
  /\ RemoveLock \in Int
  /\ InterruptObject \in Ownership /\ adapter \in [Dirs -> Ownership]
  /\ interface \in BOOLEAN /\ open \in BOOLEAN
  /\ stallcount \in [Dirs -> -1..2] /\ abortstatus \in [Dirs -> BOOLEAN]
  /\ evStop \in [Dirs -> BOOLEAN]
  /\ req \in [Dirs -> {"free", "queued", "current", "stray"}]
  /\ minor \in Minors \cup {"NONE"} /\ status \in {"SUCCESS", "FAILURE"}
  /\ manager \in {"down", "up", "stopPending", "stopped", "removePending",
                 "failed", "gone", "deleted"}
  /\ completions \in 0..2 /\ misuse \subseteq {"interrupt", "adapter"}

(* AddDevice: nothing is started and both directions are stalled.          *)
Init ==
  /\ DevicePnPState = "NotStarted" /\ PreviousPnPState = "NotStarted"
  /\ RemoveLock = 1
  /\ InterruptObject = "null" /\ adapter = [d \in Dirs |-> "null"]
  /\ interface = FALSE /\ open = FALSE
  /\ stallcount = [d \in Dirs |-> 1] /\ abortstatus = [d \in Dirs |-> FALSE]
  /\ evStop = [d \in Dirs |-> FALSE] /\ req = [d \in Dirs |-> "free"]
  /\ minor = "NONE" /\ todo = <<>> /\ status = "SUCCESS" /\ manager = "down"
  /\ completions = 0 /\ misuse = {}
-----------------------------------------------------------------------------
(***************************************************************************)
(* The calls of the handlers, in order.                                    *)
(***************************************************************************)
Do(call) == <<<<call>>>>
Both(call) == <<<<call, "read">>, <<call, "write">>>>
Enter(s) == <<<<"state", s>>>>
WaitForCurrentIrp(d) == <<<<"clear", d>>, <<"check", d>>>>
WaitBoth == WaitForCurrentIrp("read") \o WaitForCurrentIrp("write")

(* A request ends in DispatchClose, or with the lower driver that completes *)
(* it, or, three times in this driver, with both.                           *)
DispatchClose == Do("complete") \o Do("return")
ReleaseAndClose == Do("release") \o DispatchClose
PassDown == Do("acquire") \o Do("complete")

PnPStartDevice_RestartFirst ==
  Both("restart") \o Do("adapters") \o Do("connect") \o Do("enable")
  \o Enter("Started") \o Do("allow") \o ReleaseAndClose
PnPStartDevice ==
  Do("adapters") \o Do("connect") \o Do("enable") \o Enter("Started")
  \o Do("allow") \o Both("restart") \o ReleaseAndClose

PnPQueryStopDevice ==
  IF DevicePnPState # "Started" THEN ReleaseAndClose
  ELSE Both("stall") \o WaitBoth \o Enter("StopPending") \o PassDown
       \o ReleaseAndClose

(* The loop that unmaps the registers runs up to bar, which is never set.  *)
StopDevice ==
  WaitBoth \o Do("disconnect") \o Both("put") \o Do("disable") \o Enter("Stopped")
PnPStopDevice == StopDevice \o ReleaseAndClose

(* Alone of the handlers this one restarts the queues with the device      *)
(* object of the bus driver below.                                         *)
PnPCancelStopDevice ==
  IF DevicePnPState = "StopPending"
    THEN Do("send") \o Do("started") \o Both("restartPhysical") \o ReleaseAndClose
    ELSE PassDown \o Do("restore") \o ReleaseAndClose

PnPQueryRemoveDevice_NoStall ==
  (IF DevicePnPState = "Started" THEN WaitBoth ELSE <<>>)
  \o Enter("RemovePending") \o PassDown \o Do("return")
PnPQueryRemoveDevice ==
  (IF DevicePnPState = "Started" THEN Both("stall") \o WaitBoth ELSE <<>>)
  \o Enter("RemovePending") \o PassDown \o Do("return")

PnPRemoveDevice ==
  StopDevice \o Enter("Deleted") \o Do("complete") \o Do("drain") \o Do("return")

PnPCancelRemoveDevice_NoRestart ==
  IF DevicePnPState = "RemovePending"
    THEN Do("send") \o Do("restore") \o ReleaseAndClose
    ELSE PassDown \o ReleaseAndClose
PnPCancelRemoveDevice ==
  IF DevicePnPState = "RemovePending"
    THEN Do("send") \o Both("restart") \o Do("restore") \o ReleaseAndClose
    ELSE PassDown \o ReleaseAndClose

AbortRequests(d) == <<<<"abort", d>>, <<"cleanup", d>>>>
PnPSurpriseRemoval ==
  AbortRequests("read") \o AbortRequests("write") \o Enter("SurpriseRemoved")
  \o Do("disable") \o Do("disconnect") \o Both("put") \o PassDown \o ReleaseAndClose

Handler ==
  CASE minor = "START"         -> PnPStartDevice
    [] minor = "QUERY_STOP"    -> PnPQueryStopDevice
    [] minor = "STOP"          -> PnPStopDevice
    [] minor = "CANCEL_STOP"   -> PnPCancelStopDevice
    [] minor = "QUERY_REMOVE"  -> PnPQueryRemoveDevice
    [] minor = "REMOVE"        -> PnPRemoveDevice
    [] minor = "CANCEL_REMOVE" -> PnPCancelRemoveDevice
    [] minor = "SURPRISE"      -> PnPSurpriseRemoval
    [] minor = "OTHER"         -> Do("complete") \o Do("return")
-----------------------------------------------------------------------------
(***************************************************************************)
(* The Plug and Play manager.                                              *)
(***************************************************************************)
May(e) == {TRUE} \cup {e \notin Env}   (* the outcomes: TRUE is success *)

(* What it may send.  A query is followed by its outcome, and after a      *)
(* refused query the cancellation goes to the whole stack.  It does not ask *)
(* to remove a device that is open, and removes it after a surprise when    *)
(* the last handle is closed.                                               *)
FollowUps ==
  CASE manager = "stopPending"   ->
         {m \in {"CANCEL_STOP"} : \A d \in Dirs : req[d] = "queued" => "unstop" \in Env}
           \cup IF status = "SUCCESS" THEN {"STOP"} ELSE {}
    [] manager = "removePending" ->
         {"CANCEL_REMOVE"} \cup IF status = "SUCCESS" THEN {"REMOVE"} ELSE {}
    [] manager = "stopped"       -> {"START"}
    [] manager = "failed"        -> {"REMOVE"}
    [] manager = "gone"          -> IF open THEN {} ELSE {"REMOVE"}
    [] OTHER                     -> {}
NewRequests ==
  CASE manager = "down" -> {"START", "REMOVE"}
    [] manager = "up"   -> {"QUERY_STOP", "OTHER"} \cup IF open THEN {} ELSE {"QUERY_REMOVE"}
    [] OTHER            -> {}
Surprises ==
  IF "surprise" \in Env /\ manager \in {"up", "stopPending", "removePending", "stopped"}
    THEN {"SURPRISE"} ELSE {}

(* The manager's state after an answer to m.                               *)
Answered(m) ==
  CASE m = "START"         -> IF status = "SUCCESS" THEN "up" ELSE "failed"
    [] m = "QUERY_STOP"    -> "stopPending"
    [] m = "STOP"          -> "stopped"
    [] m = "QUERY_REMOVE"  -> "removePending"
    [] m = "SURPRISE"      -> "gone"
    [] m = "REMOVE"        -> "deleted"
    [] m = "OTHER"         -> manager
    [] OTHER               -> "up"

(* DispatchPnP takes the remove lock and sends the request down first.     *)
DispatchPnP(m) ==
  /\ minor = "NONE"
  /\ minor' = m /\ todo' = Do("sendfirst") /\ completions' = 0 /\ status' = "SUCCESS"
  /\ RemoveLock' = RemoveLock + 1
  /\ UNCHANGED <<device, held, gate, req, open, manager, misuse>>
ReceiveFollowUp == \E m \in FollowUps : DispatchPnP(m)
ReceivePnp ==
  /\ RemoveLock > -MaxDrift
  /\ \E m \in NewRequests \cup Surprises : DispatchPnP(m)
-----------------------------------------------------------------------------
(***************************************************************************)
(* The steps of the handlers.                                              *)
(***************************************************************************)
Call(c) == todo # <<>> /\ Head(todo)[1] = c
Arg == Head(todo)[2]
Done == todo' = Tail(todo)

StartFailure == IF manager = "down" THEN "failure" ELSE "restartfail"
Refusals ==
  CASE minor = "QUERY_STOP"   -> May("veto")
    [] minor = "QUERY_REMOVE" -> May("failure")
    [] minor = "START"        -> May(StartFailure)
    [] OTHER                  -> {TRUE}

(* CompletionRoutine releases the remove lock, as the caller will again.    *)
SendIrpSync ==
  /\ Call("sendfirst")
  /\ RemoveLock' = RemoveLock - 1
  /\ \E ok \in Refusals :
       /\ status' = IF ok THEN "SUCCESS" ELSE "FAILURE"
       /\ todo' = IF ok THEN Handler ELSE ReleaseAndClose
  /\ UNCHANGED <<device, held, gate, req, open, minor, manager, completions, misuse>>

(* PnPStartDevice returns its own status, a success, when GetDMAInfo fails. *)
GetDMAInfo ==
  /\ Call("adapters")
  /\ \E ok \in May("adapterfail") :
       /\ adapter' \in IF ok THEN {[d \in Dirs |-> "held"]}
                       ELSE {[adapter EXCEPT !["read"] = "null"],
                             [d \in Dirs |-> IF d = "read" THEN "stale" ELSE "null"]}
       /\ todo' = IF ok THEN Tail(todo) ELSE ReleaseAndClose
  /\ UNCHANGED <<device, RemoveLock, InterruptObject, interface, gate, req, open,
                 pnpIrp, misuse>>

IoConnectInterrupt ==
  /\ Call("connect")
  /\ \E ok \in May(StartFailure) :
       /\ InterruptObject' = IF ok THEN "held" ELSE InterruptObject
       /\ status' = IF ok THEN "SUCCESS" ELSE "FAILURE"
       /\ todo' = IF ok THEN Tail(todo) ELSE ReleaseAndClose
  /\ UNCHANGED <<device, RemoveLock, adapter, interface, gate, req, open, minor,
                 manager, completions, misuse>>

IoSetDeviceInterfaceState ==
  /\ Call("enable") \/ Call("disable")
  /\ interface' = Call("enable") /\ Done
  /\ UNCHANGED <<device, RemoveLock, InterruptObject, adapter, gate, req, open,
                 pnpIrp, misuse>>

(* SET_NEW_PNP_STATE, the assignment in PnPCancelStopDevice, and           *)
(* RESTORE_PREVIOUS_PNP_STATE.                                             *)
SetPnPState ==
  /\ \/ Call("state") /\ DevicePnPState' = Arg /\ PreviousPnPState' = DevicePnPState
     \/ Call("started") /\ DevicePnPState' = "Started" /\ UNCHANGED PreviousPnPState
     \/ Call("restore") /\ DevicePnPState' = PreviousPnPState /\ UNCHANGED PreviousPnPState
  /\ Done
  /\ UNCHANGED <<RemoveLock, held, gate, req, open, pnpIrp, misuse>>

(* The pointer is tested before the resource is given back, and kept.      *)
GiveBack(owned, what) ==
  misuse' = misuse \cup IF owned = "stale" THEN {what} ELSE {}
IoDisconnectInterrupt ==
  /\ Call("disconnect")
  /\ InterruptObject' = IF InterruptObject = "null" THEN "null" ELSE "stale"
  /\ GiveBack(InterruptObject, "interrupt")
  /\ Done
  /\ UNCHANGED <<device, RemoveLock, adapter, interface, gate, req, open, pnpIrp>>
PutDmaAdapter ==
  /\ Call("put")
  /\ adapter' = [adapter EXCEPT ![Arg] = IF @ = "null" THEN "null" ELSE "stale"]
  /\ GiveBack(adapter[Arg], "adapter")
  /\ Done
  /\ UNCHANGED <<device, RemoveLock, InterruptObject, interface, gate, req, open, pnpIrp>>

StallRequests ==
  /\ Call("stall") /\ Done
  /\ stallcount' = [stallcount EXCEPT ![Arg] = @ + 1]
  /\ UNCHANGED <<device, RemoveLock, held, abortstatus, evStop, req, open, pnpIrp, misuse>>

(* A count below zero stalls the queue as one above zero does.  The request *)
(* becomes this device's current one; StartDMA takes buffer, timer and     *)
(* registers from the extension of the object passed, so with the bus      *)
(* driver's nothing of this device is started: the request is a stray.     *)
RestartRequests ==
  /\ (Call("restart") \/ Call("restartPhysical")) /\ Done
  /\ stallcount' = [stallcount EXCEPT ![Arg] = @ - 1]
  /\ req' = [req EXCEPT ![Arg] =
       IF @ = "queued" /\ stallcount'[Arg] = 0 /\ ~abortstatus[Arg]
         THEN IF Call("restart") THEN "current" ELSE "stray"
         ELSE @]
  /\ UNCHANGED <<device, RemoveLock, held, abortstatus, evStop, open, pnpIrp, misuse>>

AllowRequests ==
  /\ Call("allow") /\ Done
  /\ abortstatus' = [d \in Dirs |-> FALSE]
  /\ UNCHANGED <<device, RemoveLock, held, stallcount, evStop, req, open, pnpIrp, misuse>>
SetAbortStatus ==
  /\ Call("abort") /\ Done
  /\ abortstatus' = [abortstatus EXCEPT ![Arg] = TRUE]
  /\ UNCHANGED <<device, RemoveLock, held, stallcount, evStop, req, open, pnpIrp, misuse>>
CleanupRequests ==
  /\ Call("cleanup") /\ Done
  /\ req' = [req EXCEPT ![Arg] = IF @ = "queued" THEN "free" ELSE @]
  /\ UNCHANGED <<device, RemoveLock, held, gate, open, pnpIrp, misuse>>

ClearStopEvent ==
  /\ Call("clear") /\ Done
  /\ evStop' = [evStop EXCEPT ![Arg] = FALSE]
  /\ UNCHANGED <<device, RemoveLock, held, stallcount, abortstatus, req, open, pnpIrp, misuse>>
CheckCurrent ==
  /\ Call("check")
  /\ todo' = IF req[Arg] \in {"current", "stray"}
                THEN <<<<"wait", Arg>>>> \o Tail(todo) ELSE Tail(todo)
  /\ UNCHANGED <<device, RemoveLock, held, gate, req, open, pnpIrp, misuse>>
WaitStopEvent ==
  /\ Call("wait") /\ evStop[Arg] /\ Done
  /\ UNCHANGED <<device, RemoveLock, held, gate, req, open, pnpIrp, misuse>>

(* IoReleaseRemoveLockAndWait waits while others hold the lock.            *)
CountRemoveLock ==
  /\ \/ Call("acquire") /\ RemoveLock' = RemoveLock + 1
     \/ (Call("release") \/ Call("send")) /\ RemoveLock' = RemoveLock - 1
     \/ Call("drain") /\ RemoveLock =< 2 /\ RemoveLock' = RemoveLock - 2
  /\ Done
  /\ UNCHANGED <<device, held, gate, req, open, pnpIrp, misuse>>

(* IoCompleteRequest, in DispatchClose or in a driver below.               *)
IoCompleteRequest ==
  /\ Call("complete") /\ Done
  /\ completions' = completions + 1
  /\ UNCHANGED <<device, RemoveLock, held, gate, req, open, minor, status, manager, misuse>>
Return ==
  /\ Call("return") /\ Done
  /\ minor' = "NONE" /\ manager' = Answered(minor)
  /\ UNCHANGED <<device, RemoveLock, held, gate, req, open, status, completions, misuse>>

Serve ==
  \/ SendIrpSync \/ GetDMAInfo \/ IoConnectInterrupt \/ IoSetDeviceInterfaceState
  \/ SetPnPState \/ IoDisconnectInterrupt \/ PutDmaAdapter \/ StallRequests
  \/ RestartRequests \/ AllowRequests \/ SetAbortStatus \/ CleanupRequests
  \/ ClearStopEvent \/ CheckCurrent \/ WaitStopEvent \/ CountRemoveLock
  \/ IoCompleteRequest \/ Return
-----------------------------------------------------------------------------
(***************************************************************************)
(* The application and the device.                                         *)
(***************************************************************************)
pnp == <<device, RemoveLock, held, stallcount, abortstatus, pnpIrp, todo, misuse>>

Create ==
  /\ interface /\ ~open /\ open' = TRUE
  /\ UNCHANGED <<pnp, evStop, req>>
CloseHandle ==
  /\ open /\ (\A d \in Dirs : req[d] = "free") /\ open' = FALSE
  /\ UNCHANGED <<pnp, evStop, req>>
Dispatch(d) ==
  /\ open /\ req[d] = "free" /\ ~abortstatus[d]
  /\ minor = "CANCEL_STOP" /\ stallcount[d] # 0 => "unstop" \in Env
  /\ req' = [req EXCEPT ![d] = IF stallcount[d] = 0 THEN "current" ELSE "queued"]
  /\ UNCHANGED <<pnp, evStop, open>>

(* DpcForIsr after an interrupt, or after the timer, which goes by the     *)
(* interrupt object too.  Neither sees a stray, whose length is not set.   *)
Finish_NoSignal(d) ==
  /\ req[d] = "current" /\ InterruptObject = "held"
  /\ req' = [req EXCEPT ![d] = "free"]
  /\ UNCHANGED <<pnp, evStop, open>>
Finish(d) ==
  /\ req[d] = "current" /\ InterruptObject = "held"
  /\ req' = [req EXCEPT ![d] = "free"]
  /\ evStop' = [evStop EXCEPT ![d] = TRUE]
  /\ UNCHANGED <<pnp, open>>

Next ==
  \/ ReceivePnp \/ ReceiveFollowUp \/ Serve \/ Create \/ CloseHandle
  \/ \E d \in Dirs : Dispatch(d) \/ Finish(d)

(* Requests the manager has begun are carried on, the driver goes on, the  *)
(* timer ends every transfer.                                              *)
Fairness ==
  /\ WF_vars(Serve) /\ WF_vars(ReceiveFollowUp)
  /\ \A d \in Dirs : WF_vars(Finish(d))
Spec == Init /\ [][Next]_vars /\ Fairness
-----------------------------------------------------------------------------
(***************************************************************************)
(* Properties.                                                             *)
(***************************************************************************)
(* A transfer under way has an interrupt to end it and an adapter whose    *)
(* mapping it uses (StartDMARead and OnTimer use both without a test).     *)
(* Nothing is said of a direction that a surprise has aborted: there the   *)
(* code takes both from a transfer under way.                              *)
HardwareIsConnected ==
  \A d \in Dirs :
    req[d] = "current" /\ ~abortstatus[d] => InterruptObject = "held" /\ adapter[d] = "held"

(* Once a stop or a removal has been prepared, no transfer is under way    *)
(* until the device is started again or the query is cancelled.            *)
PendingIsQuiet ==
  DevicePnPState \in {"StopPending", "Stopped", "RemovePending", "Deleted"}
    /\ minor # "CANCEL_REMOVE" => \A d \in Dirs : req[d] # "current"

(* Between two requests of the manager a queue is stalled exactly when the *)
(* device is not started: every stall has had its restart.  (A surprise    *)
(* removal does not stall.)                                                *)
StallMatchesState ==
  minor = "NONE" => \A d \in Dirs :
    ~abortstatus[d] => stallcount[d] = IF DevicePnPState = "Started" THEN 0 ELSE 1

(* After a surprise removal the queue is empty and stays empty: no request *)
(* slips in between the abort status and the cleanup.                      *)
AbortedIsEmpty ==
  DevicePnPState = "SurpriseRemoved" => \A d \in Dirs : req[d] # "queued"

(* Over any sequence of stops, starts and removals, each interrupt and     *)
(* adapter is given back once, as long as there is no surprise; after one  *)
(* the removal gives back again what the surprise has given back.          *)
ReleasedOnce == (\A d \in Dirs : ~abortstatus[d]) => misuse = {}

(* The hardware and the queues follow the state of the device.             *)
HardwareInv == HardwareIsConnected /\ ReleasedOnce
QueueInv == TypeOK /\ PendingIsQuiet /\ StallMatchesState /\ AbortedIsEmpty

(* DispatchClose: a request of the manager is completed, and no more than  *)
(* once, but for the paths that complete it after a driver below already   *)
(* has.                                                                    *)
CompletedOnce ==
  Call("return") =>
    /\ completions >= 1
    /\ minor \notin {"QUERY_STOP", "CANCEL_REMOVE", "SURPRISE"} => completions = 1

(* Every request of the manager is answered: the driver is not left        *)
(* waiting for a transfer or for the remove lock.                          *)
PnpCompletes == []CompletedOnce /\ (minor # "NONE" ~> minor = "NONE")

(* A queued request is started on this device or completed, unless the     *)
(* device is removed; a stray is neither.                                  *)
QueueResumes ==
  \A d \in Dirs :
    req[d] = "queued" ~> req[d] \in {"free", "current"} \/ manager = "deleted"
=============================================================================
