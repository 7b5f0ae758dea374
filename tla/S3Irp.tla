-------------------------------- MODULE S3Irp --------------------------------
(***************************************************************************)
(* The life of a DMA request in the Windows driver                         *)
(* (win32_driver/source/s3_1000.c): Dispatch, the cancel routines, the     *)
(* start of a transfer, the interrupt, timer and DPC routines, and the     *)
(* stall, wait, restart and abort routines that pnp.c calls.  The read and *)
(* the write half of the source are the same code over two sets of         *)
(* variables: here they are one code over functions of the direction.      *)
(*                                                                         *)
(* Actors: one thread per request in Dispatch, the cancel routines, one    *)
(* Plug and Play thread, the DPC (interrupts have one target processor, so *)
(* a DPC does not overlap itself), the interrupt and timer routines, which *)
(* exclude each other, the application's control calls and the device.     *)
(* Accesses to the device extension that another actor can see are steps   *)
(* of their own; what runs under a queue lock is one step unless it also   *)
(* touches state that others use without the lock.                         *)
(* A definition with a suffix, as SignalStop_Never, is the next one with a *)
(* plausible bug; it is not used.                                          *)
(***************************************************************************)
EXTENDS Integers, Sequences, FiniteSets, SequencesExt

CONSTANTS
  Irps,         (* the requests the application may make                   *)
  Dirs,         (* the directions in use                                   *)
  DirOf,        (* the direction of a request                              *)
  LenOf,        (* the length of a request, in map registers               *)
  MapRegMax,    (* map registers of a direction: one pass moves this much  *)
  MaxTransfer,  (* MAX_TRANSFER_SIZE in map registers                      *)
  NONE,         (* no request                                              *)
  Env           (* what may happen around the driver, see below            *)

(* "threads"   several application threads use the device: they make,      *)
(*             start, cancel and reset without regard to each other        *)
(* "hurry"     a request is made while the DPC still handles another one   *)
(* "reset"     the device is reset while a request is pending              *)
(* "timeout"   the timer may expire before the device has finished         *)
(* "anytick"   ... even while a request is being started                   *)
(* "cancel"    a request may be cancelled                                  *)
(* "stop"      the device may be stopped and started again                 *)
(* "unstop"    a stop may be cancelled                                     *)
(* "remove"    the device may be removed by surprise                       *)
(* "sgfail"    GetScatterGatherList may fail                               *)
(* "blind"     the device is started although no buffer may be mapped: the *)
(*             application cannot tell                                     *)
(* "duplex"    one run of the device may both read and write               *)
(* "shared"    another device on the interrupt vector may interrupt        *)
Environment == {"threads", "hurry", "reset", "timeout", "anytick", "cancel", "stop",
                "unstop", "remove", "sgfail", "blind", "duplex", "shared"}

ASSUME DirAssumption ==
  /\ Dirs \subseteq {"read", "write"} /\ Dirs # {}
  /\ DirOf \in [Irps -> Dirs]
ASSUME LengthAssumption ==
  /\ LenOf \in [Irps -> Nat] /\ MapRegMax \in Nat \ {0} /\ MaxTransfer \in Nat \ {0}
ASSUME EnvAssumption == Env \subseteq Environment /\ NONE \notin Irps

VARIABLES
  (* the device extension, one value per direction                         *)
  Irp, Queue, QueueLock, Length, Offset, TotalLength, SGL,
  stallcount, abortstatus, evStop,
  (* the device extension, shared by the directions                        *)
  timer, busy, iotimeout,
  (* the requests: where Dispatch is, the IRP's fields, the requests whose *)
  (* cancel routine waits for the lock                                     *)
  pc, Cancel, CancelRoutine, cancelling, Status,
  (* the DPC and the Plug and Play thread: place, direction, request       *)
  dpcQueued, dpc, dpcDir, dpcIrp, pnp, pnpDir, pnpIrp, pnpDev,
  (* the device: the pass in its address register, its start and done      *)
  (* bits, the pass it started with, its interrupt; and the directions the *)
  (* application has set up since the last reset                           *)
  addr, start, done, target, intr, Operation,
  (* observers: how often a request was completed, which data the device   *)
  (* has moved, the requests touched after their completion, and whether   *)
  (* the driver dereferenced a null request                                *)
  completions, moved, touched, bugcheck

slot  == <<Irp, Queue>>
xfer  == <<Length, Offset, TotalLength>>
gate  == <<stallcount, abortstatus, evStop>>
clock == <<timer, busy, iotimeout>>
outcome == <<Status, completions>>
cancels == <<Cancel, CancelRoutine, cancelling>>
dpcVars == <<dpcQueued, dpc, dpcDir, dpcIrp>>
pnpVars == <<pnp, pnpDir, pnpIrp, pnpDev>>
device  == <<start, done, target, intr, moved>>
faults  == <<touched, bugcheck>>
vars == <<slot, QueueLock, xfer, SGL, gate, clock, pc, cancels, outcome,
          dpcVars, pnpVars, addr, device, Operation, faults>>

Statuses == {"PENDING", "SUCCESS", "IO_TIMEOUT", "CANCELLED", "DELETE_PENDING",
             "BUFFER_TOO_SMALL", "SG_FAILED"}

(* A pass of a request is known by the offset it begins at; its data are   *)
(* the map registers of the request from there on that fit a pass.  (No    *)
(* pass is one of no request: the system has stopped before it is mapped.) *)
Passes == (Irps \cup {NONE}) \X Nat
DataOf(i) == {i} \X (0..(LenOf[i] - 1))
PassData(p) ==
  {u \in DataOf(p[1]) : u[2] >= p[2] /\ u[2] < p[2] + MapRegMax}

(* pnp.c handles read before write, DpcForIsr write before read.           *)
PnpFirst == IF "read" \in Dirs THEN "read" ELSE "write"
PnpLast  == IF "write" \in Dirs THEN "write" ELSE "read"

TypeOK ==
  /\ Irp \in [Dirs -> Irps \cup {NONE}] /\ Queue \in [Dirs -> Seq(Irps)]
  /\ QueueLock \in [Dirs -> BOOLEAN]
  /\ Length \in [Dirs -> Nat] /\ Offset \in [Dirs -> Nat] /\ TotalLength \in [Dirs -> Nat]
  /\ SGL \in [Dirs -> Passes \cup {NONE}]
  /\ stallcount \in [Dirs -> 0..2] /\ abortstatus \in [Dirs -> BOOLEAN]
  /\ evStop \in [Dirs -> BOOLEAN]
  /\ timer \in -1..1 /\ busy \in BOOLEAN /\ iotimeout \in BOOLEAN
  /\ pc \in [Irps -> {"none", "lock", "held", "length", "current", "release",
                      "unlock", "touch", "returned"}]
  /\ Cancel \in [Irps -> BOOLEAN] /\ CancelRoutine \in [Irps -> BOOLEAN]
  /\ cancelling \subseteq Irps /\ Status \in [Irps -> Statuses]
  /\ dpcQueued \in BOOLEAN /\ dpcDir \in Dirs /\ dpcIrp \in Irps \cup {NONE}
  /\ dpc \in {"idle", "test", "reset", "forget", "queue", "dequeue", "timer", "length", "current"}
  /\ pnp \in {"started", "stall", "clear", "check", "wait", "stopped", "restart",
              "timer", "length", "current", "abort", "cleanup", "removed"}
  /\ pnpDir \in Dirs /\ pnpIrp \in Irps \cup {NONE} /\ pnpDev \in {"FDO", "PDO"}
  /\ addr \in [Dirs -> Passes \cup {NONE}] /\ target \in [Dirs -> Passes \cup {NONE}]
  /\ start \in [Dirs -> BOOLEAN] /\ done \in [Dirs -> BOOLEAN]
  /\ intr \in BOOLEAN /\ Operation \subseteq Dirs
  /\ completions \in [Irps -> Nat] /\ moved \subseteq Passes
  /\ touched \subseteq Irps /\ bugcheck \in BOOLEAN

(* After PnPStart: both directions are restarted, no file is open.         *)
Init ==
  /\ Irp = [d \in Dirs |-> NONE] /\ Queue = [d \in Dirs |-> <<>>]
  /\ QueueLock = [d \in Dirs |-> FALSE] /\ SGL = [d \in Dirs |-> NONE]
  /\ Length = [d \in Dirs |-> 0] /\ Offset = [d \in Dirs |-> 0]
  /\ TotalLength = [d \in Dirs |-> 0]
  /\ stallcount = [d \in Dirs |-> 0] /\ abortstatus = [d \in Dirs |-> FALSE]
  /\ evStop = [d \in Dirs |-> FALSE]
  /\ timer = -1 /\ busy = FALSE /\ iotimeout = FALSE
  /\ pc = [i \in Irps |-> "none"] /\ Cancel = [i \in Irps |-> FALSE]
  /\ CancelRoutine = [i \in Irps |-> FALSE] /\ cancelling = {}
  /\ Status = [i \in Irps |-> "PENDING"]
  /\ dpcQueued = FALSE /\ dpc = "idle" /\ dpcDir = PnpLast /\ dpcIrp = NONE
  /\ pnp = "started" /\ pnpDir = PnpFirst /\ pnpIrp = NONE /\ pnpDev = "FDO"
  /\ addr = [d \in Dirs |-> NONE] /\ target = [d \in Dirs |-> NONE]
  /\ start = [d \in Dirs |-> FALSE] /\ done = [d \in Dirs |-> FALSE]
  /\ intr = FALSE /\ Operation = {}
  /\ completions = [i \in Irps |-> 0] /\ moved = {}
  /\ touched = {} /\ bugcheck = FALSE
-----------------------------------------------------------------------------
(***************************************************************************)
(* Steps shared by the actors.                                             *)
(***************************************************************************)
Set(f, x, v) == f' = [f EXCEPT ![x] = v]

Finished(i) == completions[i] > 0

(* IoCompleteRequest with its status; the request must not be touched      *)
(* afterwards.                                                             *)
Complete(i, s) ==
  /\ Set(Status, i, s)
  /\ Set(completions, i, completions[i] + 1)

(* StartDMARead and StartDMAWrite: the timer is set in synchronisation     *)
(* with the interrupt routine, then the length of this pass, then the      *)
(* request is made current and its buffer mapped and programmed.           *)
SetIoTimerValue_Idle == timer' = 1 /\ UNCHANGED <<busy, iotimeout>>
SetIoTimerValue == timer' = 1 /\ busy' = TRUE /\ UNCHANGED iotimeout

(* An unsigned difference: a total below the offset is a very long rest.   *)
PassLength(d) ==
  LET rest == TotalLength[d] - Offset[d] IN
  IF rest \in 0..MapRegMax THEN rest ELSE MapRegMax

StartLength(d) == Set(Length, d, PassLength(d))

(* A failure completes the request but leaves it current.                  *)
StartCurrent(d, i) ==
  /\ Set(Irp, d, i)
  /\ \/ Set(SGL, d, <<i, Offset[d]>>) /\ Set(addr, d, <<i, Offset[d]>>) /\ UNCHANGED outcome
     \/ "sgfail" \in Env /\ Complete(i, "SG_FAILED") /\ UNCHANGED <<SGL, addr>>
-----------------------------------------------------------------------------
(***************************************************************************)
(* Dispatch of IRP_MJ_READ and IRP_MJ_WRITE.                               *)
(***************************************************************************)
(* The one thread of the application is not inside the driver; it makes a *)
(* run: a reset, a request for each direction, a start.                    *)
AppIdle == \A i \in Irps : pc[i] \in {"none", "returned"}
AllFinished == \A i \in Irps : pc[i] = "none" \/ (pc[i] = "returned" /\ Finished(i))
DpcIdle == dpc = "idle" /\ ~dpcQueued

MayCall(i) ==
  /\ "threads" \in Env \/
       /\ AppIdle
       /\ IF "duplex" \in Env THEN DirOf[i] \notin Operation ELSE Operation = {}
       /\ \A j \in Irps \ {i} : pc[j] # "none" /\ DirOf[j] \notin Operation => Finished(j)
       /\ \A d \in Dirs : ~start[d]
  /\ "hurry" \in Env \/ DpcIdle

(* The length and the offset of the direction are set before the lock is   *)
(* taken, whether or not a transfer is going on.                           *)
DispatchAccept(i) ==
  LET d == DirOf[i] IN
  /\ pc[i] = "none" /\ MayCall(i) /\ LenOf[i] \in 1..MaxTransfer
  /\ Set(TotalLength, d, LenOf[i]) /\ Set(Offset, d, 0)
  /\ Set(pc, i, "lock")
  /\ Operation' = Operation \cup {d}
  /\ UNCHANGED <<slot, QueueLock, Length, SGL, gate, clock, cancels, outcome,
                 dpcVars, pnpVars, addr, device, faults>>

DispatchReject(i) ==
  /\ pc[i] = "none" /\ MayCall(i) /\ LenOf[i] \notin 1..MaxTransfer
  /\ Set(TotalLength, DirOf[i], LenOf[i])
  /\ Complete(i, IF LenOf[i] = 0 THEN "SUCCESS" ELSE "BUFFER_TOO_SMALL")
  /\ Set(pc, i, "returned")
  /\ UNCHANGED <<slot, QueueLock, Length, Offset, SGL, gate, clock, cancels,
                 dpcVars, pnpVars, addr, device, Operation, faults>>

DispatchLock(i) ==
  /\ pc[i] = "lock" /\ ~QueueLock[DirOf[i]]
  /\ Set(QueueLock, DirOf[i], TRUE)
  /\ Set(pc, i, "held")
  /\ UNCHANGED <<slot, xfer, SGL, gate, clock, cancels, outcome, dpcVars,
                 pnpVars, addr, device, Operation, faults>>

Occupied(d) == Irp[d] # NONE \/ stallcount[d] > 0

(* The device was removed, or the request was cancelled before it could be *)
(* queued: these branches release the lock, and it is released once more.  *)
DispatchDrop(i) ==
  LET d == DirOf[i] IN
  /\ pc[i] = "held"
  /\ \/ abortstatus[d] /\ Complete(i, "DELETE_PENDING")
     \/ ~abortstatus[d] /\ Occupied(d) /\ Cancel[i] /\ Complete(i, "CANCELLED")
  /\ Set(QueueLock, d, FALSE)
  /\ Set(pc, i, "unlock")
  /\ UNCHANGED <<slot, xfer, SGL, gate, clock, cancels, dpcVars, pnpVars,
                 addr, device, Operation, faults>>

DispatchQueue(i) ==
  LET d == DirOf[i] IN
  /\ pc[i] = "held" /\ ~abortstatus[d] /\ Occupied(d) /\ ~Cancel[i]
  /\ Set(CancelRoutine, i, TRUE)
  /\ Set(Queue, d, Append(Queue[d], i))
  /\ Set(pc, i, "release")
  /\ UNCHANGED <<Irp, QueueLock, xfer, SGL, gate, clock, Cancel, cancelling,
                 outcome, dpcVars, pnpVars, addr, device, Operation, faults>>

DispatchStart(i) ==
  LET d == DirOf[i] IN
  /\ pc[i] = "held" /\ ~abortstatus[d] /\ ~Occupied(d)
  /\ SetIoTimerValue
  /\ Set(pc, i, "length")
  /\ UNCHANGED <<slot, QueueLock, xfer, SGL, gate, cancels, outcome, dpcVars,
                 pnpVars, addr, device, Operation, faults>>

DispatchLength(i) ==
  /\ pc[i] = "length"
  /\ StartLength(DirOf[i])
  /\ Set(pc, i, "current")
  /\ UNCHANGED <<slot, QueueLock, Offset, TotalLength, SGL, gate, clock,
                 cancels, outcome, dpcVars, pnpVars, addr, device, Operation,
                 faults>>

DispatchCurrent(i) ==
  /\ pc[i] = "current"
  /\ StartCurrent(DirOf[i], i)
  /\ Set(pc, i, IF Status'[i] = "SG_FAILED" THEN "unlock" ELSE "release")
  /\ UNCHANGED <<Queue, QueueLock, xfer, gate, clock, cancels, dpcVars,
                 pnpVars, device, Operation, faults>>

AfterRelease(p) == IF p = "release" THEN "touch" ELSE "returned"

DispatchRelease(i) ==
  /\ pc[i] \in {"release", "unlock"}
  /\ Set(QueueLock, DirOf[i], FALSE)
  /\ Set(pc, i, AfterRelease(pc[i]))
  /\ UNCHANGED <<slot, xfer, SGL, gate, clock, cancels, outcome, dpcVars,
                 pnpVars, addr, device, Operation, faults>>

(* The pending status is stored and the request marked after the release.  *)
DispatchMarkPending(i) ==
  /\ pc[i] = "touch"
  /\ Set(pc, i, "returned")
  /\ touched' = IF Finished(i) THEN touched \cup {i} ELSE touched
  /\ UNCHANGED <<slot, QueueLock, xfer, SGL, gate, clock, cancels, outcome,
                 dpcVars, pnpVars, addr, device, Operation, bugcheck>>

Dispatch(i) ==
  \/ DispatchLock(i) \/ DispatchDrop(i) \/ DispatchQueue(i) \/ DispatchStart(i)
  \/ DispatchLength(i) \/ DispatchCurrent(i) \/ DispatchRelease(i)
  \/ DispatchMarkPending(i)
-----------------------------------------------------------------------------
(***************************************************************************)
(* Cancellation: IoCancelIrp takes the cancel routine, if there is one,    *)
(* and the routine waits for the queue lock.                               *)
(***************************************************************************)
CancelIrp(i) ==
  /\ "cancel" \in Env /\ ~Finished(i) /\ ~Cancel[i]
  /\ pc[i] = "returned" \/ ("threads" \in Env /\ pc[i] # "none")
  /\ Set(Cancel, i, TRUE)
  /\ Set(CancelRoutine, i, FALSE)
  /\ cancelling' = IF CancelRoutine[i] THEN cancelling \cup {i} ELSE cancelling
  /\ UNCHANGED <<slot, QueueLock, xfer, SGL, gate, clock, pc, outcome,
                 dpcVars, pnpVars, addr, device, Operation, faults>>

CancelRequest(i) ==
  LET d == DirOf[i] IN
  /\ i \in cancelling /\ ~QueueLock[d]
  /\ cancelling' = cancelling \ {i}
  /\ Set(Queue, d, RemoveFirst(Queue[d], i))
  /\ Complete(i, "CANCELLED")
  /\ UNCHANGED <<Irp, QueueLock, xfer, SGL, gate, clock, pc, Cancel,
                 CancelRoutine, dpcVars, pnpVars, addr, device, Operation,
                 faults>>
-----------------------------------------------------------------------------
(***************************************************************************)
(* The interrupt and timer routines, which KeSynchronizeExecution keeps    *)
(* apart: whichever comes first clears busy.  A surprise removal           *)
(* disconnects the interrupt object that both need.                        *)
(***************************************************************************)
InterruptIsOurs_Shared == busy
InterruptIsOurs == busy /\ \E d \in Dirs : done[d]

BDMA_Isr ==
  /\ pnp # "removed" /\ (intr \/ "shared" \in Env)
  /\ intr' = FALSE
  /\ IF InterruptIsOurs
       THEN /\ busy' = FALSE /\ timer' = -1 /\ dpcQueued' = TRUE
       ELSE UNCHANGED <<busy, timer, dpcQueued>>
  /\ UNCHANGED <<slot, QueueLock, xfer, SGL, gate, iotimeout, pc, cancels,
                 outcome, dpc, dpcDir, dpcIrp, pnpVars, addr, start, done,
                 target, moved, Operation, faults>>

Starting ==
  \/ \E i \in Irps : pc[i] \in {"length", "current", "release", "touch"}
  \/ dpc \in {"length", "current"} \/ pnp \in {"length", "current"}

TickPossible == "anytick" \in Env \/ ("timeout" \in Env /\ ~Starting)

Expire_Silent == busy' = FALSE /\ dpcQueued' = TRUE /\ UNCHANGED iotimeout
Expire == busy' = FALSE /\ dpcQueued' = TRUE /\ iotimeout' = TRUE

CheckTimer ==
  /\ pnp # "removed" /\ TickPossible /\ timer > 0
  /\ timer' = timer - 1
  /\ IF busy
       THEN Expire
       ELSE UNCHANGED <<busy, iotimeout, dpcQueued>>
  /\ UNCHANGED <<slot, QueueLock, xfer, SGL, gate, pc, cancels, outcome, dpc,
                 dpcDir, dpcIrp, pnpVars, addr, device, Operation, faults>>
-----------------------------------------------------------------------------
(***************************************************************************)
(* DpcForIsr.  It serves both directions, whichever caused it: a direction *)
(* with a length is taken to have moved it.                                *)
(***************************************************************************)
DpcBegin ==
  /\ dpcQueued /\ dpc = "idle"
  /\ dpcQueued' = FALSE /\ dpc' = "test" /\ dpcDir' = PnpLast
  /\ UNCHANGED <<slot, QueueLock, xfer, SGL, gate, clock, pc, cancels,
                 outcome, dpcIrp, pnpVars, addr, device, Operation, faults>>

DpcNextDirection ==
  IF dpcDir = PnpFirst THEN dpc' = "idle" /\ UNCHANGED dpcDir
                       ELSE dpc' = "test" /\ dpcDir' = PnpFirst

PassDone == dpc = "test" /\ Length[dpcDir] > 0
NewOffset == Offset[dpcDir] + Length[dpcDir]

DpcSkip ==
  /\ dpc = "test" /\ Length[dpcDir] = 0
  /\ DpcNextDirection
  /\ UNCHANGED <<slot, QueueLock, xfer, SGL, gate, clock, pc, cancels,
                 outcome, dpcQueued, dpcIrp, pnpVars, addr, device, Operation,
                 faults>>

SignalStop_Never(d) == UNCHANGED evStop
SignalStop(d) == Set(evStop, d, TRUE)

(* The map registers are released; the current request, which must exist,  *)
(* is completed and the stop event set.  A timeout is reported once.       *)
DpcComplete ==
  LET d == dpcDir IN
  /\ PassDone /\ NewOffset >= TotalLength[d] /\ Irp[d] # NONE
  /\ Set(Offset, d, NewOffset) /\ Set(SGL, d, NONE)
  /\ Complete(Irp[d], IF iotimeout THEN "IO_TIMEOUT" ELSE "SUCCESS")
  /\ iotimeout' = FALSE
  /\ Set(Irp, d, NONE) /\ SignalStop(d)
  /\ dpc' = "reset"
  /\ UNCHANGED <<Queue, QueueLock, Length, TotalLength, stallcount,
                 abortstatus, timer, busy, pc, cancels, dpcQueued, dpcDir,
                 dpcIrp, pnpVars, addr, device, Operation, faults>>

DpcWithoutIrp ==
  /\ PassDone /\ NewOffset >= TotalLength[dpcDir] /\ Irp[dpcDir] = NONE
  /\ bugcheck' = TRUE
  /\ UNCHANGED <<slot, QueueLock, xfer, SGL, gate, clock, pc, cancels,
                 outcome, dpcVars, pnpVars, addr, device, Operation, touched>>

DpcMore ==
  /\ PassDone /\ NewOffset < TotalLength[dpcDir]
  /\ Set(Offset, dpcDir, NewOffset) /\ Set(SGL, dpcDir, NONE)
  /\ dpc' = "timer"
  /\ UNCHANGED <<slot, QueueLock, Length, TotalLength, gate, clock, pc,
                 cancels, outcome, dpcQueued, dpcDir, dpcIrp, pnpVars, addr,
                 device, Operation, faults>>

(* The variables of the direction are reset after the completion, one by   *)
(* one and without the lock: what a new request has set since is lost.     *)
DpcReset ==
  /\ dpc = "reset"
  /\ Set(Length, dpcDir, 0)
  /\ dpc' = "forget"
  /\ UNCHANGED <<slot, QueueLock, Offset, TotalLength, SGL, gate, clock, pc,
                 cancels, outcome, dpcQueued, dpcDir, dpcIrp, pnpVars, addr,
                 device, Operation, faults>>

DpcForget ==
  /\ dpc = "forget"
  /\ Set(Irp, dpcDir, NONE)
  /\ dpc' = "queue"
  /\ UNCHANGED <<Queue, QueueLock, xfer, SGL, gate, clock, pc, cancels, outcome,
                 dpcQueued, dpcDir, dpcIrp, pnpVars, addr, device, Operation,
                 faults>>

(* The queue is looked at without the lock.                                *)
DpcLookAtQueue ==
  /\ dpc = "queue"
  /\ IF Queue[dpcDir] = <<>> THEN DpcNextDirection
                             ELSE dpc' = "dequeue" /\ UNCHANGED dpcDir
  /\ UNCHANGED <<slot, QueueLock, xfer, SGL, gate, clock, pc, cancels,
                 outcome, dpcQueued, dpcIrp, pnpVars, addr, device, Operation,
                 faults>>

(* The places in a queue of requests whose cancel routine is not taken.    *)
NotCancelling(q) == {k \in 1..Len(q) : CancelRoutine[q[k]]}

(* The loop takes every request off the queue: the last one is current.    *)
DpcDequeue ==
  LET d    == dpcDir
      live == NotCancelling(Queue[d])
      last == IF live = {} THEN Irp[d] ELSE Queue[d][Max(live)]
      open == stallcount[d] = 0 /\ ~abortstatus[d]
  IN
  /\ dpc = "dequeue" /\ ~QueueLock[d]
  /\ IF open
       THEN /\ Set(Queue, d, <<>>)
            /\ CancelRoutine' = [i \in Irps |-> CancelRoutine[i] /\ ~\E k \in live : Queue[d][k] = i]
            /\ Set(Irp, d, last)
       ELSE UNCHANGED <<Queue, CancelRoutine, Irp>>
  /\ dpc' = "timer"
  /\ UNCHANGED <<QueueLock, xfer, SGL, gate, clock, pc, Cancel, cancelling,
                 outcome, dpcQueued, dpcDir, dpcIrp, pnpVars, addr, device,
                 Operation, faults>>

(* StartDMA is called with the current request, null or not.               *)
DpcStart ==
  /\ dpc = "timer"
  /\ SetIoTimerValue
  /\ dpc' = "length"
  /\ dpcIrp' = Irp[dpcDir]
  /\ bugcheck' = (Irp[dpcDir] = NONE)
  /\ UNCHANGED <<slot, QueueLock, xfer, SGL, gate, pc, cancels, outcome,
                 dpcQueued, dpcDir, pnpVars, addr, device, Operation,
                 touched>>

DpcLength ==
  /\ dpc = "length"
  /\ StartLength(dpcDir)
  /\ dpc' = "current"
  /\ UNCHANGED <<slot, QueueLock, Offset, TotalLength, SGL, gate, clock, pc,
                 cancels, outcome, dpcQueued, dpcDir, dpcIrp, pnpVars, addr,
                 device, Operation, faults>>

DpcCurrent ==
  /\ dpc = "current"
  /\ StartCurrent(dpcDir, dpcIrp)
  /\ dpcIrp' = NONE /\ DpcNextDirection
  /\ UNCHANGED <<Queue, QueueLock, xfer, gate, clock, pc, cancels, dpcQueued,
                 pnpVars, device, Operation, faults>>

DpcForIsr ==
  \/ DpcBegin \/ DpcSkip \/ DpcComplete \/ DpcWithoutIrp \/ DpcMore \/ DpcReset
  \/ DpcForget \/ DpcLookAtQueue \/ DpcDequeue \/ DpcStart \/ DpcLength \/ DpcCurrent
-----------------------------------------------------------------------------
(***************************************************************************)
(* The Plug and Play thread: a stop stalls both directions and waits for   *)
(* their current requests; a start or a cancelled stop restarts them; a    *)
(* surprise removal aborts them.                                           *)
(***************************************************************************)
PnpNextDirection(again, after) ==
  IF pnpDir = PnpLast THEN pnp' = after /\ pnpDir' = PnpFirst
                      ELSE pnp' = again /\ pnpDir' = PnpLast

StallRequests ==
  /\ pnp = "stall" \/ (pnp = "started" /\ "stop" \in Env)
  /\ Set(stallcount, pnpDir, stallcount[pnpDir] + 1)
  /\ PnpNextDirection("stall", "clear")
  /\ UNCHANGED <<slot, QueueLock, xfer, SGL, abortstatus, evStop, clock, pc,
                 cancels, outcome, dpcVars, pnpIrp, pnpDev, addr, device,
                 Operation, faults>>

WaitClearEvent_Keep ==
  /\ pnp = "clear"
  /\ pnp' = "check"
  /\ UNCHANGED <<slot, QueueLock, xfer, SGL, gate, clock, pc, cancels,
                 outcome, dpcVars, pnpDir, pnpIrp, pnpDev, addr, device,
                 Operation, faults>>

WaitClearEvent ==
  /\ pnp = "clear"
  /\ Set(evStop, pnpDir, FALSE)
  /\ pnp' = "check"
  /\ UNCHANGED <<slot, QueueLock, xfer, SGL, stallcount, abortstatus, clock,
                 pc, cancels, outcome, dpcVars, pnpDir, pnpIrp, pnpDev, addr,
                 device, Operation, faults>>

WaitCheck ==
  /\ pnp = "check" /\ ~QueueLock[pnpDir]
  /\ IF Irp[pnpDir] # NONE THEN pnp' = "wait" /\ UNCHANGED pnpDir
                           ELSE PnpNextDirection("clear", "stopped")
  /\ UNCHANGED <<slot, QueueLock, xfer, SGL, gate, clock, pc, cancels,
                 outcome, dpcVars, pnpIrp, pnpDev, addr, device, Operation,
                 faults>>

WaitEvent ==
  /\ pnp = "wait" /\ evStop[pnpDir]
  /\ PnpNextDirection("clear", "stopped")
  /\ UNCHANGED <<slot, QueueLock, xfer, SGL, gate, clock, pc, cancels,
                 outcome, dpcVars, pnpIrp, pnpDev, addr, device, Operation,
                 faults>>

(* PnPStart passes the function device to the restart, a cancelled stop    *)
(* the physical one, which is not this driver's.                           *)
Resume ==
  /\ pnp = "stopped"
  /\ pnpDev' \in IF "unstop" \in Env THEN {"FDO", "PDO"} ELSE {"FDO"}
  /\ pnp' = "restart"
  /\ UNCHANGED <<slot, QueueLock, xfer, SGL, gate, clock, pc, cancels,
                 outcome, dpcVars, pnpDir, pnpIrp, addr, device, Operation,
                 faults>>

MayRestart(d) == stallcount[d] = 1 /\ Irp[d] = NONE /\ ~abortstatus[d]

(* What follows the requests that are being cancelled at the head of the   *)
(* queue, which leave it to their cancel routine.                          *)
AfterCancelling_All(q) == q
AfterCancelling_Skip(q) ==
  IF NotCancelling(q) = {} THEN <<>>
  ELSE SubSeq(q, 1 + Min(NotCancelling(q)), Len(q))
AfterCancelling(q) ==
  IF NotCancelling(q) = {} THEN <<>>
  ELSE SubSeq(q, Min(NotCancelling(q)), Len(q))

RestartRequests ==
  LET d    == pnpDir
      rest == IF MayRestart(d) THEN AfterCancelling(Queue[d]) ELSE Queue[d]
      next == IF MayRestart(d) /\ rest # <<>> THEN Head(rest) ELSE NONE
  IN
  /\ pnp = "restart" /\ ~QueueLock[d]
  /\ Set(stallcount, d, stallcount[d] - 1)
  /\ pnpIrp' = next
  /\ IF next = NONE
       THEN /\ Set(Queue, d, rest)
            /\ PnpNextDirection("restart", "started")
            /\ UNCHANGED <<Irp, CancelRoutine, bugcheck>>
       ELSE /\ Set(Queue, d, Tail(rest)) /\ Set(Irp, d, next)
            /\ Set(CancelRoutine, next, FALSE)
            /\ bugcheck' = (pnpDev = "PDO")
            /\ pnp' = "timer" /\ UNCHANGED pnpDir
  /\ UNCHANGED <<QueueLock, xfer, SGL, abortstatus, evStop, clock, pc, Cancel,
                 cancelling, outcome, dpcVars, pnpDev, addr, device,
                 Operation, touched>>

RestartStart ==
  /\ pnp = "timer"
  /\ SetIoTimerValue
  /\ pnp' = "length"
  /\ UNCHANGED <<slot, QueueLock, xfer, SGL, gate, pc, cancels, outcome,
                 dpcVars, pnpDir, pnpIrp, pnpDev, addr, device, Operation,
                 faults>>

RestartLength ==
  /\ pnp = "length"
  /\ StartLength(pnpDir)
  /\ pnp' = "current"
  /\ UNCHANGED <<slot, QueueLock, Offset, TotalLength, SGL, gate, clock, pc,
                 cancels, outcome, dpcVars, pnpDir, pnpIrp, pnpDev, addr,
                 device, Operation, faults>>

RestartCurrent ==
  /\ pnp = "current"
  /\ StartCurrent(pnpDir, pnpIrp)
  /\ pnpIrp' = NONE /\ PnpNextDirection("restart", "started")
  /\ UNCHANGED <<Queue, QueueLock, xfer, gate, clock, pc, cancels, dpcVars,
                 pnpDev, device, Operation, faults>>

AbortRequests ==
  /\ pnp = "abort" \/ (pnp = "started" /\ "remove" \in Env)
  /\ Set(abortstatus, pnpDir, TRUE)
  /\ pnp' = "cleanup"
  /\ UNCHANGED <<slot, QueueLock, xfer, SGL, stallcount, evStop, clock, pc,
                 cancels, outcome, dpcVars, pnpDir, pnpIrp, pnpDev, addr,
                 device, Operation, faults>>

(* Every queued request that is not being cancelled is completed.          *)
Cancelling(q) == SelectSeq(q, LAMBDA j : ~CancelRoutine[j])
CleanupRequests ==
  LET d == pnpDir
      victims == {Queue[d][k] : k \in NotCancelling(Queue[d])}
  IN
  /\ pnp = "cleanup" /\ ~QueueLock[d]
  /\ IF victims = {} THEN UNCHANGED Queue ELSE Set(Queue, d, Cancelling(Queue[d]))
  /\ CancelRoutine' = [i \in Irps |-> CancelRoutine[i] /\ i \notin victims]
  /\ Status' = [i \in Irps |-> IF i \in victims THEN "DELETE_PENDING" ELSE Status[i]]
  /\ completions' = [i \in Irps |-> completions[i] + (IF i \in victims THEN 1 ELSE 0)]
  /\ PnpNextDirection("abort", "removed")
  /\ UNCHANGED <<Irp, QueueLock, xfer, SGL, gate, clock, pc, Cancel,
                 cancelling, dpcVars, pnpIrp, pnpDev, addr, device, Operation,
                 faults>>

PnpWork ==
  \/ (pnp # "started" /\ (StallRequests \/ AbortRequests))
  \/ WaitClearEvent \/ WaitCheck \/ WaitEvent \/ Resume \/ RestartRequests
  \/ RestartStart \/ RestartLength \/ RestartCurrent \/ CleanupRequests
-----------------------------------------------------------------------------
(***************************************************************************)
(* The application's control calls IOCTL_INITIATOR_RESET and               *)
(* IOCTL_DMA_START, and the device.                                        *)
(***************************************************************************)
Reset ==
  /\ "threads" \in Env \/ AppIdle
  /\ "reset" \in Env \/ (AllFinished /\ ("hurry" \in Env \/ DpcIdle))
  /\ Length' = [d \in Dirs |-> 0]
  /\ start' = [d \in Dirs |-> FALSE] /\ done' = [d \in Dirs |-> FALSE]
  /\ Operation' = {}
  /\ UNCHANGED <<slot, QueueLock, Offset, TotalLength, SGL, gate, clock, pc,
                 cancels, outcome, dpcVars, pnpVars, addr, target, intr,
                 moved, faults>>

(* The device starts with the address it has; bits that are set stay set.  *)
StartDMA ==
  /\ "threads" \in Env \/ AppIdle
  /\ \E d \in Operation : ~start[d]
  /\ "blind" \in Env \/ \A d \in Operation : start[d] \/ SGL[d] # NONE
  /\ start' = [d \in Dirs |-> start[d] \/ d \in Operation]
  /\ target' = [d \in Dirs |-> IF start'[d] /\ ~start[d] THEN addr[d] ELSE target[d]]
  /\ UNCHANGED <<slot, QueueLock, xfer, SGL, gate, clock, pc, cancels,
                 outcome, dpcVars, pnpVars, addr, done, intr, moved,
                 Operation, faults>>

Running(d) == start[d] /\ ~done[d]

DeviceDone(d) ==
  /\ Running(d)
  /\ Set(done, d, TRUE) /\ intr' = TRUE
  /\ moved' = moved \cup (IF target[d] = NONE THEN {} ELSE PassData(target[d]))
  /\ UNCHANGED <<slot, QueueLock, xfer, SGL, gate, clock, pc, cancels,
                 outcome, dpcVars, pnpVars, addr, start, target, Operation,
                 faults>>

Next ==
  /\ ~bugcheck
  /\ \/ \E i \in Irps : \/ DispatchAccept(i) \/ DispatchReject(i) \/ Dispatch(i)
                        \/ CancelIrp(i) \/ CancelRequest(i)
     \/ BDMA_Isr \/ CheckTimer \/ DpcForIsr
     \/ StallRequests \/ AbortRequests \/ PnpWork
     \/ Reset \/ StartDMA \/ \E d \in Dirs : DeviceDone(d)

Spec == Init /\ [][Next]_vars

(***************************************************************************)
(* Every thread of the driver goes on, the timer ticks and the system      *)
(* restarts a stopped device.  The device need not finish, and nobody has  *)
(* to make, cancel, stop or remove anything.                               *)
(***************************************************************************)
Fairness ==
  /\ \A i \in Irps : WF_vars(Dispatch(i)) /\ WF_vars(CancelRequest(i))
  /\ WF_vars(BDMA_Isr) /\ WF_vars(CheckTimer) /\ WF_vars(DpcForIsr) /\ WF_vars(PnpWork)
FairSpec == Spec /\ Fairness
-----------------------------------------------------------------------------
(***************************************************************************)
(* Safety.                                                                 *)
(***************************************************************************)

(* No path completes a request that another path has completed.            *)
CompletedOnce == \A i \in Irps : completions[i] <= 1

(* An accepted request that is not completed is current, queued, being     *)
(* cancelled or being started: nobody has forgotten it.                    *)
EveryRequestHasAnOwner ==
  \A i \in Irps :
    pc[i] \in {"release", "touch", "returned"} /\ ~Finished(i) =>
      \/ Irp[DirOf[i]] = i \/ Contains(Queue[DirOf[i]], i)
      \/ i \in cancelling \/ i \in {dpcIrp, pnpIrp}

(* A request leaves the queue to become current, to its cancel routine or  *)
(* to be completed: the DPC's loop (s3_1000.c:1822) starts what it takes.  *)
DequeuedIsStarted ==
  [][\A i \in Irps :
       Contains(Queue[DirOf[i]], i) /\ ~Contains(Queue'[DirOf[i]], i) =>
         Irp'[DirOf[i]] = i \/ Finished(i)' \/ i \in cancelling']_vars

(* SUCCESS is reported when the device has moved all data of the request,  *)
(* those of every pass.                                                    *)
SuccessIsReal ==
  \A i \in Irps : Status[i] = "SUCCESS" => DataOf(i) \subseteq moved

(* The device moves data only while the request is pending and the map     *)
(* registers of this very pass are held.                                   *)
BufferIsHeld ==
  \A d \in Dirs : Running(d) =>
    target[d] # NONE /\ SGL[d] = target[d] /\ ~Finished(target[d][1])

(* Only one request of a direction is between its lock and its release.    *)
LockExcludes ==
  \A i, j \in Irps :
    /\ DirOf[i] = DirOf[j]
    /\ {pc[i], pc[j]} \subseteq {"held", "length", "current", "release"}
    => i = j

(* ... with every variable in its type, on every path out of the lock.     *)
LockInv == TypeOK /\ LockExcludes

(* After a completion the driver leaves the request alone, and it          *)
(* dereferences no null request and no foreign device.                     *)
NotTouchedAfterCompletion == touched = {} /\ ~bugcheck

(* When a stop has waited, nothing is current and no buffer is mapped.     *)
StoppedIsQuiet == pnp = "stopped" => \A d \in Dirs : Irp[d] = NONE /\ SGL[d] = NONE

(***************************************************************************)
(* Liveness.                                                               *)
(***************************************************************************)

(* Every request is completed: by the device or by the timer.              *)
RequestsComplete == \A i \in Irps : (pc[i] = "lock") ~> Finished(i)

(* A stop does not wait for ever.                                          *)
StopsComplete == (pnp = "wait") ~> (pnp = "stopped")

(***************************************************************************)
(* The driver implements the abstract requests.                            *)
(***************************************************************************)
Requests == INSTANCE S3Requests WITH
  phase  <- [i \in Irps |-> CASE Finished(i) -> "done"
                             [] pc[i] = "none" -> "new"
                             [] OTHER -> "pending"],
  status <- Status

(* Each request goes from new to pending to completed, once, and its       *)
(* status never changes again.                                             *)
ImplementsRequests == Requests!Spec
=============================================================================
