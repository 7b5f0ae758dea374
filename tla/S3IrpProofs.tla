----------------------------- MODULE S3IrpProofs -----------------------------
(***************************************************************************)
(* The requests of the Windows driver, for any number of them, of any      *)
(* length and in either direction: the types and the queue lock for any    *)
(* number of threads, everything else for an application with one, as this *)
(* driver's own application is.                                            *)
(***************************************************************************)
EXTENDS S3Irp, SequenceTheorems, WellFoundedInduction, TLAPS

(***************************************************************************)
(* The queues: what the sequence operators make of them.                   *)
(***************************************************************************)
LEMMA LeastPlace ==
  ASSUME NEW S, S \subseteq Nat, S # {}
  PROVE  \E x \in S : \A y \in S : x <= y
<1>1. IsWellFoundedOn(OpToRel(<, Nat), Nat)
  BY NatLessThanWellFounded
<1>2. PICK x \in S : \A y \in S : ~(<<y, x>> \in OpToRel(<, Nat))
  BY <1>1, WFMin, Zenon
<1>3. \A y \in S : ~(y < x)
  BY <1>2 DEF OpToRel
<1> QED BY <1>3

(* A set of places has a last one.                                         *)
LEMMA GreatestPlace ==
  ASSUME NEW n \in Nat, NEW S, S \subseteq 1..n, S # {}
  PROVE  \E x \in S : \A y \in S : x >= y
<1> DEFINE T == {m \in Nat : \E x \in S : m = n - x}
<1>1. T \subseteq Nat /\ T # {}
  <2>1. PICK x \in S : TRUE
    OBVIOUS
  <2>2. x \in 1..n /\ n - x \in Nat
    BY <2>1
  <2> QED BY <2>1, <2>2
<1>2. PICK t \in T : \A y \in T : t <= y
  <2> HIDE DEF T
  <2> QED BY <1>1, LeastPlace
<1>3. PICK x \in S : t = n - x
  BY DEF T
<1>4. \A y \in S : n - y \in T
  BY DEF T
<1>5. \A y \in S : t <= n - y
  <2> HIDE DEF T
  <2> QED BY <1>2, <1>4
<1> QED BY <1>3, <1>5

(* The places that can be taken, and the first and the last of them.       *)
LEMMA Places ==
  ASSUME NEW q \in Seq(Irps), NotCancelling(q) # {}
  PROVE  /\ NotCancelling(q) \subseteq 1..Len(q)
         /\ Min(NotCancelling(q)) \in NotCancelling(q)
         /\ Max(NotCancelling(q)) \in NotCancelling(q)
<1>1. NotCancelling(q) \subseteq 1..Len(q) /\ Len(q) \in Nat
  BY LenProperties DEF NotCancelling
<1>2. \E x \in NotCancelling(q) : \A y \in NotCancelling(q) : x <= y
  <2>1. NotCancelling(q) \subseteq Nat
    BY <1>1
  <2> QED BY <2>1, LeastPlace
<1>3. \E x \in NotCancelling(q) : \A y \in NotCancelling(q) : x >= y
  BY <1>1, GreatestPlace
<1> QED BY <1>1, <1>2, <1>3 DEF Min, Max

(* What a restart leaves of a queue is a queue.                            *)
LEMMA AfterCancellingType ==
  ASSUME NEW q \in Seq(Irps) PROVE AfterCancelling(q) \in Seq(Irps)
<1>1. CASE NotCancelling(q) = {}
  BY <1>1 DEF AfterCancelling
<1>2. CASE NotCancelling(q) # {}
  <2> DEFINE m == Min(NotCancelling(q))
  <2>1. m \in 1..Len(q) /\ Len(q) \in Nat
    BY <1>2, Places, LenProperties
  <2>2. \A k \in m..Len(q) : q[k] \in Irps
    BY <2>1, ElementOfSeq
  <2> HIDE DEF m
  <2>3. SubSeq(q, m, Len(q)) \in Seq(Irps)
    BY <2>1, <2>2, SubSeqProperties
  <2> QED BY <1>2, <2>3 DEF AfterCancelling, m
<1> QED BY <1>1, <1>2

(* ... and so is what a cancel routine leaves.                             *)
LEMMA RemoveFirstType ==
  ASSUME NEW q \in Seq(Irps), NEW i PROVE RemoveFirst(q, i) \in Seq(Irps)
<1> DEFINE k == SelectInSeq(q, LAMBDA v : v = i)
           I == {n \in 1..Len(q) : q[n] = i}
<1>1. CASE ~\E n \in 1..Len(q) : q[n] = i
  BY <1>1 DEF RemoveFirst
<1>2. CASE \E n \in 1..Len(q) : q[n] = i
  <2>1. Len(q) \in Nat /\ \A n \in 1..Len(q) : q[n] \in Irps
    BY LenProperties, ElementOfSeq
  <2>2. I # {} /\ I \subseteq Nat
    BY <1>2, <2>1
  <2>3. Min(I) \in I
    <3> HIDE DEF I
    <3>1. \E x \in I : \A y \in I : x <= y
      BY <2>2, LeastPlace
    <3> QED BY <3>1 DEF Min
  <2>4. k = Min(I)
    BY <2>2 DEF SelectInSeq
  <2> HIDE DEF k
  <2>5. k \in 1..Len(q)
    BY <2>3, <2>4
  <2>6. SubSeq(q, 1, k - 1) \in Seq(Irps) /\ SubSeq(q, k + 1, Len(q)) \in Seq(Irps)
    <3>1. \A n \in 1..(k - 1) : q[n] \in Irps
      BY <2>1, <2>5
    <3>2. \A n \in (k + 1)..Len(q) : q[n] \in Irps
      BY <2>1, <2>5
    <3> QED BY <2>1, <2>5, <3>1, <3>2, SubSeqProperties
  <2>7. RemoveFirst(q, i) = RemoveAt(q, k)
    BY <1>2 DEF RemoveFirst, k
  <2> QED BY <2>6, <2>7, ConcatProperties DEF RemoveAt
<1> QED BY <1>1, <1>2

(* A queue of one request, or of none.                                     *)
LEMMA OneQueued ==
  ASSUME NEW i \in Irps
  PROVE  /\ <<i>> # <<>> /\ Len(<<i>>) = 1 /\ <<i>>[1] = i
         /\ Head(<<i>>) = i /\ Tail(<<i>>) = <<>> /\ Append(<<>>, i) = <<i>>
         /\ <<i>> \in Seq(Irps) /\ <<>> \in Seq(Irps) /\ Len(<<>>) = 0
OBVIOUS

(* A restart keeps the request whose cancel routine is not taken.          *)
LEMMA OneKept ==
  ASSUME NEW i \in Irps, CancelRoutine[i] \in BOOLEAN
  PROVE  /\ AfterCancelling(<<>>) = <<>>
         /\ AfterCancelling(<<i>>) = IF CancelRoutine[i] THEN <<i>> ELSE <<>>
         /\ NotCancelling(<<>>) = {}
         /\ ~CancelRoutine[i] => NotCancelling(<<i>>) = {}
<1>1. NotCancelling(<<>>) = {}
  BY DEF NotCancelling
<1>2. NotCancelling(<<i>>) = IF CancelRoutine[i] THEN {1} ELSE {}
  <2>1. Len(<<i>>) = 1 /\ <<i>>[1] = i
    OBVIOUS
  <2>2. \A k \in Nat : k \in 1..1 <=> k = 1
    OBVIOUS
  <2>3. \A k : k \in NotCancelling(<<i>>) <=> k = 1 /\ CancelRoutine[i]
    BY <2>1, <2>2 DEF NotCancelling
  <2> QED BY <2>3
<1>3. Min({1}) = 1
  BY DEF Min
<1>4. SubSeq(<<i>>, 1, Len(<<i>>)) = <<i>>
  BY SubSeqFull, <<i>> \in Seq(Irps)
<1> QED BY <1>1, <1>2, <1>3, <1>4 DEF AfterCancelling

(* A cancel routine takes its request.                                     *)
LEMMA OneRemoved ==
  ASSUME NEW i \in Irps
  PROVE  RemoveFirst(<<i>>, i) = <<>> /\ RemoveFirst(<<>>, i) = <<>>
<1> DEFINE I == {n \in 1..Len(<<i>>) : <<i>>[n] = i}
<1>1. I = {1} /\ Len(<<i>>) = 1
  <2>1. \A n \in Nat : n \in 1..1 <=> n = 1
    OBVIOUS
  <2> QED BY <2>1
<1>2. Min({1}) = 1
  BY DEF Min
<1>3. SelectInSeq(<<i>>, LAMBDA v : v = i) = 1
  BY <1>1, <1>2 DEF SelectInSeq
<1>4. RemoveAt(<<i>>, 1) = <<>>
  <2>1. SubSeq(<<i>>, 1, 1 - 1) = <<>> /\ SubSeq(<<i>>, 1 + 1, 1) = <<>>
    BY SubSeqEmpty
  <2>2. <<>> \o <<>> = <<>>
    OBVIOUS
  <2> QED BY <1>1, <2>1, <2>2 DEF RemoveAt
<1>5. \E n \in 1..Len(<<i>>) : <<i>>[n] = i
  OBVIOUS
<1>6. RemoveFirst(<<i>>, i) = RemoveAt(<<i>>, 1)
  BY <1>3, <1>5 DEF RemoveFirst
<1>7. RemoveFirst(<<>>, i) = <<>>
  BY DEF RemoveFirst
<1> QED BY <1>4, <1>6, <1>7
-----------------------------------------------------------------------------
(***************************************************************************)
(* The types.                                                              *)
(***************************************************************************)
(* The type invariant, part by part.                                       *)
SlotTypes ==
  /\ Irp \in [Dirs -> Irps \cup {NONE}] /\ SGL \in [Dirs -> Passes \cup {NONE}]
  /\ addr \in [Dirs -> Passes \cup {NONE}] /\ target \in [Dirs -> Passes \cup {NONE}]
QueueTypes == Queue \in [Dirs -> Seq(Irps)] /\ QueueLock \in [Dirs -> BOOLEAN]
PassTypes ==
  Length \in [Dirs -> Nat] /\ Offset \in [Dirs -> Nat] /\ TotalLength \in [Dirs -> Nat]
GateTypes ==
  /\ stallcount \in [Dirs -> 0..2] /\ abortstatus \in [Dirs -> BOOLEAN]
  /\ evStop \in [Dirs -> BOOLEAN]
ClockTypes == timer \in -1..1 /\ busy \in BOOLEAN /\ iotimeout \in BOOLEAN
CallTypes ==
  pc \in [Irps -> {"none", "lock", "held", "length", "current", "release", "unlock",
                   "touch", "returned"}]
CancelTypes ==
  /\ Cancel \in [Irps -> BOOLEAN] /\ CancelRoutine \in [Irps -> BOOLEAN]
  /\ cancelling \subseteq Irps
OutcomeTypes == Status \in [Irps -> Statuses] /\ completions \in [Irps -> Nat]
DpcTypes ==
  /\ dpcQueued \in BOOLEAN /\ dpcDir \in Dirs /\ dpcIrp \in Irps \cup {NONE}
  /\ dpc \in {"idle", "test", "reset", "forget", "queue", "dequeue", "timer", "length", "current"}
PnpTypes ==
  /\ pnp \in {"started", "stall", "clear", "check", "wait", "stopped", "restart",
              "timer", "length", "current", "abort", "cleanup", "removed"}
  /\ pnpDir \in Dirs /\ pnpIrp \in Irps \cup {NONE} /\ pnpDev \in {"FDO", "PDO"}
DeviceTypes ==
  /\ start \in [Dirs -> BOOLEAN] /\ done \in [Dirs -> BOOLEAN]
  /\ intr \in BOOLEAN /\ Operation \subseteq Dirs /\ moved \subseteq Passes
FaultTypes == touched \subseteq Irps /\ bugcheck \in BOOLEAN

(* Which directions are stalled, and what a removal needs.                 *)
Before(d) == d # pnpDir /\ d = PnpFirst
Stalled(d) ==
  \/ pnp = "stall" /\ Before(d)
  \/ pnp \in {"clear", "check", "wait", "stopped"}
  \/ pnp = "restart" /\ ~Before(d)
  \/ pnp \in {"timer", "length", "current"} /\ ~Before(d) /\ d # pnpDir
Plug ==
  /\ \A d \in Dirs : stallcount[d] = IF Stalled(d) THEN 1 ELSE 0
  /\ pnp \in {"started", "stopped", "removed"} => pnpDir = PnpFirst
  /\ pnp = "stall" => pnpDir = PnpLast /\ PnpFirst # PnpLast
  /\ pnpIrp # NONE <=> pnp \in {"timer", "length", "current"}
  /\ pnp \in {"abort", "cleanup", "removed"} => "remove" \in Env
  /\ pnp \notin {"abort", "cleanup", "removed"} => \A d \in Dirs : ~abortstatus[d]

Typed ==
  /\ SlotTypes /\ QueueTypes /\ PassTypes /\ GateTypes /\ ClockTypes /\ CallTypes
  /\ CancelTypes /\ OutcomeTypes /\ DpcTypes /\ PnpTypes /\ DeviceTypes /\ FaultTypes

(* The parts are TypeOK.                                                   *)
LEMMA TypeParts == TypeOK <=> Typed
BY DEF TypeOK, Typed, SlotTypes, QueueTypes, PassTypes, GateTypes, ClockTypes, CallTypes,
   CancelTypes, OutcomeTypes, DpcTypes, PnpTypes, DeviceTypes, FaultTypes

USE DEF Set, slot, xfer, gate, clock, outcome, cancels, dpcVars, pnpVars, device, faults

(* The first and the last direction are all there are.                     *)
LEMMA Directions ==
  /\ PnpFirst \in Dirs /\ PnpLast \in Dirs
  /\ \A d \in Dirs : d = PnpFirst \/ d = PnpLast
BY DirAssumption DEF PnpFirst, PnpLast

(* A pass has a length, even if the total is below the offset.             *)
LEMMA PassLengthType ==
  ASSUME PassTypes, NEW d \in Dirs PROVE PassLength(d) \in Nat
BY LengthAssumption DEF PassLength, PassTypes

(* A completion keeps the types of what it sets.                           *)
LEMMA CompletedType ==
  ASSUME OutcomeTypes, NEW i \in Irps \cup {NONE}, NEW s \in Statuses, Complete(i, s)
  PROVE  OutcomeTypes'
<1>1. Status' \in [Irps -> Statuses]
  BY DEF OutcomeTypes, Complete
<1>2. completions' \in [Irps -> Nat]
  <2>1. CASE i \in Irps
    <3>1. completions[i] + 1 \in Nat
      BY <2>1 DEF OutcomeTypes
    <3> QED BY <3>1 DEF OutcomeTypes, Complete
  <2>2. CASE i \notin Irps
    <3>1. completions' = completions
      BY <2>2 DEF OutcomeTypes, Complete
    <3> QED BY <3>1 DEF OutcomeTypes
  <2> QED BY <2>1, <2>2
<1> QED BY <1>1, <1>2 DEF OutcomeTypes

(* ... and so does making a request current.                               *)
LEMMA CurrentType ==
  ASSUME SlotTypes, PassTypes, OutcomeTypes, NEW d \in Dirs, NEW i \in Irps \cup {NONE},
         StartCurrent(d, i), UNCHANGED target
  PROVE  SlotTypes' /\ OutcomeTypes'
<1>1. SlotTypes'
  <2>1. <<i, Offset[d]>> \in Passes
    BY DEF PassTypes, Passes
  <2> HIDE DEF Passes
  <2> QED BY <2>1 DEF SlotTypes, StartCurrent
<1>2. OutcomeTypes'
  <2>1. CASE UNCHANGED outcome
    BY <2>1 DEF OutcomeTypes
  <2>2. CASE Complete(i, "SG_FAILED")
    BY <2>2, CompletedType DEF Statuses
  <2> QED BY <2>1, <2>2 DEF StartCurrent
<1> QED BY <1>1, <1>2

(* Dispatch keeps the types ...                                            *)
LEMMA DispatchTypes ==
  ASSUME Typed, NEW i \in Irps, DispatchAccept(i) \/ DispatchReject(i) \/ Dispatch(i)
  PROVE  Typed'
<1> USE DEF Typed
<1>0. DirOf[i] \in Dirs /\ LenOf[i] \in Nat
  BY DirAssumption, LengthAssumption
<1>1. CASE DispatchAccept(i)
  <2>1. PassTypes' /\ DeviceTypes' /\ CallTypes'
    BY <1>0, <1>1 DEF DispatchAccept, PassTypes, DeviceTypes, CallTypes
  <2>2. SlotTypes' /\ QueueTypes' /\ GateTypes' /\ ClockTypes' /\ CancelTypes' /\ OutcomeTypes'
    BY <1>1 DEF DispatchAccept, SlotTypes, QueueTypes, GateTypes, ClockTypes, CancelTypes, OutcomeTypes
  <2>3. DpcTypes' /\ PnpTypes' /\ FaultTypes'
    BY <1>1 DEF DispatchAccept, DpcTypes, PnpTypes, FaultTypes
  <2> QED BY <2>1, <2>2, <2>3
<1>2. CASE DispatchReject(i)
  <2>1. PassTypes' /\ CallTypes'
    BY <1>0, <1>2 DEF DispatchReject, PassTypes, CallTypes
  <2>2. OutcomeTypes'
    BY <1>2, CompletedType DEF DispatchReject, Statuses
  <2>3. SlotTypes' /\ QueueTypes' /\ GateTypes' /\ ClockTypes' /\ CancelTypes' /\ DpcTypes'
    BY <1>2 DEF DispatchReject, SlotTypes, QueueTypes, GateTypes, ClockTypes, CancelTypes, DpcTypes
  <2>4. PnpTypes' /\ DeviceTypes' /\ FaultTypes'
    BY <1>2 DEF DispatchReject, PnpTypes, DeviceTypes, FaultTypes
  <2> QED BY <2>1, <2>2, <2>3, <2>4
<1>3. CASE DispatchLock(i)
  <2>1. QueueTypes' /\ CallTypes'
    BY <1>0, <1>3 DEF DispatchLock, QueueTypes, CallTypes
  <2>2. SlotTypes' /\ PassTypes' /\ GateTypes' /\ ClockTypes' /\ CancelTypes' /\ OutcomeTypes'
    BY <1>3 DEF DispatchLock, SlotTypes, PassTypes, GateTypes, ClockTypes, CancelTypes, OutcomeTypes
  <2>3. DpcTypes' /\ PnpTypes' /\ DeviceTypes' /\ FaultTypes'
    BY <1>3 DEF DispatchLock, DpcTypes, PnpTypes, DeviceTypes, FaultTypes
  <2> QED BY <2>1, <2>2, <2>3
<1>4. CASE DispatchDrop(i)
  <2>1. QueueTypes' /\ CallTypes'
    BY <1>0, <1>4 DEF DispatchDrop, QueueTypes, CallTypes
  <2>2. OutcomeTypes'
    BY <1>4, CompletedType DEF DispatchDrop, Statuses
  <2>3. SlotTypes' /\ PassTypes' /\ GateTypes' /\ ClockTypes' /\ CancelTypes' /\ DpcTypes'
    BY <1>4 DEF DispatchDrop, SlotTypes, PassTypes, GateTypes, ClockTypes, CancelTypes, DpcTypes
  <2>4. PnpTypes' /\ DeviceTypes' /\ FaultTypes'
    BY <1>4 DEF DispatchDrop, PnpTypes, DeviceTypes, FaultTypes
  <2> QED BY <2>1, <2>2, <2>3, <2>4
<1>5. CASE DispatchQueue(i)
  <2>1. QueueTypes' /\ CallTypes' /\ CancelTypes'
    BY <1>0, <1>5 DEF DispatchQueue, QueueTypes, CallTypes, CancelTypes
  <2>2. SlotTypes' /\ PassTypes' /\ GateTypes' /\ ClockTypes' /\ OutcomeTypes' /\ DpcTypes'
    BY <1>5 DEF DispatchQueue, SlotTypes, PassTypes, GateTypes, ClockTypes, OutcomeTypes, DpcTypes
  <2>3. PnpTypes' /\ DeviceTypes' /\ FaultTypes'
    BY <1>5 DEF DispatchQueue, PnpTypes, DeviceTypes, FaultTypes
  <2> QED BY <2>1, <2>2, <2>3
<1>6. CASE DispatchStart(i)
  <2>1. ClockTypes' /\ CallTypes'
    BY <1>0, <1>6 DEF DispatchStart, SetIoTimerValue, ClockTypes, CallTypes
  <2>2. SlotTypes' /\ QueueTypes' /\ PassTypes' /\ GateTypes' /\ CancelTypes' /\ OutcomeTypes'
    BY <1>6 DEF DispatchStart, SlotTypes, QueueTypes, PassTypes, GateTypes, CancelTypes, OutcomeTypes
  <2>3. DpcTypes' /\ PnpTypes' /\ DeviceTypes' /\ FaultTypes'
    BY <1>6 DEF DispatchStart, DpcTypes, PnpTypes, DeviceTypes, FaultTypes
  <2> QED BY <2>1, <2>2, <2>3
<1>7. CASE DispatchLength(i)
  <2>1. PassTypes' /\ CallTypes'
    BY <1>0, <1>7, PassLengthType DEF DispatchLength, StartLength, PassTypes, CallTypes
  <2>2. SlotTypes' /\ QueueTypes' /\ GateTypes' /\ ClockTypes' /\ CancelTypes' /\ OutcomeTypes'
    BY <1>7 DEF DispatchLength, SlotTypes, QueueTypes, GateTypes, ClockTypes, CancelTypes, OutcomeTypes
  <2>3. DpcTypes' /\ PnpTypes' /\ DeviceTypes' /\ FaultTypes'
    BY <1>7 DEF DispatchLength, DpcTypes, PnpTypes, DeviceTypes, FaultTypes
  <2> QED BY <2>1, <2>2, <2>3
<1>8. CASE DispatchCurrent(i)
  <2>1. SlotTypes' /\ OutcomeTypes'
    BY <1>0, <1>8, CurrentType DEF DispatchCurrent
  <2>2. CallTypes'
    BY <1>8 DEF DispatchCurrent, CallTypes
  <2>3. QueueTypes' /\ PassTypes' /\ GateTypes' /\ ClockTypes' /\ CancelTypes' /\ DpcTypes'
    BY <1>8 DEF DispatchCurrent, QueueTypes, PassTypes, GateTypes, ClockTypes, CancelTypes, DpcTypes
  <2>4. PnpTypes' /\ DeviceTypes' /\ FaultTypes'
    BY <1>8 DEF DispatchCurrent, PnpTypes, DeviceTypes, FaultTypes
  <2> QED BY <2>1, <2>2, <2>3, <2>4
<1>9. CASE DispatchRelease(i)
  <2>1. QueueTypes' /\ CallTypes'
    BY <1>0, <1>9 DEF DispatchRelease, AfterRelease, QueueTypes, CallTypes
  <2>2. SlotTypes' /\ PassTypes' /\ GateTypes' /\ ClockTypes' /\ CancelTypes' /\ OutcomeTypes'
    BY <1>9 DEF DispatchRelease, SlotTypes, PassTypes, GateTypes, ClockTypes, CancelTypes, OutcomeTypes
  <2>3. DpcTypes' /\ PnpTypes' /\ DeviceTypes' /\ FaultTypes'
    BY <1>9 DEF DispatchRelease, DpcTypes, PnpTypes, DeviceTypes, FaultTypes
  <2> QED BY <2>1, <2>2, <2>3
<1>10. CASE DispatchMarkPending(i)
  <2>1. FaultTypes' /\ CallTypes'
    BY <1>0, <1>10 DEF DispatchMarkPending, FaultTypes, CallTypes
  <2>2. SlotTypes' /\ QueueTypes' /\ PassTypes' /\ GateTypes' /\ ClockTypes' /\ CancelTypes'
    BY <1>10 DEF DispatchMarkPending, SlotTypes, QueueTypes, PassTypes, GateTypes, ClockTypes, CancelTypes
  <2>3. OutcomeTypes' /\ DpcTypes' /\ PnpTypes' /\ DeviceTypes'
    BY <1>10 DEF DispatchMarkPending, OutcomeTypes, DpcTypes, PnpTypes, DeviceTypes
  <2> QED BY <2>1, <2>2, <2>3
<1> QED BY <1>1, <1>2, <1>3, <1>4, <1>5, <1>6, <1>7, <1>8, <1>9, <1>10 DEF Dispatch

(* ... the cancellation ...                                                *)
LEMMA CancelTypesStep ==
  ASSUME Typed, NEW i \in Irps, CancelIrp(i) \/ CancelRequest(i)
  PROVE  Typed'
<1> USE DEF Typed
<1>1. CASE CancelIrp(i)
  <2>1. CancelTypes'
    BY <1>1 DEF CancelIrp, CancelTypes
  <2>2. SlotTypes' /\ QueueTypes' /\ PassTypes' /\ GateTypes' /\ ClockTypes' /\ CallTypes'
    BY <1>1 DEF CancelIrp, SlotTypes, QueueTypes, PassTypes, GateTypes, ClockTypes, CallTypes
  <2>3. OutcomeTypes' /\ DpcTypes' /\ PnpTypes' /\ DeviceTypes' /\ FaultTypes'
    BY <1>1 DEF CancelIrp, OutcomeTypes, DpcTypes, PnpTypes, DeviceTypes, FaultTypes
  <2> QED BY <2>1, <2>2, <2>3
<1>2. CASE CancelRequest(i)
  <2>1. CancelTypes'
    BY <1>2 DEF CancelRequest, CancelTypes
  <2>2. QueueTypes'
    <3>1. DirOf[i] \in Dirs /\ RemoveFirst(Queue[DirOf[i]], i) \in Seq(Irps)
      BY DirAssumption, RemoveFirstType DEF QueueTypes
    <3> QED BY <3>1, <1>2 DEF CancelRequest, QueueTypes
  <2>3. OutcomeTypes'
    BY <1>2, CompletedType DEF CancelRequest, Statuses
  <2>4. SlotTypes' /\ PassTypes' /\ GateTypes' /\ ClockTypes' /\ CallTypes' /\ DpcTypes'
    BY <1>2 DEF CancelRequest, SlotTypes, PassTypes, GateTypes, ClockTypes, CallTypes, DpcTypes
  <2>5. PnpTypes' /\ DeviceTypes' /\ FaultTypes'
    BY <1>2 DEF CancelRequest, PnpTypes, DeviceTypes, FaultTypes
  <2> QED BY <2>1, <2>2, <2>3, <2>4, <2>5
<1> QED BY <1>1, <1>2

(* ... the interrupt and the timer routine ...                             *)
LEMMA ClockTypesStep ==
  ASSUME Typed, BDMA_Isr \/ CheckTimer
  PROVE  Typed'
<1> USE DEF Typed
<1>1. CASE BDMA_Isr
  <2>1. ClockTypes'
    <3>1. (timer' = -1 /\ busy' = FALSE) \/ UNCHANGED <<timer, busy>>
      BY <1>1, Zenon DEF BDMA_Isr
    <3>2. -1 \in -1..1 /\ UNCHANGED iotimeout
      BY <1>1 DEF BDMA_Isr
    <3> QED BY <3>1, <3>2 DEF ClockTypes
  <2>2. DpcTypes' /\ DeviceTypes'
    BY <1>1 DEF BDMA_Isr, DpcTypes, DeviceTypes
  <2>3. SlotTypes' /\ QueueTypes' /\ PassTypes' /\ GateTypes' /\ CallTypes' /\ CancelTypes'
    BY <1>1 DEF BDMA_Isr, SlotTypes, QueueTypes, PassTypes, GateTypes, CallTypes, CancelTypes
  <2>4. OutcomeTypes' /\ PnpTypes' /\ FaultTypes'
    BY <1>1 DEF BDMA_Isr, OutcomeTypes, PnpTypes, FaultTypes
  <2> QED BY <2>1, <2>2, <2>3, <2>4
<1>2. CASE CheckTimer
  <2>1. ClockTypes'
    <3>1. timer' = timer - 1 /\ timer > 0
      BY <1>2 DEF CheckTimer
    <3>2. timer' \in -1..1
      BY <3>1 DEF ClockTypes
    <3>3. (busy' = FALSE /\ iotimeout' = TRUE) \/ UNCHANGED <<busy, iotimeout>>
      BY <1>2, Zenon DEF CheckTimer, Expire
    <3> QED BY <3>2, <3>3 DEF ClockTypes
  <2>2. DpcTypes'
    BY <1>2 DEF CheckTimer, Expire, DpcTypes
  <2>3. SlotTypes' /\ QueueTypes' /\ PassTypes' /\ GateTypes' /\ CallTypes' /\ CancelTypes'
    BY <1>2 DEF CheckTimer, SlotTypes, QueueTypes, PassTypes, GateTypes, CallTypes, CancelTypes
  <2>4. OutcomeTypes' /\ PnpTypes' /\ DeviceTypes' /\ FaultTypes'
    BY <1>2 DEF CheckTimer, OutcomeTypes, PnpTypes, DeviceTypes, FaultTypes
  <2> QED BY <2>1, <2>2, <2>3, <2>4
<1> QED BY <1>1, <1>2

(* ... the DPC ...                                                         *)
LEMMA DpcTypesStep ==
  ASSUME Typed, DpcForIsr
  PROVE  Typed'
<1> USE DEF Typed
<1>1. CASE DpcBegin
  <2>1. DpcTypes'
    BY <1>1, Directions DEF DpcBegin, DpcTypes
  <2>2. SlotTypes' /\ QueueTypes' /\ PassTypes' /\ GateTypes' /\ ClockTypes' /\ CallTypes'
    BY <1>1 DEF DpcBegin, SlotTypes, QueueTypes, PassTypes, GateTypes, ClockTypes, CallTypes
  <2>3. CancelTypes' /\ OutcomeTypes' /\ PnpTypes' /\ DeviceTypes' /\ FaultTypes'
    BY <1>1 DEF DpcBegin, CancelTypes, OutcomeTypes, PnpTypes, DeviceTypes, FaultTypes
  <2> QED BY <2>1, <2>2, <2>3
<1>2. CASE DpcSkip
  <2>1. DpcTypes'
    BY <1>2, Directions DEF DpcSkip, DpcNextDirection, DpcTypes
  <2>2. SlotTypes' /\ QueueTypes' /\ PassTypes' /\ GateTypes' /\ ClockTypes' /\ CallTypes'
    BY <1>2 DEF DpcSkip, SlotTypes, QueueTypes, PassTypes, GateTypes, ClockTypes, CallTypes
  <2>3. CancelTypes' /\ OutcomeTypes' /\ PnpTypes' /\ DeviceTypes' /\ FaultTypes'
    BY <1>2 DEF DpcSkip, CancelTypes, OutcomeTypes, PnpTypes, DeviceTypes, FaultTypes
  <2> QED BY <2>1, <2>2, <2>3
<1>3. CASE DpcComplete
  <2>1. PassTypes'
    <3>1. NewOffset \in Nat
      BY DEF NewOffset, PassTypes, DpcTypes
    <3> QED BY <3>1, <1>3 DEF DpcComplete, PassTypes
  <2>2. SlotTypes'
    BY <1>3 DEF DpcComplete, SlotTypes, DpcTypes
  <2>3. OutcomeTypes'
    <3>1. Irp[dpcDir] \in Irps \cup {NONE}
      BY DEF SlotTypes, DpcTypes
    <3>2. \E s \in Statuses : Complete(Irp[dpcDir], s)
      BY <1>3 DEF DpcComplete, Statuses
    <3> QED BY <3>1, <3>2, CompletedType
  <2>4. GateTypes' /\ ClockTypes' /\ DpcTypes'
    BY <1>3 DEF DpcComplete, SignalStop, GateTypes, ClockTypes, DpcTypes
  <2>5. QueueTypes' /\ CallTypes' /\ CancelTypes' /\ PnpTypes' /\ DeviceTypes' /\ FaultTypes'
    BY <1>3 DEF DpcComplete, QueueTypes, CallTypes, CancelTypes, PnpTypes, DeviceTypes, FaultTypes
  <2> QED BY <2>1, <2>2, <2>3, <2>4, <2>5
<1>4. CASE DpcWithoutIrp
  <2>1. FaultTypes'
    BY <1>4 DEF DpcWithoutIrp, FaultTypes
  <2>2. SlotTypes' /\ QueueTypes' /\ PassTypes' /\ GateTypes' /\ ClockTypes' /\ CallTypes'
    BY <1>4 DEF DpcWithoutIrp, SlotTypes, QueueTypes, PassTypes, GateTypes, ClockTypes, CallTypes
  <2>3. CancelTypes' /\ OutcomeTypes' /\ DpcTypes' /\ PnpTypes' /\ DeviceTypes'
    BY <1>4 DEF DpcWithoutIrp, CancelTypes, OutcomeTypes, DpcTypes, PnpTypes, DeviceTypes
  <2> QED BY <2>1, <2>2, <2>3
<1>5. CASE DpcMore
  <2>1. PassTypes'
    <3>1. NewOffset \in Nat
      BY DEF NewOffset, PassTypes, DpcTypes
    <3> QED BY <3>1, <1>5 DEF DpcMore, PassTypes
  <2>2. SlotTypes' /\ DpcTypes'
    BY <1>5 DEF DpcMore, SlotTypes, DpcTypes
  <2>3. QueueTypes' /\ GateTypes' /\ ClockTypes' /\ CallTypes' /\ CancelTypes' /\ OutcomeTypes'
    BY <1>5 DEF DpcMore, QueueTypes, GateTypes, ClockTypes, CallTypes, CancelTypes, OutcomeTypes
  <2>4. PnpTypes' /\ DeviceTypes' /\ FaultTypes'
    BY <1>5 DEF DpcMore, PnpTypes, DeviceTypes, FaultTypes
  <2> QED BY <2>1, <2>2, <2>3, <2>4
<1>6. CASE DpcReset
  <2>1. SlotTypes' /\ PassTypes' /\ DpcTypes'
    BY <1>6 DEF DpcReset, SlotTypes, PassTypes, DpcTypes
  <2>2. QueueTypes' /\ GateTypes' /\ ClockTypes' /\ CallTypes' /\ CancelTypes' /\ OutcomeTypes'
    BY <1>6 DEF DpcReset, QueueTypes, GateTypes, ClockTypes, CallTypes, CancelTypes, OutcomeTypes
  <2>3. PnpTypes' /\ DeviceTypes' /\ FaultTypes'
    BY <1>6 DEF DpcReset, PnpTypes, DeviceTypes, FaultTypes
  <2> QED BY <2>1, <2>2, <2>3
<1>12. CASE DpcForget
  <2>1. SlotTypes' /\ PassTypes' /\ DpcTypes'
    BY <1>12 DEF DpcForget, SlotTypes, PassTypes, DpcTypes
  <2>2. QueueTypes' /\ GateTypes' /\ ClockTypes' /\ CallTypes' /\ CancelTypes' /\ OutcomeTypes'
    BY <1>12 DEF DpcForget, QueueTypes, GateTypes, ClockTypes, CallTypes, CancelTypes, OutcomeTypes
  <2>3. PnpTypes' /\ DeviceTypes' /\ FaultTypes'
    BY <1>12 DEF DpcForget, PnpTypes, DeviceTypes, FaultTypes
  <2> QED BY <2>1, <2>2, <2>3
<1>7. CASE DpcLookAtQueue
  <2>1. DpcTypes'
    BY <1>7, Directions DEF DpcLookAtQueue, DpcNextDirection, DpcTypes
  <2>2. SlotTypes' /\ QueueTypes' /\ PassTypes' /\ GateTypes' /\ ClockTypes' /\ CallTypes'
    BY <1>7 DEF DpcLookAtQueue, SlotTypes, QueueTypes, PassTypes, GateTypes, ClockTypes, CallTypes
  <2>3. CancelTypes' /\ OutcomeTypes' /\ PnpTypes' /\ DeviceTypes' /\ FaultTypes'
    BY <1>7 DEF DpcLookAtQueue, CancelTypes, OutcomeTypes, PnpTypes, DeviceTypes, FaultTypes
  <2> QED BY <2>1, <2>2, <2>3
<1>8. CASE DpcDequeue
  <2>1. SlotTypes'
    <3> DEFINE live == NotCancelling(Queue[dpcDir])
    <3>1. dpcDir \in Dirs /\ Queue[dpcDir] \in Seq(Irps) /\ Irp[dpcDir] \in Irps \cup {NONE}
      BY DEF QueueTypes, DpcTypes, SlotTypes
    <3>2. live # {} => Queue[dpcDir][Max(live)] \in Irps
      BY <3>1, Places, ElementOfSeq
    <3> HIDE DEF live
    <3>3. (IF live = {} THEN Irp[dpcDir] ELSE Queue[dpcDir][Max(live)]) \in Irps \cup {NONE}
      BY <3>1, <3>2
    <3> QED BY <3>3, <1>8 DEF DpcDequeue, live, SlotTypes
  <2>2. QueueTypes'
    <3>1. <<>> \in Seq(Irps)
      OBVIOUS
    <3>2. UNCHANGED QueueLock /\ (UNCHANGED Queue \/ Queue' = [Queue EXCEPT ![dpcDir] = <<>>])
      BY <1>8, Zenon DEF DpcDequeue
    <3> QED BY <3>1, <3>2 DEF QueueTypes, DpcTypes
  <2>3. CancelTypes'
    BY <1>8 DEF DpcDequeue, CancelTypes
  <2>4. DpcTypes'
    BY <1>8 DEF DpcDequeue, DpcTypes
  <2>5. PassTypes' /\ GateTypes' /\ ClockTypes' /\ CallTypes' /\ OutcomeTypes' /\ PnpTypes'
    BY <1>8 DEF DpcDequeue, PassTypes, GateTypes, ClockTypes, CallTypes, OutcomeTypes, PnpTypes
  <2>6. DeviceTypes' /\ FaultTypes'
    BY <1>8 DEF DpcDequeue, DeviceTypes, FaultTypes
  <2> QED BY <2>1, <2>2, <2>3, <2>4, <2>5, <2>6
<1>9. CASE DpcStart
  <2>1. ClockTypes'
    BY <1>9 DEF DpcStart, SetIoTimerValue, ClockTypes
  <2>2. DpcTypes' /\ FaultTypes'
    BY <1>9 DEF DpcStart, DpcTypes, SlotTypes, FaultTypes
  <2>3. SlotTypes' /\ QueueTypes' /\ PassTypes' /\ GateTypes' /\ CallTypes' /\ CancelTypes'
    BY <1>9 DEF DpcStart, SlotTypes, QueueTypes, PassTypes, GateTypes, CallTypes, CancelTypes
  <2>4. OutcomeTypes' /\ PnpTypes' /\ DeviceTypes'
    BY <1>9 DEF DpcStart, OutcomeTypes, PnpTypes, DeviceTypes
  <2> QED BY <2>1, <2>2, <2>3, <2>4
<1>10. CASE DpcLength
  <2>1. PassTypes'
    BY <1>10, PassLengthType DEF DpcLength, StartLength, PassTypes, DpcTypes
  <2>2. SlotTypes' /\ QueueTypes' /\ GateTypes' /\ ClockTypes' /\ CallTypes' /\ CancelTypes'
    BY <1>10 DEF DpcLength, SlotTypes, QueueTypes, GateTypes, ClockTypes, CallTypes, CancelTypes
  <2>3. OutcomeTypes' /\ DpcTypes' /\ PnpTypes' /\ DeviceTypes' /\ FaultTypes'
    BY <1>10 DEF DpcLength, OutcomeTypes, DpcTypes, PnpTypes, DeviceTypes, FaultTypes
  <2> QED BY <2>1, <2>2, <2>3
<1>11. CASE DpcCurrent
  <2>1. SlotTypes' /\ OutcomeTypes'
    BY <1>11, CurrentType DEF DpcCurrent, DpcTypes
  <2>2. DpcTypes'
    BY <1>11, Directions DEF DpcCurrent, DpcNextDirection, DpcTypes
  <2>3. QueueTypes' /\ PassTypes' /\ GateTypes' /\ ClockTypes' /\ CallTypes' /\ CancelTypes'
    BY <1>11 DEF DpcCurrent, QueueTypes, PassTypes, GateTypes, ClockTypes, CallTypes, CancelTypes
  <2>4. PnpTypes' /\ DeviceTypes' /\ FaultTypes'
    BY <1>11 DEF DpcCurrent, PnpTypes, DeviceTypes, FaultTypes
  <2> QED BY <2>1, <2>2, <2>3, <2>4
<1> QED BY <1>1, <1>2, <1>3, <1>4, <1>5, <1>6, <1>7, <1>8, <1>9, <1>10, <1>11, <1>12
   DEF DpcForIsr

(* A removal takes nothing off a queue.                                    *)
NothingToCleanUp == pnp = "cleanup" => NotCancelling(Queue[pnpDir]) = {}

(* ... the Plug and Play thread, if a removal completes nothing ...        *)
LEMMA PnpTypesStep ==
  ASSUME Typed, Plug, NothingToCleanUp, StallRequests \/ AbortRequests \/ PnpWork
  PROVE  Typed'
<1> USE DEF Typed
<1>1. CASE StallRequests
  <2>1. GateTypes'
    <3>1. stallcount[pnpDir] + 1 \in 0..2
      BY DEF Plug, PnpTypes
    <3> QED BY <3>1, <1>1 DEF StallRequests, GateTypes
  <2>2. PnpTypes'
    BY <1>1, Directions DEF StallRequests, PnpNextDirection, PnpTypes
  <2>3. SlotTypes' /\ QueueTypes' /\ PassTypes' /\ ClockTypes' /\ CallTypes' /\ CancelTypes'
    BY <1>1 DEF StallRequests, SlotTypes, QueueTypes, PassTypes, ClockTypes, CallTypes, CancelTypes
  <2>4. OutcomeTypes' /\ DpcTypes' /\ DeviceTypes' /\ FaultTypes'
    BY <1>1 DEF StallRequests, OutcomeTypes, DpcTypes, DeviceTypes, FaultTypes
  <2> QED BY <2>1, <2>2, <2>3, <2>4
<1>2. CASE WaitClearEvent
  <2>1. GateTypes' /\ PnpTypes'
    BY <1>2 DEF WaitClearEvent, GateTypes, PnpTypes
  <2>2. SlotTypes' /\ QueueTypes' /\ PassTypes' /\ ClockTypes' /\ CallTypes' /\ CancelTypes'
    BY <1>2 DEF WaitClearEvent, SlotTypes, QueueTypes, PassTypes, ClockTypes, CallTypes, CancelTypes
  <2>3. OutcomeTypes' /\ DpcTypes' /\ DeviceTypes' /\ FaultTypes'
    BY <1>2 DEF WaitClearEvent, OutcomeTypes, DpcTypes, DeviceTypes, FaultTypes
  <2> QED BY <2>1, <2>2, <2>3
<1>3. CASE WaitCheck
  <2>1. PnpTypes'
    BY <1>3, Directions DEF WaitCheck, PnpNextDirection, PnpTypes
  <2>2. SlotTypes' /\ QueueTypes' /\ PassTypes' /\ GateTypes' /\ ClockTypes' /\ CallTypes'
    BY <1>3 DEF WaitCheck, SlotTypes, QueueTypes, PassTypes, GateTypes, ClockTypes, CallTypes
  <2>3. CancelTypes' /\ OutcomeTypes' /\ DpcTypes' /\ DeviceTypes' /\ FaultTypes'
    BY <1>3 DEF WaitCheck, CancelTypes, OutcomeTypes, DpcTypes, DeviceTypes, FaultTypes
  <2> QED BY <2>1, <2>2, <2>3
<1>4. CASE WaitEvent
  <2>1. PnpTypes'
    BY <1>4, Directions DEF WaitEvent, PnpNextDirection, PnpTypes
  <2>2. SlotTypes' /\ QueueTypes' /\ PassTypes' /\ GateTypes' /\ ClockTypes' /\ CallTypes'
    BY <1>4 DEF WaitEvent, SlotTypes, QueueTypes, PassTypes, GateTypes, ClockTypes, CallTypes
  <2>3. CancelTypes' /\ OutcomeTypes' /\ DpcTypes' /\ DeviceTypes' /\ FaultTypes'
    BY <1>4 DEF WaitEvent, CancelTypes, OutcomeTypes, DpcTypes, DeviceTypes, FaultTypes
  <2> QED BY <2>1, <2>2, <2>3
<1>5. CASE Resume
  <2>1. PnpTypes'
    BY <1>5 DEF Resume, PnpTypes
  <2>2. SlotTypes' /\ QueueTypes' /\ PassTypes' /\ GateTypes' /\ ClockTypes' /\ CallTypes'
    BY <1>5 DEF Resume, SlotTypes, QueueTypes, PassTypes, GateTypes, ClockTypes, CallTypes
  <2>3. CancelTypes' /\ OutcomeTypes' /\ DpcTypes' /\ DeviceTypes' /\ FaultTypes'
    BY <1>5 DEF Resume, CancelTypes, OutcomeTypes, DpcTypes, DeviceTypes, FaultTypes
  <2> QED BY <2>1, <2>2, <2>3
<1>6. CASE RestartRequests
  <2>1. SlotTypes' /\ QueueTypes'
    <3> DEFINE q    == Queue[pnpDir]
               rest == IF MayRestart(pnpDir) THEN AfterCancelling(q) ELSE q
    <3>1. pnpDir \in Dirs /\ q \in Seq(Irps) /\ rest \in Seq(Irps)
      BY AfterCancellingType DEF QueueTypes, PnpTypes
    <3>2. rest # <<>> => Head(rest) \in Irps /\ Tail(rest) \in Seq(Irps)
      BY <3>1, HeadTailProperties
    <3> HIDE DEF rest
    <3>3. CASE MayRestart(pnpDir) /\ rest # <<>>
      <4>1. Queue' = [Queue EXCEPT ![pnpDir] = Tail(rest)]
            /\ Irp' = [Irp EXCEPT ![pnpDir] = Head(rest)]
        BY <3>2, <3>3, <1>6, EnvAssumption DEF RestartRequests, rest
      <4> QED BY <3>1, <3>2, <3>3, <4>1, <1>6 DEF RestartRequests, SlotTypes, QueueTypes
    <3>4. CASE ~(MayRestart(pnpDir) /\ rest # <<>>)
      <4>1. Queue' = [Queue EXCEPT ![pnpDir] = rest] /\ UNCHANGED Irp
        BY <3>4, <1>6 DEF RestartRequests, rest
      <4> QED BY <3>1, <4>1, <1>6 DEF RestartRequests, SlotTypes, QueueTypes
    <3> QED BY <3>3, <3>4
  <2>2. GateTypes'
    <3>1. stallcount[pnpDir] - 1 \in 0..2
      BY <1>6 DEF RestartRequests, Plug, PnpTypes, Stalled, Before
    <3> QED BY <3>1, <1>6 DEF RestartRequests, GateTypes
  <2>3. CancelTypes'
    BY <1>6 DEF RestartRequests, CancelTypes
  <2>4. PnpTypes' /\ FaultTypes'
    <3> DEFINE q    == Queue[pnpDir]
               rest == IF MayRestart(pnpDir) THEN AfterCancelling(q) ELSE q
    <3>1. rest \in Seq(Irps)
      BY AfterCancellingType DEF QueueTypes, PnpTypes
    <3>2. rest # <<>> => Head(rest) \in Irps
      BY <3>1, HeadTailProperties
    <3>3. pnpIrp' \in Irps \cup {NONE}
      BY <3>2, <1>6 DEF RestartRequests
    <3> QED BY <3>3, <1>6, Directions DEF RestartRequests, PnpNextDirection, PnpTypes, FaultTypes
  <2>5. PassTypes' /\ ClockTypes' /\ CallTypes' /\ OutcomeTypes' /\ DpcTypes' /\ DeviceTypes'
    BY <1>6 DEF RestartRequests, PassTypes, ClockTypes, CallTypes, OutcomeTypes, DpcTypes, DeviceTypes
  <2> QED BY <2>1, <2>2, <2>3, <2>4, <2>5
<1>7. CASE RestartStart
  <2>1. ClockTypes'
    BY <1>7 DEF RestartStart, SetIoTimerValue, ClockTypes
  <2>2. PnpTypes'
    BY <1>7 DEF RestartStart, PnpTypes
  <2>3. SlotTypes' /\ QueueTypes' /\ PassTypes' /\ GateTypes' /\ CallTypes' /\ CancelTypes'
    BY <1>7 DEF RestartStart, SlotTypes, QueueTypes, PassTypes, GateTypes, CallTypes, CancelTypes
  <2>4. OutcomeTypes' /\ DpcTypes' /\ DeviceTypes' /\ FaultTypes'
    BY <1>7 DEF RestartStart, OutcomeTypes, DpcTypes, DeviceTypes, FaultTypes
  <2> QED BY <2>1, <2>2, <2>3, <2>4
<1>8. CASE RestartLength
  <2>1. PassTypes'
    BY <1>8, PassLengthType DEF RestartLength, StartLength, PassTypes, PnpTypes
  <2>2. PnpTypes'
    BY <1>8 DEF RestartLength, PnpTypes
  <2>3. SlotTypes' /\ QueueTypes' /\ GateTypes' /\ ClockTypes' /\ CallTypes' /\ CancelTypes'
    BY <1>8 DEF RestartLength, SlotTypes, QueueTypes, GateTypes, ClockTypes, CallTypes, CancelTypes
  <2>4. OutcomeTypes' /\ DpcTypes' /\ DeviceTypes' /\ FaultTypes'
    BY <1>8 DEF RestartLength, OutcomeTypes, DpcTypes, DeviceTypes, FaultTypes
  <2> QED BY <2>1, <2>2, <2>3, <2>4
<1>9. CASE RestartCurrent
  <2>1. SlotTypes' /\ OutcomeTypes'
    BY <1>9, CurrentType DEF RestartCurrent, PnpTypes
  <2>2. PnpTypes'
    BY <1>9, Directions DEF RestartCurrent, PnpNextDirection, PnpTypes
  <2>3. QueueTypes' /\ PassTypes' /\ GateTypes' /\ ClockTypes' /\ CallTypes' /\ CancelTypes'
    BY <1>9 DEF RestartCurrent, QueueTypes, PassTypes, GateTypes, ClockTypes, CallTypes, CancelTypes
  <2>4. DpcTypes' /\ DeviceTypes' /\ FaultTypes'
    BY <1>9 DEF RestartCurrent, DpcTypes, DeviceTypes, FaultTypes
  <2> QED BY <2>1, <2>2, <2>3, <2>4
<1>10. CASE AbortRequests
  <2>1. GateTypes' /\ PnpTypes'
    BY <1>10 DEF AbortRequests, GateTypes, PnpTypes
  <2>2. SlotTypes' /\ QueueTypes' /\ PassTypes' /\ ClockTypes' /\ CallTypes' /\ CancelTypes'
    BY <1>10 DEF AbortRequests, SlotTypes, QueueTypes, PassTypes, ClockTypes, CallTypes, CancelTypes
  <2>3. OutcomeTypes' /\ DpcTypes' /\ DeviceTypes' /\ FaultTypes'
    BY <1>10 DEF AbortRequests, OutcomeTypes, DpcTypes, DeviceTypes, FaultTypes
  <2> QED BY <2>1, <2>2, <2>3
<1>11. CASE CleanupRequests
  <2>1. QueueTypes'
    BY <1>11 DEF CleanupRequests, NothingToCleanUp, QueueTypes
  <2>2. CancelTypes'
    BY <1>11 DEF CleanupRequests, CancelTypes
  <2>3. OutcomeTypes'
    <3>1. NotCancelling(Queue[pnpDir]) = {}
      BY <1>11 DEF CleanupRequests, NothingToCleanUp
    <3> QED BY <3>1, <1>11 DEF CleanupRequests, OutcomeTypes, Statuses
  <2>4. PnpTypes'
    BY <1>11, Directions DEF CleanupRequests, PnpNextDirection, PnpTypes
  <2>5. SlotTypes' /\ PassTypes' /\ GateTypes' /\ ClockTypes' /\ CallTypes' /\ DpcTypes'
    BY <1>11 DEF CleanupRequests, SlotTypes, PassTypes, GateTypes, ClockTypes, CallTypes, DpcTypes
  <2>6. DeviceTypes' /\ FaultTypes'
    BY <1>11 DEF CleanupRequests, DeviceTypes, FaultTypes
  <2> QED BY <2>1, <2>2, <2>3, <2>4, <2>5, <2>6
<1> QED BY <1>1, <1>2, <1>3, <1>4, <1>5, <1>6, <1>7, <1>8, <1>9, <1>10, <1>11 DEF PnpWork

(* ... and the control calls and the device.                               *)
LEMMA RunTypesStep ==
  ASSUME Typed, Reset \/ StartDMA \/ \E d \in Dirs : DeviceDone(d)
  PROVE  Typed'
<1> USE DEF Typed
<1>1. CASE Reset
  <2>1. PassTypes' /\ DeviceTypes'
    BY <1>1 DEF Reset, PassTypes, DeviceTypes
  <2>2. SlotTypes' /\ QueueTypes' /\ GateTypes' /\ ClockTypes' /\ CallTypes' /\ CancelTypes'
    BY <1>1 DEF Reset, SlotTypes, QueueTypes, GateTypes, ClockTypes, CallTypes, CancelTypes
  <2>3. OutcomeTypes' /\ DpcTypes' /\ PnpTypes' /\ FaultTypes'
    BY <1>1 DEF Reset, OutcomeTypes, DpcTypes, PnpTypes, FaultTypes
  <2> QED BY <2>1, <2>2, <2>3
<1>2. CASE StartDMA
  <2>1. DeviceTypes' /\ SlotTypes'
    BY <1>2 DEF StartDMA, DeviceTypes, SlotTypes
  <2>2. QueueTypes' /\ PassTypes' /\ GateTypes' /\ ClockTypes' /\ CallTypes' /\ CancelTypes'
    BY <1>2 DEF StartDMA, QueueTypes, PassTypes, GateTypes, ClockTypes, CallTypes, CancelTypes
  <2>3. OutcomeTypes' /\ DpcTypes' /\ PnpTypes' /\ FaultTypes'
    BY <1>2 DEF StartDMA, OutcomeTypes, DpcTypes, PnpTypes, FaultTypes
  <2> QED BY <2>1, <2>2, <2>3
<1>3. CASE \E d \in Dirs : DeviceDone(d)
  <2>1. DeviceTypes'
    <3>1. \A p \in Passes : PassData(p) \subseteq Passes
      BY DEF PassData, DataOf, Passes
    <3>2. \A d \in Dirs : target[d] \in Passes \cup {NONE}
      BY DEF SlotTypes
    <3> QED BY <1>3, <3>1, <3>2 DEF DeviceDone, DeviceTypes
  <2>2. SlotTypes' /\ QueueTypes' /\ PassTypes' /\ GateTypes' /\ ClockTypes' /\ CallTypes'
    BY <1>3 DEF DeviceDone, SlotTypes, QueueTypes, PassTypes, GateTypes, ClockTypes, CallTypes
  <2>3. CancelTypes' /\ OutcomeTypes' /\ DpcTypes' /\ PnpTypes' /\ FaultTypes'
    BY <1>3 DEF DeviceDone, CancelTypes, OutcomeTypes, DpcTypes, PnpTypes, FaultTypes
  <2> QED BY <2>1, <2>2, <2>3
<1> QED BY <1>1, <1>2, <1>3

(* Only the Plug and Play thread moves itself and its gates.               *)
LEMMA OthersKeepPnp ==
  ASSUME \/ \E i \in Irps : \/ DispatchAccept(i) \/ DispatchReject(i) \/ Dispatch(i)
                            \/ CancelIrp(i) \/ CancelRequest(i)
         \/ BDMA_Isr \/ CheckTimer \/ DpcForIsr
         \/ Reset \/ StartDMA \/ \E d \in Dirs : DeviceDone(d)
  PROVE  UNCHANGED <<stallcount, abortstatus, pnpVars>>
<1>1. CASE \E i \in Irps : DispatchAccept(i) \/ DispatchReject(i) \/ Dispatch(i)
  BY <1>1 DEF Dispatch, DispatchAccept, DispatchReject, DispatchLock, DispatchDrop, DispatchQueue,
     DispatchStart, DispatchLength, DispatchCurrent, DispatchRelease, DispatchMarkPending
<1>2. CASE \E i \in Irps : CancelIrp(i) \/ CancelRequest(i)
  BY <1>2 DEF CancelIrp, CancelRequest
<1>3. CASE BDMA_Isr \/ CheckTimer
  BY <1>3 DEF BDMA_Isr, CheckTimer
<1>4. CASE DpcForIsr
  BY <1>4 DEF DpcForIsr, DpcBegin, DpcSkip, DpcComplete, SignalStop, DpcWithoutIrp, DpcMore,
     DpcReset, DpcForget, DpcLookAtQueue, DpcDequeue, DpcStart, DpcLength, DpcCurrent
<1>5. CASE Reset \/ StartDMA \/ \E d \in Dirs : DeviceDone(d)
  BY <1>5 DEF Reset, StartDMA, DeviceDone
<1> QED BY <1>1, <1>2, <1>3, <1>4, <1>5

(* The rest keep what holds of the Plug and Play thread ...                *)
LEMMA PlugStays ==
  ASSUME Plug, UNCHANGED <<stallcount, abortstatus, pnpVars>> PROVE Plug'
BY DEF Plug, Stalled, Before

(* ... and so does the thread itself.                                      *)
LEMMA PlugPnp ==
  ASSUME GateTypes, PnpTypes, Plug, StallRequests \/ AbortRequests \/ PnpWork
  PROVE  Plug'
<1> USE DEF Plug, Stalled, Before
<1>d. /\ PnpFirst \in Dirs /\ PnpLast \in Dirs /\ pnpDir \in Dirs
      /\ \A d \in Dirs : d = PnpFirst \/ d = PnpLast
      /\ \A d \in Dirs : stallcount[d] \in 0..2
  BY Directions DEF PnpTypes, GateTypes
<1>n. PnpFirst = PnpLast => \A d \in Dirs : d = pnpDir
  BY <1>d
<1>1. CASE StallRequests
  BY <1>1, <1>d DEF StallRequests, PnpNextDirection, GateTypes
<1>2. CASE WaitClearEvent
  BY <1>2, <1>d DEF WaitClearEvent
<1>3. CASE WaitCheck
  BY <1>3, <1>d DEF WaitCheck, PnpNextDirection
<1>4. CASE WaitEvent
  BY <1>4, <1>d DEF WaitEvent, PnpNextDirection
<1>5. CASE Resume
  BY <1>5, <1>d DEF Resume
<1>6. CASE RestartRequests
  BY <1>6, <1>d DEF RestartRequests, PnpNextDirection, GateTypes
<1>7. CASE RestartStart
  BY <1>7, <1>d DEF RestartStart
<1>8. CASE RestartLength
  BY <1>8, <1>d DEF RestartLength
<1>9. CASE RestartCurrent
  BY <1>9, <1>d DEF RestartCurrent, PnpNextDirection
<1>10. CASE AbortRequests
  BY <1>10, <1>d DEF AbortRequests, GateTypes
<1>11. CASE CleanupRequests
  BY <1>11, <1>d DEF CleanupRequests, PnpNextDirection
<1> QED BY <1>1, <1>2, <1>3, <1>4, <1>5, <1>6, <1>7, <1>8, <1>9, <1>10, <1>11 DEF PnpWork

(* Every step keeps it.                                                    *)
LEMMA PlugStep ==
  ASSUME GateTypes, PnpTypes, Plug, [Next]_vars PROVE Plug'
<1>1. CASE UNCHANGED vars
  BY <1>1, PlugStays DEF vars
<1>2. CASE Next
  BY <1>2, PlugStays, PlugPnp, OthersKeepPnp DEF Next
<1> QED BY <1>1, <1>2

(* Every step keeps the types, if a removal completes nothing.             *)
LEMMA TypeStep ==
  ASSUME Typed, Plug, NothingToCleanUp, [Next]_vars PROVE Typed'
<1>1. CASE UNCHANGED vars
  <2>1. SlotTypes' /\ QueueTypes' /\ PassTypes' /\ GateTypes' /\ ClockTypes' /\ CallTypes'
    BY <1>1 DEF vars, Typed, SlotTypes, QueueTypes, PassTypes, GateTypes, ClockTypes, CallTypes
  <2>2. CancelTypes' /\ OutcomeTypes' /\ DpcTypes' /\ PnpTypes' /\ DeviceTypes' /\ FaultTypes'
    BY <1>1 DEF vars, Typed, CancelTypes, OutcomeTypes, DpcTypes, PnpTypes, DeviceTypes, FaultTypes
  <2> QED BY <2>1, <2>2 DEF Typed
<1>2. CASE Next
  BY <1>2, DispatchTypes, CancelTypesStep, ClockTypesStep, DpcTypesStep, PnpTypesStep, RunTypesStep
     DEF Next
<1> QED BY <1>1, <1>2

(* The initial state has its types.                                        *)
LEMMA TypeInit == Init => Typed /\ Plug
<1> SUFFICES ASSUME Init PROVE Typed /\ Plug
  OBVIOUS
<1>0. SlotTypes /\ PassTypes /\ GateTypes /\ CallTypes
  BY DEF Init, SlotTypes, PassTypes, GateTypes, CallTypes
<1>1. QueueTypes /\ ClockTypes
  <2>1. <<>> \in Seq(Irps) /\ -1 \in -1..1
    OBVIOUS
  <2> QED BY <2>1 DEF Init, QueueTypes, ClockTypes
<1>2. CancelTypes /\ OutcomeTypes /\ DpcTypes /\ PnpTypes /\ DeviceTypes /\ FaultTypes
  BY Directions DEF Init, CancelTypes, OutcomeTypes, DpcTypes, PnpTypes, DeviceTypes, FaultTypes, Statuses
<1>3. Plug
  BY Directions DEF Init, Plug, Stalled, Before
<1> QED BY <1>0, <1>1, <1>2, <1>3 DEF Typed
-----------------------------------------------------------------------------
(***************************************************************************)
(* The queue lock, for any number of threads.                              *)
(***************************************************************************)
(* From the lock to its release, and nobody comes here with his request    *)
(* cancelled: no path releases a lock that it does not hold.               *)
Critical == {"held", "length", "current", "release", "unlock"}
LockHeld ==
  /\ \A i \in Irps : pc[i] \in Critical => QueueLock[DirOf[i]]
  /\ \A i, j \in Irps :
       DirOf[i] = DirOf[j] /\ pc[i] \in Critical /\ pc[j] \in Critical => i = j
  /\ \A i \in Irps : Cancel[i] => pc[i] = "returned"

SingleRelease == "remove" \notin Env /\ ~({"cancel", "threads"} \subseteq Env)

(* Every step keeps the lock held from its taking to its release.          *)
LEMMA LockStep ==
  ASSUME SingleRelease, Typed, Plug, LockHeld, [Next]_vars PROVE LockHeld'
<1> USE DEF LockHeld, Critical
<1>t. pc \in [Irps -> {"none", "lock", "held", "length", "current", "release", "unlock",
                       "touch", "returned"}]
      /\ QueueLock \in [Dirs -> BOOLEAN] /\ Cancel \in [Irps -> BOOLEAN]
      /\ DirOf \in [Irps -> Dirs]
  BY DirAssumption DEF Typed, CallTypes, QueueTypes, CancelTypes
<1>1. ASSUME NEW i \in Irps, DispatchAccept(i) \/ DispatchReject(i) \/ Dispatch(i)
      PROVE  LockHeld'
  <2>1. CASE DispatchAccept(i)
    BY <1>t, <2>1 DEF DispatchAccept
  <2>2. CASE DispatchReject(i)
    BY <1>t, <2>2 DEF DispatchReject
  <2>3. CASE DispatchLock(i)
    BY <1>t, <2>3 DEF DispatchLock
  <2>4. ~DispatchDrop(i)
    <3>1. ~abortstatus[DirOf[i]] /\ (Cancel[i] => pc[i] = "returned")
      BY <1>t DEF Plug, SingleRelease
    <3> QED BY <3>1 DEF DispatchDrop
  <2>5. CASE DispatchQueue(i)
    BY <1>t, <2>5 DEF DispatchQueue
  <2>6. CASE DispatchStart(i)
    BY <1>t, <2>6 DEF DispatchStart
  <2>7. CASE DispatchLength(i)
    BY <1>t, <2>7 DEF DispatchLength
  <2>8. CASE DispatchCurrent(i)
    BY <1>t, <2>8 DEF DispatchCurrent
  <2>9. CASE DispatchRelease(i)
    BY <1>t, <2>9 DEF DispatchRelease, AfterRelease
  <2>10. CASE DispatchMarkPending(i)
    BY <1>t, <2>10 DEF DispatchMarkPending
  <2> QED BY <1>1, <2>1, <2>2, <2>3, <2>4, <2>5, <2>6, <2>7, <2>8, <2>9, <2>10 DEF Dispatch
<1>2. ASSUME NEW i \in Irps, CancelIrp(i) PROVE LockHeld'
  <2>1. pc[i] = "returned"
    BY <1>2 DEF CancelIrp, SingleRelease
  <2> QED BY <1>t, <1>2, <2>1 DEF CancelIrp
<1>3. ASSUME NEW i \in Irps, CancelRequest(i) PROVE LockHeld'
  BY <1>3 DEF CancelRequest
<1>4. CASE BDMA_Isr \/ CheckTimer \/ Reset \/ StartDMA \/ \E d \in Dirs : DeviceDone(d)
  BY <1>4 DEF BDMA_Isr, CheckTimer, Reset, StartDMA, DeviceDone
<1>5. CASE DpcForIsr
  <2>1. UNCHANGED <<pc, QueueLock, Cancel>>
    BY <1>5 DEF DpcForIsr, DpcBegin, DpcSkip, DpcComplete, DpcWithoutIrp, DpcMore,
       DpcReset, DpcForget, DpcLookAtQueue, DpcDequeue, DpcStart, DpcLength, DpcCurrent
  <2> QED BY <2>1
<1>6. CASE StallRequests \/ AbortRequests \/ PnpWork
  <2>1. UNCHANGED <<pc, QueueLock, Cancel>>
    BY <1>6 DEF PnpWork, StallRequests, AbortRequests, WaitClearEvent, WaitCheck, WaitEvent,
       Resume, RestartRequests, RestartStart, RestartLength, RestartCurrent, CleanupRequests
  <2> QED BY <2>1
<1>7. CASE UNCHANGED vars
  BY <1>7 DEF vars
<1> QED BY <1>1, <1>2, <1>3, <1>4, <1>5, <1>6, <1>7 DEF Next

(* On every path through Dispatch, a failed mapping included, the lock of  *)
(* a queue excludes, for any number of threads and requests.  It would not *)
(* if a request could be dropped: the dropping branches release twice.     *)
THEOREM LockExcludesAll ==
  ASSUME SingleRelease PROVE Spec => []LockInv
<1> DEFINE Held == Typed /\ Plug /\ LockHeld
<1>1. Init => Held
  BY TypeInit DEF Init, LockHeld, Critical
<1>2. Held /\ [Next]_vars => Held'
  <2>1. Plug => NothingToCleanUp
    BY DEF Plug, NothingToCleanUp, SingleRelease
  <2>2. Typed => GateTypes /\ PnpTypes
    BY DEF Typed
  <2> QED BY <2>1, <2>2, TypeStep, PlugStep, LockStep
<1>3. Held => LockInv
  BY TypeParts DEF LockInv, LockExcludes, LockHeld, Critical
<1> QED BY <1>1, <1>2, <1>3, PTL DEF Spec
-----------------------------------------------------------------------------
(***************************************************************************)
(* An application with one thread makes a request, starts the device, and  *)
(* resets it when the request is completed.  Cancellation, a stop and a    *)
(* start, a surprise removal, timeouts and foreign interrupts come at any  *)
(* time, but no timer tick while a request is being started (anytick).     *)
(***************************************************************************)
OneThread == Env \subseteq {"cancel", "remove", "shared", "stop", "timeout"}

Live(i) == pc[i] # "none" /\ ~Finished(i)
InDispatch(i) == pc[i] \notin {"none", "returned"}
Locked(i) == pc[i] \in {"held", "length", "current", "release"}
Accepted(i) == pc[i] \in {"release", "touch", "returned"}
Started == \E d \in Dirs : start[d]
HasDone == iotimeout \/ \E d \in Dirs : done[d]

(* One request at a time, and nothing else moves while it is dispatched.   *)
OneRequest ==
  /\ \A i, j \in Irps : Live(i) /\ Live(j) => i = j
  /\ \A i, j \in Irps : InDispatch(i) /\ (InDispatch(j) \/ Live(j)) => i = j
  /\ \A i \in Irps : InDispatch(i) =>
       ~Started /\ DpcIdle /\ (Finished(i) <=> pc[i] = "unlock")
  /\ \A i \in Irps : Locked(i) => QueueLock[DirOf[i]]
  /\ \A i \in Irps : Live(i) => Operation = {DirOf[i]}
  /\ \A i \in Irps : completions[i] \in {0, 1} /\ (pc[i] = "none" => ~Finished(i))
  /\ \A i \in Irps : ~Finished(i) => Status[i] = "PENDING"

(* Where a request is that is accepted and not completed.                  *)
Owners ==
  /\ \A d \in Dirs : Irp[d] # NONE =>
       /\ DirOf[Irp[d]] = d /\ Live(Irp[d]) /\ Accepted(Irp[d])
       /\ Irp[d] \notin cancelling /\ ~CancelRoutine[Irp[d]] /\ Queue[d] = <<>>
  /\ \A d \in Dirs : Queue[d] # <<>> =>
       \E i \in Irps :
         /\ Queue[d] = <<i>> /\ DirOf[i] = d /\ Live(i) /\ Accepted(i)
         /\ stallcount[d] > 0 /\ (CancelRoutine[i] <=> i \notin cancelling)
  /\ \A i \in Irps : CancelRoutine[i] => Queue[DirOf[i]] = <<i>>
  /\ \A i \in Irps : Cancel[i] => pc[i] = "returned"
  /\ \A i \in cancelling : Live(i) /\ pc[i] = "returned"
  /\ \A i \in Irps : Accepted(i) /\ ~Finished(i) =>
       Irp[DirOf[i]] = i \/ Queue[DirOf[i]] = <<i>> \/ i \in cancelling

(* The buffer that is mapped is the current request's, and so is the one   *)
(* the device was started with; a pass that has a length has a request.    *)
Mapped ==
  /\ \A d \in Dirs : SGL[d] # NONE => Irp[d] # NONE /\ SGL[d][1] = Irp[d] /\ addr[d] = SGL[d]
  /\ \A d \in Dirs : done[d] => start[d]
  /\ \A d \in Dirs : start[d] => Operation = {d}
  /\ \A d \in Dirs : start[d] /\ ~done[d] =>
       target[d] # NONE
       /\ ("timeout" \notin Env => SGL[d] = target[d] /\ Irp[d] = target[d][1])
  /\ \A i \in Irps : Live(i) /\ Started =>
       /\ Irp[DirOf[i]] = i /\ pnpIrp = NONE /\ pc[i] = "returned"
       /\ target[DirOf[i]] # NONE /\ target[DirOf[i]][1] = i
  /\ \A d \in Dirs : Length[d] > 0 =>
       /\ Operation = {d}
       /\ \/ Irp[d] # NONE
          \/ \E i \in Irps : DirOf[i] = d /\ pc[i] = "current"
          \/ dpc = "reset" /\ dpcDir = d

(* The DPC runs for a current request whose device or time has finished.   *)
Deferred ==
  /\ ~DpcIdle => \A i \in Irps : Live(i) => Irp[DirOf[i]] = i
  /\ busy \/ dpcQueued =>
       \E i \in Irps : Live(i) /\ (pc[i] \in {"length", "current"} \/ Irp[DirOf[i]] = i)
  /\ dpcQueued => ~busy /\ HasDone
  /\ \A d \in {dpcDir, PnpFirst} :
       dpc = "test" /\ Length[d] > 0 => ~busy /\ ~dpcQueued /\ HasDone
  /\ dpc = "timer" => ~busy /\ ~dpcQueued
  /\ dpc # "dequeue" /\ ("timeout" \notin Env => iotimeout = FALSE)
  /\ dpc \in {"timer", "length", "current"} => Irp[dpcDir] # NONE /\ SGL[dpcDir] = NONE
  /\ dpc \in {"length", "current"} => dpcIrp = Irp[dpcDir]
  /\ dpc \in {"reset", "forget", "queue"} => \A i \in Irps : ~Live(i)

(* A restart has taken a request whose buffer is not mapped yet.           *)
Taken ==
  /\ pnpIrp # NONE => Irp[pnpDir] = pnpIrp /\ SGL[pnpDir] = NONE /\ DpcIdle
  /\ pnp = "timer" => ~busy
  /\ pnpDev = "FDO"

(* A stalled direction that is quiet stays so.                             *)
Quiet(d) ==
  /\ Irp[d] = NONE /\ SGL[d] = NONE
  /\ \A i \in Irps : DirOf[i] = d => pc[i] \notin {"length", "current"}
Waiting ==
  /\ pnp \in {"clear", "check", "wait"} => \A d \in Dirs : Before(d) => Quiet(d)
  /\ pnp \in {"check", "wait"} /\ evStop[pnpDir] => Quiet(pnpDir)
  /\ pnp = "stopped" => \A d \in Dirs : Quiet(d)

OneThreadInv ==
  /\ OneRequest /\ Owners /\ Mapped /\ Deferred /\ Taken /\ Waiting
  /\ touched = {} /\ ~bugcheck

(* What the steps below need of the types.                                 *)
Shapes ==
  /\ Irp \in [Dirs -> Irps \cup {NONE}] /\ SGL \in [Dirs -> Passes \cup {NONE}]
  /\ addr \in [Dirs -> Passes \cup {NONE}] /\ target \in [Dirs -> Passes \cup {NONE}]
  /\ Queue \in [Dirs -> Seq(Irps)] /\ QueueLock \in [Dirs -> BOOLEAN]
  /\ Length \in [Dirs -> Nat]
  /\ stallcount \in [Dirs -> 0..2] /\ evStop \in [Dirs -> BOOLEAN]
  /\ abortstatus \in [Dirs -> BOOLEAN]
  /\ CallTypes /\ CancelTypes /\ OutcomeTypes /\ DpcTypes /\ PnpTypes
  /\ start \in [Dirs -> BOOLEAN] /\ done \in [Dirs -> BOOLEAN] /\ moved \subseteq Passes
  /\ busy \in BOOLEAN /\ iotimeout \in BOOLEAN /\ Operation \subseteq Dirs
  /\ DirOf \in [Irps -> Dirs] /\ NONE \notin Irps
  /\ PnpFirst \in Dirs /\ PnpLast \in Dirs /\ \A d \in Dirs : d = PnpFirst \/ d = PnpLast

(* The members of the environment that an application of one thread lacks. *)
LEMMA OneThreadLacks ==
  ASSUME OneThread
  PROVE  /\ "threads" \notin Env /\ "hurry" \notin Env /\ "reset" \notin Env
         /\ "anytick" \notin Env /\ "unstop" \notin Env /\ "sgfail" \notin Env
         /\ "blind" \notin Env /\ "duplex" \notin Env
BY DEF OneThread

Vacant(d) == Irp[d] = NONE /\ Queue[d] = <<>> /\ SGL[d] = NONE

(* Without a request that is alive there is nothing anywhere ...           *)
LEMMA NobodyLive ==
  ASSUME Shapes, OneThreadInv, \A i \in Irps : ~Live(i)
  PROVE  /\ \A d \in Dirs : Vacant(d) /\ (Length[d] > 0 => dpc = "reset" /\ dpcDir = d)
         /\ cancelling = {} /\ \A i \in Irps : ~CancelRoutine[i]
         /\ ~busy /\ ~dpcQueued
<1>1. \A d \in Dirs : Irp[d] = NONE
  BY DEF OneThreadInv, Owners, Shapes
<1>2. \A d \in Dirs : Queue[d] = <<>>
  BY DEF OneThreadInv, Owners
<1>3. \A d \in Dirs : SGL[d] = NONE
  BY <1>1 DEF OneThreadInv, Mapped
<1>4. cancelling = {}
  BY DEF OneThreadInv, Owners, Shapes, CancelTypes
<1>5. \A i \in Irps : ~CancelRoutine[i]
  <2> SUFFICES ASSUME NEW i \in Irps, CancelRoutine[i] PROVE FALSE
    OBVIOUS
  <2>1. Queue[DirOf[i]] = <<i>> /\ DirOf[i] \in Dirs
    BY DEF OneThreadInv, Owners, Shapes
  <2> QED BY <1>2, <2>1, OneQueued
<1>6. ~busy /\ ~dpcQueued
  BY DEF OneThreadInv, Deferred
<1>7. ASSUME NEW d \in Dirs, Length[d] > 0 PROVE dpc = "reset" /\ dpcDir = d
  <2>1. \A i \in Irps : pc[i] # "current"
    BY DEF OneThreadInv, OneRequest, InDispatch, Live
  <2> QED BY <1>1, <1>7, <2>1 DEF OneThreadInv, Mapped
<1> QED BY <1>1, <1>2, <1>3, <1>4, <1>5, <1>6, <1>7 DEF Vacant

(* ... and with one there is nothing but this request.                     *)
LEMMA OnlyLive ==
  ASSUME Shapes, OneThreadInv, NEW i \in Irps, Live(i)
  PROVE  /\ \A j \in Irps : Live(j) <=> j = i
         /\ Operation = {DirOf[i]}
         /\ \A d \in Dirs : d # DirOf[i] => Vacant(d) /\ Length[d] = 0 /\ ~start[d] /\ ~done[d]
         /\ Irp[DirOf[i]] \in {i, NONE} /\ Queue[DirOf[i]] \in {<<i>>, <<>>}
         /\ (SGL[DirOf[i]] # NONE => SGL[DirOf[i]][1] = i)
         /\ cancelling \subseteq {i} /\ \A j \in Irps : CancelRoutine[j] => j = i
<1>1. (\A j \in Irps : Live(j) <=> j = i) /\ Operation = {DirOf[i]}
  BY DEF OneThreadInv, OneRequest
<1>2. \A d \in Dirs : Irp[d] # NONE => Irp[d] = i /\ d = DirOf[i]
  BY <1>1 DEF OneThreadInv, Owners, Shapes
<1>3. \A d \in Dirs : Queue[d] # <<>> => Queue[d] = <<i>> /\ d = DirOf[i]
  BY <1>1 DEF OneThreadInv, Owners
<1>4. \A d \in Dirs : SGL[d] # NONE => SGL[d][1] = i /\ d = DirOf[i]
  BY <1>2 DEF OneThreadInv, Mapped
<1>5. cancelling \subseteq {i}
  BY <1>1 DEF OneThreadInv, Owners, Shapes, CancelTypes
<1>6. \A j \in Irps : CancelRoutine[j] => j = i
  <2> SUFFICES ASSUME NEW j \in Irps, CancelRoutine[j] PROVE j = i
    OBVIOUS
  <2>1. Queue[DirOf[j]] = <<j>> /\ DirOf[j] \in Dirs
    BY DEF OneThreadInv, Owners, Shapes
  <2>2. <<j>> = <<i>>
    BY <1>3, <2>1, OneQueued
  <2> QED BY <2>2
<1>7. \A d \in Dirs : d # DirOf[i] => Length[d] = 0 /\ ~start[d] /\ ~done[d]
  <2> SUFFICES ASSUME NEW d \in Dirs, d # DirOf[i] PROVE Length[d] = 0 /\ ~start[d] /\ ~done[d]
    OBVIOUS
  <2>1. Operation # {d}
    BY <1>1
  <2>2. ~(Length[d] > 0) /\ ~start[d] /\ ~done[d]
    BY <2>1 DEF OneThreadInv, Mapped
  <2> QED BY <2>2 DEF Shapes
<1>8. DirOf[i] \in Dirs
  BY DEF Shapes
<1> QED BY <1>1, <1>2, <1>3, <1>4, <1>5, <1>6, <1>7, <1>8 DEF Vacant

(* The one thread calls when the driver has nothing to do.                 *)
LEMMA MayCallAlone ==
  ASSUME OneThread, Shapes, OneThreadInv, NEW i \in Irps, pc[i] = "none", MayCall(i)
  PROVE  /\ \A j \in Irps : j # i => pc[j] = "none" \/ (pc[j] = "returned" /\ Finished(j))
         /\ \A j \in Irps : ~Live(j) /\ ~InDispatch(j)
         /\ \A d \in Dirs : ~start[d]
         /\ DpcIdle /\ Operation = {} /\ ~Finished(i)
<1>1. AppIdle /\ Operation = {} /\ DpcIdle /\ \A d \in Dirs : ~start[d]
  BY OneThreadLacks DEF MayCall
<1>2. \A j \in Irps \ {i} : pc[j] # "none" => Finished(j)
  BY <1>1, OneThreadLacks DEF MayCall
<1>3. \A j \in Irps : j # i => pc[j] = "none" \/ (pc[j] = "returned" /\ Finished(j))
  BY <1>1, <1>2 DEF AppIdle
<1> QED BY <1>1, <1>3 DEF Live, InDispatch, OneThreadInv, OneRequest
-----------------------------------------------------------------------------
(***************************************************************************)
(* Every action keeps the invariant.  Each proof has the effect of the     *)
(* action first, then what the state before it was like, and then the      *)
(* parts of the invariant one by one.                                      *)
(***************************************************************************)
LEMMA DispatchAcceptKeeps ==
  ASSUME OneThread, Shapes, Plug, OneThreadInv, NEW i \in Irps, DispatchAccept(i)
  PROVE  OneThreadInv'
<1>m. MayCall(i) /\ pc[i] = "none"
  BY DEF DispatchAccept
<1>c. /\ \A j \in Irps : j # i => pc[j] = "none" \/ (pc[j] = "returned" /\ Finished(j))
      /\ \A d \in Dirs : ~start[d]
      /\ DpcIdle /\ Operation = {} /\ \A j \in Irps : ~InDispatch(j)
  BY <1>m, MayCallAlone
<1>p. \A j \in Irps : pc'[j] = IF j = i THEN "lock" ELSE pc[j]
  BY DEF DispatchAccept, Shapes, CallTypes
<1>o. Operation' = {DirOf[i]}
  BY <1>c DEF DispatchAccept
<1>u. UNCHANGED <<slot, QueueLock, Length, SGL, gate, clock, cancels, outcome,
                 dpcVars, pnpVars, addr, device, faults>>
  BY DEF DispatchAccept
<1>f. \A j \in Irps : Finished(j)' <=> Finished(j)
  BY <1>u DEF Finished
<1>l. \A j \in Irps : ~Live(j) /\ (Live(j)' <=> j = i) /\ ~InDispatch(j) /\ (InDispatch(j)' <=> j = i)
  BY <1>c, <1>p, <1>m, <1>f DEF OneThreadInv, OneRequest, Live, InDispatch
<1>n. /\ \A d \in Dirs : Vacant(d) /\ ~(Length[d] > 0)
      /\ cancelling = {} /\ \A j \in Irps : ~CancelRoutine[j]
      /\ ~busy /\ ~dpcQueued
  BY <1>l, <1>c, NobodyLive DEF DpcIdle
<1>1. OneRequest'
  <2>1. \A j \in Irps : Locked(j)' => QueueLock'[DirOf[j]]
    BY <1>c, <1>p DEF Locked
  <2>2. \A j \in Irps : /\ completions'[j] \in {0, 1} /\ (pc'[j] = "none" => ~Finished(j)')
                        /\ ~Finished(j)' => Status'[j] = "PENDING"
    BY <1>p, <1>u, <1>f, <1>m DEF OneThreadInv, OneRequest
  <2>3. ~Finished(i)' /\ DpcIdle' /\ ~Started'
    BY <1>c, <1>u, <1>f, <1>m DEF OneThreadInv, OneRequest, DpcIdle, Started
  <2> QED BY <1>o, <1>l, <1>p, <2>1, <2>2, <2>3 DEF OneRequest
<1>2. Owners'
  BY <1>n, <1>c, <1>m, <1>p, <1>u, <1>l, <1>f DEF OneThreadInv, Owners, Accepted, Vacant
<1>3. Mapped'
  BY <1>n, <1>c, <1>p, <1>o, <1>u, <1>l DEF OneThreadInv, Mapped, Started, Vacant
<1>4. Deferred'
  BY <1>n, <1>c, <1>u, <1>l DEF OneThreadInv, Deferred, DpcIdle
<1>5. Taken'
  BY <1>u DEF OneThreadInv, Taken, DpcIdle
<1>6. Waiting'
  BY <1>u, <1>p DEF OneThreadInv, Waiting, Quiet, Before
<1> QED BY <1>u, <1>1, <1>2, <1>3, <1>4, <1>5, <1>6 DEF OneThreadInv

Prepared == {"lock", "held", "length", "current"}

(* A request that is not accepted yet is alone.                            *)
LEMMA PreparedAlone ==
  ASSUME Shapes, OneThreadInv, NEW i \in Irps, pc[i] \in Prepared
  PROVE  /\ \A j \in Irps : (Live(j) <=> j = i) /\ (InDispatch(j) <=> j = i)
         /\ Operation = {DirOf[i]} /\ DpcIdle
         /\ \A d \in Dirs : Vacant(d) /\ ~start[d] /\ ~done[d]
         /\ \A d \in Dirs : Length[d] > 0 => d = DirOf[i] /\ pc[i] = "current"
         /\ cancelling = {} /\ \A j \in Irps : ~CancelRoutine[j]
         /\ ~Cancel[i] /\ pnpIrp = NONE
         /\ busy => pc[i] \in {"length", "current"}
<1>1. /\ \A j \in Irps : (Live(j) <=> j = i) /\ (InDispatch(j) <=> j = i)
      /\ Operation = {DirOf[i]} /\ DpcIdle
      /\ \A d \in Dirs : ~start[d]
  BY DEF OneThreadInv, OneRequest, Live, InDispatch, Prepared, Started
<1>2. ~Accepted(i)
  BY DEF Accepted, Prepared
<1>3. \A d \in Dirs : Irp[d] = NONE
  BY <1>1, <1>2 DEF OneThreadInv, Owners, Shapes
<1>4. \A d \in Dirs : Queue[d] = <<>>
  BY <1>1, <1>2 DEF OneThreadInv, Owners
<1>5. \A d \in Dirs : SGL[d] = NONE
  BY <1>3 DEF OneThreadInv, Mapped
<1>6. cancelling = {} /\ ~Cancel[i]
  BY <1>1 DEF OneThreadInv, Owners, Shapes, CancelTypes, Prepared
<1>7. \A j \in Irps : ~CancelRoutine[j]
  <2> SUFFICES ASSUME NEW j \in Irps, CancelRoutine[j] PROVE FALSE
    OBVIOUS
  <2>1. Queue[DirOf[j]] = <<j>> /\ DirOf[j] \in Dirs
    BY DEF OneThreadInv, Owners, Shapes
  <2> QED BY <1>4, <2>1, OneQueued
<1>8. \A d \in Dirs : ~done[d]
  BY <1>1 DEF OneThreadInv, Mapped
<1>9. pnpIrp = NONE
  BY <1>3 DEF OneThreadInv, Taken, Shapes, PnpTypes
<1>10. busy => pc[i] \in {"length", "current"}
  <2>1. DirOf[i] \in Dirs
    BY DEF Shapes
  <2>2. \A j \in Irps : Irp[DirOf[j]] # j
    BY <1>3 DEF Shapes
  <2> QED BY <1>1, <2>2 DEF OneThreadInv, Deferred
<1>11. \A d \in Dirs : Length[d] > 0 => d = DirOf[i] /\ pc[i] = "current"
  <2> SUFFICES ASSUME NEW d \in Dirs, Length[d] > 0 PROVE d = DirOf[i] /\ pc[i] = "current"
    OBVIOUS
  <2>1. \E j \in Irps : DirOf[j] = d /\ pc[j] = "current"
    BY <1>1, <1>3 DEF OneThreadInv, Mapped, DpcIdle
  <2> QED BY <1>1, <2>1 DEF InDispatch
<1> QED BY <1>1, <1>3, <1>4, <1>5, <1>6, <1>7, <1>8, <1>9, <1>10, <1>11 DEF Vacant

(* What a step of Dispatch before that leaves alone.                       *)
LEMMA StaysPrepared ==
  ASSUME Shapes, OneThreadInv, NEW i \in Irps, pc[i] \in Prepared,
         NEW p \in Prepared \ {"lock"}, pc' = [pc EXCEPT ![i] = p], QueueLock'[DirOf[i]],
         UNCHANGED <<slot, SGL, gate, iotimeout, cancels, outcome, dpcVars, pnpVars, addr,
                     device, Operation, faults>>,
         \A d \in Dirs : Length'[d] > 0 => d = DirOf[i] /\ p = "current",
         busy' => p \in {"length", "current"} /\ pnp # "timer"
  PROVE  OneRequest' /\ Owners' /\ Mapped' /\ Deferred' /\ Taken'
<1>a. /\ \A j \in Irps : (Live(j) <=> j = i) /\ (InDispatch(j) <=> j = i)
      /\ Operation = {DirOf[i]} /\ DpcIdle
      /\ \A d \in Dirs : Vacant(d) /\ ~start[d] /\ ~done[d]
      /\ cancelling = {} /\ \A j \in Irps : ~CancelRoutine[j]
      /\ ~Cancel[i] /\ pnpIrp = NONE
  BY PreparedAlone
<1>p. \A j \in Irps : pc'[j] = IF j = i THEN p ELSE pc[j]
  BY DEF Shapes, CallTypes
<1>f. \A j \in Irps : Finished(j)' <=> Finished(j)
  BY DEF Finished
<1>l. \A j \in Irps : (Live(j)' <=> j = i) /\ (InDispatch(j)' <=> j = i)
  BY <1>a, <1>p, <1>f DEF Prepared, Live, InDispatch
<1>1. OneRequest'
  <2>1. \A j \in Irps : Locked(j)' => QueueLock'[DirOf[j]]
    BY <1>a, <1>p DEF Locked, InDispatch
  <2>2. \A j \in Irps : /\ completions'[j] \in {0, 1} /\ (pc'[j] = "none" => ~Finished(j)')
                        /\ ~Finished(j)' => Status'[j] = "PENDING"
    BY <1>p, <1>f DEF OneThreadInv, OneRequest, Prepared
  <2>3. ~Finished(i)' /\ DpcIdle' /\ ~Started' /\ Operation' = {DirOf[i]}
    BY <1>a, <1>f DEF Live, DpcIdle, Started
  <2> QED BY <1>l, <1>p, <2>1, <2>2, <2>3 DEF OneRequest, Prepared
<1>2. Owners'
  <2>1. \A d \in Dirs : Irp'[d] = NONE /\ Queue'[d] = <<>>
    BY <1>a DEF Vacant
  <2>2. \A j \in Irps : Accepted(j)' => Finished(j)'
    BY <1>a, <1>p, <1>f DEF Accepted, Prepared, Live
  <2>3. \A j \in Irps : Cancel'[j] => pc'[j] = "returned"
    BY <1>a, <1>p DEF OneThreadInv, Owners
  <2> QED BY <1>a, <2>1, <2>2, <2>3 DEF Owners
<1>3. Mapped'
  <2>1. ~Started' /\ \A d \in Dirs : SGL'[d] = NONE /\ ~start'[d] /\ ~done'[d]
    BY <1>a DEF Vacant, Started
  <2>2. \A d \in Dirs : Length'[d] > 0 =>
          Operation' = {d} /\ \E j \in Irps : DirOf[j] = d /\ pc'[j] = "current"
    BY <1>a, <1>p
  <2> QED BY <2>1, <2>2 DEF Mapped
<1>4. Deferred'
  <2>1. DpcIdle' /\ dpc' = "idle" /\ ~dpcQueued'
    BY <1>a DEF DpcIdle
  <2>2. busy' => Live(i)' /\ pc'[i] \in {"length", "current"}
    BY <1>l, <1>p
  <2> QED BY <2>1, <2>2 DEF OneThreadInv, Deferred
<1>5. Taken'
  BY <1>a DEF OneThreadInv, Taken
<1> QED BY <1>1, <1>2, <1>3, <1>4, <1>5

(* Dispatch takes the lock,                                                *)
LEMMA DispatchLockKeeps ==
  ASSUME Shapes, Plug, OneThreadInv, NEW i \in Irps, DispatchLock(i)
  PROVE  OneThreadInv'
<1>1. pc[i] = "lock" /\ pc[i] \in Prepared /\ DirOf[i] \in Dirs
  BY DEF DispatchLock, Prepared, Shapes
<1>2. ~busy /\ \A d \in Dirs : ~(Length[d] > 0)
  BY <1>1, PreparedAlone
<1>3. /\ pc' = [pc EXCEPT ![i] = "held"] /\ QueueLock'[DirOf[i]]
      /\ UNCHANGED <<slot, SGL, gate, iotimeout, cancels, outcome, dpcVars, pnpVars, addr,
                     device, Operation, faults, Length, busy>>
  BY <1>1 DEF DispatchLock, Shapes
<1>4. OneRequest' /\ Owners' /\ Mapped' /\ Deferred' /\ Taken'
  BY <1>1, <1>2, <1>3, StaysPrepared DEF Prepared
<1>5. Waiting'
  BY <1>3 DEF Shapes, CallTypes, OneThreadInv, Waiting, Quiet, Before
<1> QED BY <1>3, <1>4, <1>5 DEF OneThreadInv

(* ... sets the timer,                                                     *)
LEMMA DispatchStartKeeps ==
  ASSUME Shapes, Plug, OneThreadInv, NEW i \in Irps, DispatchStart(i)
  PROVE  OneThreadInv'
<1>1. pc[i] = "held" /\ pc[i] \in Prepared /\ DirOf[i] \in Dirs /\ ~(stallcount[DirOf[i]] > 0)
  BY DEF DispatchStart, Prepared, Shapes, Occupied
<1>2. pnpIrp = NONE /\ \A d \in Dirs : ~(Length[d] > 0)
  BY <1>1, PreparedAlone
<1>3. /\ pc' = [pc EXCEPT ![i] = "length"] /\ QueueLock'[DirOf[i]]
      /\ UNCHANGED <<slot, SGL, gate, iotimeout, cancels, outcome, dpcVars, pnpVars, addr,
                     device, Operation, faults, Length>>
  BY <1>1 DEF DispatchStart, SetIoTimerValue, OneThreadInv, OneRequest, Locked
<1>4. OneRequest' /\ Owners' /\ Mapped' /\ Deferred' /\ Taken'
  <2>1. pnp # "timer"
    BY <1>2 DEF Plug
  <2> QED BY <1>1, <1>2, <1>3, <2>1, StaysPrepared DEF Prepared
<1>5. ~Stalled(DirOf[i])
  BY <1>1 DEF Plug
<1>6. Waiting'
  BY <1>3, <1>5 DEF Stalled, Shapes, CallTypes, OneThreadInv, Waiting, Quiet, Before
<1> QED BY <1>3, <1>4, <1>6 DEF OneThreadInv

(* ... sets the length of the first pass,                                  *)
LEMMA DispatchLengthKeeps ==
  ASSUME Shapes, Plug, OneThreadInv, NEW i \in Irps, DispatchLength(i)
  PROVE  OneThreadInv'
<1>1. pc[i] = "length" /\ pc[i] \in Prepared /\ DirOf[i] \in Dirs
  BY DEF DispatchLength, Prepared, Shapes
<1>2. pnpIrp = NONE /\ \A d \in Dirs : ~(Length[d] > 0)
  BY <1>1, PreparedAlone
<1>3. /\ pc' = [pc EXCEPT ![i] = "current"] /\ QueueLock'[DirOf[i]]
      /\ UNCHANGED <<slot, SGL, gate, iotimeout, cancels, outcome, dpcVars, pnpVars, addr,
                     device, Operation, faults, busy>>
  BY <1>1 DEF DispatchLength, OneThreadInv, OneRequest, Locked
<1>4. \A d \in Dirs : Length'[d] > 0 => d = DirOf[i]
  BY <1>2 DEF DispatchLength, StartLength, Shapes
<1>5. OneRequest' /\ Owners' /\ Mapped' /\ Deferred' /\ Taken'
  <2>1. pnp # "timer"
    BY <1>2 DEF Plug
  <2> QED BY <1>1, <1>3, <1>4, <2>1, StaysPrepared DEF Prepared
<1>6. Waiting'
  BY <1>1, <1>3 DEF Shapes, CallTypes, OneThreadInv, Waiting, Quiet, Before
<1> QED BY <1>3, <1>5, <1>6 DEF OneThreadInv

(* A request of a bad length is completed and leaves all else alone.       *)
LEMMA DispatchRejectKeeps ==
  ASSUME OneThread, Shapes, Plug, OneThreadInv, NEW i \in Irps, DispatchReject(i)
  PROVE  OneThreadInv'
<1>m. MayCall(i) /\ pc[i] = "none"
  BY DEF DispatchReject
<1>c. /\ \A j \in Irps : j # i => pc[j] = "none" \/ (pc[j] = "returned" /\ Finished(j))
      /\ \A j \in Irps : ~Live(j) /\ ~InDispatch(j)
      /\ \A d \in Dirs : ~start[d]
      /\ DpcIdle /\ Operation = {} /\ ~Finished(i)
  BY <1>m, MayCallAlone
<1>p. \A j \in Irps : pc'[j] = IF j = i THEN "returned" ELSE pc[j]
  BY DEF DispatchReject, Shapes, CallTypes
<1>f. /\ completions[i] = 0 /\ \A j \in Irps : completions'[j] = IF j = i THEN 1 ELSE completions[j]
      /\ \A j \in Irps : Finished(j)' <=> (j = i \/ Finished(j))
  <2>1. completions[i] = 0
    BY <1>c DEF OneThreadInv, OneRequest, Finished
  <2>2. \A j \in Irps : completions'[j] = IF j = i THEN completions[j] + 1 ELSE completions[j]
    BY DEF DispatchReject, Complete, Shapes, OutcomeTypes
  <2> QED BY <2>1, <2>2 DEF Finished
<1>s. \A j \in Irps : /\ j # i => Status'[j] = Status[j]
                      /\ Status'[i] = "SUCCESS" => LenOf[i] = 0
  BY DEF DispatchReject, Complete, Shapes, OutcomeTypes
<1>u. UNCHANGED <<slot, QueueLock, Length, SGL, gate, clock, cancels,
                 dpcVars, pnpVars, addr, device, Operation, faults>>
  BY DEF DispatchReject
<1>l. \A j \in Irps : ~Live(j)' /\ ~InDispatch(j)'
  BY <1>c, <1>p, <1>f DEF Live, InDispatch
<1>n. /\ \A d \in Dirs : Vacant(d) /\ ~(Length[d] > 0)
      /\ cancelling = {} /\ \A j \in Irps : ~CancelRoutine[j]
      /\ ~busy /\ ~dpcQueued
  BY <1>c, NobodyLive DEF DpcIdle
<1>1. OneRequest'
  <2>1. \A j \in Irps : ~Locked(j)'
    BY <1>l DEF Locked, InDispatch
  <2>2. \A j \in Irps : /\ completions'[j] \in {0, 1} /\ (pc'[j] = "none" => ~Finished(j)')
                        /\ ~Finished(j)' => Status'[j] = "PENDING"
    BY <1>p, <1>f, <1>s DEF OneThreadInv, OneRequest
  <2> QED BY <1>l, <2>1, <2>2 DEF OneRequest
<1>2. Owners'
  <2>1. \A j \in Irps : Accepted(j)' => Finished(j)'
    BY <1>c, <1>p, <1>f DEF Accepted
  <2>2. \A j \in Irps : Cancel'[j] => pc'[j] = "returned"
    BY <1>m, <1>p, <1>u DEF OneThreadInv, Owners
  <2>3. \A d \in Dirs : Irp'[d] = NONE /\ Queue'[d] = <<>>
    BY <1>n, <1>u DEF Vacant
  <2> QED BY <1>n, <1>u, <2>1, <2>2, <2>3 DEF Owners
<1>3. Mapped'
  <2>1. ~Started' /\ \A d \in Dirs : SGL'[d] = NONE /\ ~start'[d] /\ ~done'[d]
    BY <1>c, <1>n, <1>u DEF Vacant, Started, OneThreadInv, Mapped
  <2>2. \A d \in Dirs : ~(Length'[d] > 0)
    BY <1>n, <1>u
  <2> QED BY <2>1, <2>2 DEF Mapped
<1>4. Deferred'
  BY <1>n, <1>c, <1>u, <1>l DEF OneThreadInv, Deferred, DpcIdle
<1>5. Taken'
  BY <1>u DEF OneThreadInv, Taken, DpcIdle
<1>6. Waiting'
  BY <1>u, <1>p DEF OneThreadInv, Waiting, Quiet, Before
<1> QED BY <1>u, <1>1, <1>2, <1>3, <1>4, <1>5, <1>6 DEF OneThreadInv

(* After a removal Dispatch completes the request instead,                 *)
LEMMA DispatchDropKeeps ==
  ASSUME Shapes, Plug, OneThreadInv, NEW i \in Irps, DispatchDrop(i) PROVE OneThreadInv'
<1>1. pc[i] = "held" /\ pc[i] \in Prepared /\ DirOf[i] \in Dirs
  BY DEF DispatchDrop, Prepared, Shapes
<1>a. /\ \A j \in Irps : (Live(j) <=> j = i) /\ (InDispatch(j) <=> j = i)
      /\ Operation = {DirOf[i]} /\ DpcIdle
      /\ \A d \in Dirs : Vacant(d) /\ ~start[d] /\ ~done[d]
      /\ \A d \in Dirs : ~(Length[d] > 0)
      /\ cancelling = {} /\ \A j \in Irps : ~CancelRoutine[j]
      /\ ~Cancel[i] /\ pnpIrp = NONE /\ ~busy
  BY <1>1, PreparedAlone
<1>u. /\ UNCHANGED <<slot, xfer, SGL, gate, clock, cancels, dpcVars, pnpVars,
                     addr, device, Operation, faults>>
      /\ pc' = [pc EXCEPT ![i] = "unlock"] /\ Complete(i, "DELETE_PENDING")
  BY <1>a DEF DispatchDrop
<1>p. \A j \in Irps : pc'[j] = IF j = i THEN "unlock" ELSE pc[j]
  BY <1>u DEF Shapes, CallTypes
<1>f. /\ \A j \in Irps : completions'[j] = IF j = i THEN 1 ELSE completions[j]
      /\ \A j \in Irps : Finished(j)' <=> (j = i \/ Finished(j))
  <2>1. completions[i] = 0
    BY <1>a DEF OneThreadInv, OneRequest, Live, Finished
  <2>2. \A j \in Irps : completions'[j] = IF j = i THEN completions[j] + 1 ELSE completions[j]
    BY <1>u DEF Complete, Shapes, OutcomeTypes
  <2> QED BY <2>1, <2>2 DEF Finished
<1>s. \A j \in Irps : Status'[j] = IF j = i THEN "DELETE_PENDING" ELSE Status[j]
  BY <1>u DEF Complete, Shapes, OutcomeTypes
<1>l. \A j \in Irps : ~Live(j)' /\ (InDispatch(j)' <=> j = i)
  BY <1>a, <1>p, <1>f DEF Live, InDispatch
<1>2. OneRequest'
  <2>1. \A j \in Irps : ~Locked(j)'
    BY <1>l, <1>p DEF Locked, InDispatch
  <2>2. \A j \in Irps : /\ completions'[j] \in {0, 1} /\ (pc'[j] = "none" => ~Finished(j)')
                        /\ ~Finished(j)' => Status'[j] = "PENDING"
    BY <1>p, <1>f, <1>s DEF OneThreadInv, OneRequest
  <2>3. ~Started' /\ DpcIdle' /\ Finished(i)'
    BY <1>a, <1>u, <1>f DEF Started, DpcIdle
  <2> QED BY <1>l, <1>p, <2>1, <2>2, <2>3 DEF OneRequest
<1>3. Owners'
  <2>1. \A j \in Irps : Accepted(j)' => Finished(j)'
    BY <1>l DEF Live, Accepted
  <2>2. \A j \in Irps : Cancel'[j] => pc'[j] = "returned"
    BY <1>a, <1>p, <1>u DEF OneThreadInv, Owners
  <2>3. \A d \in Dirs : Irp'[d] = NONE /\ Queue'[d] = <<>>
    BY <1>a, <1>u DEF Vacant
  <2> QED BY <1>a, <1>u, <2>1, <2>2, <2>3 DEF Owners
<1>4. Mapped'
  <2>1. ~Started' /\ \A d \in Dirs : SGL'[d] = NONE /\ ~start'[d] /\ ~done'[d] /\ ~(Length'[d] > 0)
    BY <1>a, <1>u DEF Vacant, Started
  <2> QED BY <2>1 DEF Mapped
<1>5. Deferred'
  BY <1>a, <1>u, <1>l DEF OneThreadInv, Deferred, DpcIdle
<1>6. Taken'
  BY <1>u DEF OneThreadInv, Taken, DpcIdle
<1>7. Waiting'
  BY <1>u, <1>p DEF OneThreadInv, Waiting, Quiet, Before
<1> QED BY <1>u, <1>2, <1>3, <1>4, <1>5, <1>6, <1>7 DEF OneThreadInv

(* ... queues it when its direction is stalled,                            *)
LEMMA DispatchQueueKeeps ==
  ASSUME Shapes, Plug, OneThreadInv, NEW i \in Irps, DispatchQueue(i) PROVE OneThreadInv'
<1>1. pc[i] = "held" /\ pc[i] \in Prepared /\ DirOf[i] \in Dirs
  BY DEF DispatchQueue, Prepared, Shapes
<1>a. /\ \A j \in Irps : (Live(j) <=> j = i) /\ (InDispatch(j) <=> j = i)
      /\ Operation = {DirOf[i]} /\ DpcIdle
      /\ \A d \in Dirs : Vacant(d) /\ ~start[d] /\ ~done[d]
      /\ \A d \in Dirs : ~(Length[d] > 0)
      /\ cancelling = {} /\ \A j \in Irps : ~CancelRoutine[j]
      /\ ~Cancel[i] /\ pnpIrp = NONE /\ ~busy
  BY <1>1, PreparedAlone
<1>u. /\ UNCHANGED <<Irp, QueueLock, xfer, SGL, gate, clock, Cancel, cancelling, outcome,
                     dpcVars, pnpVars, addr, device, Operation, faults>>
      /\ pc' = [pc EXCEPT ![i] = "release"] /\ CancelRoutine' = [CancelRoutine EXCEPT ![i] = TRUE]
      /\ Queue' = [Queue EXCEPT ![DirOf[i]] = Append(Queue[DirOf[i]], i)]
      /\ stallcount[DirOf[i]] > 0
  BY <1>1, <1>a DEF DispatchQueue, Occupied, Vacant
<1>q. \A d \in Dirs : Queue'[d] = IF d = DirOf[i] THEN <<i>> ELSE <<>>
  BY <1>1, <1>a, <1>u, OneQueued DEF Vacant, Shapes
<1>c. \A j \in Irps : CancelRoutine'[j] <=> j = i
  BY <1>a, <1>u DEF Shapes, CancelTypes
<1>p. \A j \in Irps : pc'[j] = IF j = i THEN "release" ELSE pc[j]
  BY <1>u DEF Shapes, CallTypes
<1>f. \A j \in Irps : Finished(j)' <=> Finished(j)
  BY <1>u DEF Finished
<1>l. \A j \in Irps : (Live(j)' <=> j = i) /\ (InDispatch(j)' <=> j = i)
  BY <1>a, <1>p, <1>f, <1>1 DEF Live, InDispatch
<1>2. OneRequest'
  <2>1. \A j \in Irps : Locked(j)' => QueueLock'[DirOf[j]]
    BY <1>1, <1>l, <1>p, <1>u DEF OneThreadInv, OneRequest, Locked, InDispatch
  <2>2. \A j \in Irps : /\ completions'[j] \in {0, 1} /\ (pc'[j] = "none" => ~Finished(j)')
                        /\ ~Finished(j)' => Status'[j] = "PENDING"
    BY <1>p, <1>f, <1>u DEF OneThreadInv, OneRequest
  <2>3. ~Started' /\ DpcIdle' /\ ~Finished(i)' /\ Operation' = {DirOf[i]}
    BY <1>a, <1>u, <1>f DEF Started, DpcIdle, Live
  <2> QED BY <1>l, <1>p, <2>1, <2>2, <2>3 DEF OneRequest
<1>3. Owners'
  <2>1. \A j \in Irps : Accepted(j)' /\ ~Finished(j)' => j = i
    BY <1>l, <1>p DEF Live, Accepted
  <2>2. \A j \in Irps : Cancel'[j] => pc'[j] = "returned"
    BY <1>a, <1>p, <1>u DEF OneThreadInv, Owners
  <2>3. \A d \in Dirs : Irp'[d] = NONE
    BY <1>a, <1>u DEF Vacant
  <2>4. Accepted(i)'
    BY <1>p DEF Accepted
  <2>5. \A d \in Dirs : Queue'[d] # <<>> => d = DirOf[i] /\ Queue'[d] = <<i>>
    BY <1>q
  <2>6. Live(i)' /\ Queue'[DirOf[i]] = <<i>> /\ stallcount'[DirOf[i]] > 0 /\ CancelRoutine'[i]
    BY <1>1, <1>u, <1>q, <1>c, <1>l
  <2>7. cancelling' = {}
    BY <1>a, <1>u
  <2> QED BY <1>c, <2>1, <2>2, <2>3, <2>4, <2>5, <2>6, <2>7 DEF Owners
<1>4. Mapped'
  <2>1. ~Started' /\ \A d \in Dirs : SGL'[d] = NONE /\ ~start'[d] /\ ~done'[d] /\ ~(Length'[d] > 0)
    BY <1>a, <1>u DEF Vacant, Started
  <2> QED BY <2>1 DEF Mapped
<1>5. Deferred'
  BY <1>a, <1>u, <1>l DEF OneThreadInv, Deferred, DpcIdle
<1>6. Taken'
  BY <1>u DEF OneThreadInv, Taken, DpcIdle
<1>7. Waiting'
  BY <1>u, <1>p DEF OneThreadInv, Waiting, Quiet, Before
<1> QED BY <1>u, <1>2, <1>3, <1>4, <1>5, <1>6, <1>7 DEF OneThreadInv

(* ... or makes it current; nobody waits for that direction any more.      *)
LEMMA DispatchCurrentKeeps ==
  ASSUME OneThread, Shapes, Plug, OneThreadInv, NEW i \in Irps, DispatchCurrent(i)
  PROVE  OneThreadInv'
<1>1. pc[i] = "current" /\ pc[i] \in Prepared /\ DirOf[i] \in Dirs
  BY DEF DispatchCurrent, Prepared, Shapes
<1>a. /\ \A j \in Irps : (Live(j) <=> j = i) /\ (InDispatch(j) <=> j = i)
      /\ Operation = {DirOf[i]} /\ DpcIdle
      /\ \A d \in Dirs : Vacant(d) /\ ~start[d] /\ ~done[d]
      /\ \A d \in Dirs : Length[d] > 0 => d = DirOf[i]
      /\ cancelling = {} /\ \A j \in Irps : ~CancelRoutine[j]
      /\ ~Cancel[i] /\ pnpIrp = NONE
  BY <1>1, PreparedAlone
<1>u. /\ UNCHANGED <<Queue, QueueLock, xfer, gate, clock, cancels, outcome, dpcVars, pnpVars,
                     device, Operation, faults>>
      /\ Irp' = [Irp EXCEPT ![DirOf[i]] = i] /\ SGL' = [SGL EXCEPT ![DirOf[i]] = <<i, Offset[DirOf[i]]>>]
      /\ addr' = [addr EXCEPT ![DirOf[i]] = <<i, Offset[DirOf[i]]>>]
  BY OneThreadLacks DEF DispatchCurrent, StartCurrent
<1>r. pc' = [pc EXCEPT ![i] = "release"]
  <2>1. Status'[i] = "PENDING"
    BY <1>a, <1>u DEF OneThreadInv, OneRequest, Live
  <2> QED BY <2>1 DEF DispatchCurrent
<1>i. /\ \A d \in Dirs : Irp'[d] = IF d = DirOf[i] THEN i ELSE NONE
      /\ \A d \in Dirs : SGL'[d] = IF d = DirOf[i] THEN <<i, Offset[d]>> ELSE NONE
      /\ addr'[DirOf[i]] = <<i, Offset[DirOf[i]]>>
  BY <1>1, <1>a, <1>u DEF Vacant, Shapes
<1>p. \A j \in Irps : pc'[j] = IF j = i THEN "release" ELSE pc[j]
  BY <1>r DEF Shapes, CallTypes
<1>f. \A j \in Irps : Finished(j)' <=> Finished(j)
  BY <1>u DEF Finished
<1>l. \A j \in Irps : (Live(j)' <=> j = i) /\ (InDispatch(j)' <=> j = i)
  BY <1>a, <1>p, <1>f, <1>1 DEF Live, InDispatch
<1>2. OneRequest'
  <2>1. \A j \in Irps : Locked(j)' => QueueLock'[DirOf[j]]
    BY <1>1, <1>l, <1>p, <1>u DEF OneThreadInv, OneRequest, Locked, InDispatch
  <2>2. \A j \in Irps : /\ completions'[j] \in {0, 1} /\ (pc'[j] = "none" => ~Finished(j)')
                        /\ ~Finished(j)' => Status'[j] = "PENDING"
    BY <1>p, <1>f, <1>u DEF OneThreadInv, OneRequest
  <2>3. ~Started' /\ DpcIdle' /\ ~Finished(i)' /\ Operation' = {DirOf[i]}
    BY <1>a, <1>u, <1>f DEF Started, DpcIdle, Live
  <2> QED BY <1>l, <1>p, <2>1, <2>2, <2>3 DEF OneRequest
<1>n. i # NONE
  BY DEF Shapes
<1>3. Owners'
  <2>1. \A j \in Irps : Accepted(j)' /\ ~Finished(j)' => j = i
    BY <1>l, <1>p DEF Live, Accepted
  <2>2. \A j \in Irps : Cancel'[j] => pc'[j] = "returned"
    BY <1>a, <1>p, <1>u DEF OneThreadInv, Owners
  <2>3. \A d \in Dirs : Queue'[d] = <<>>
    BY <1>a, <1>u DEF Vacant
  <2>4. (\A d \in Dirs : Irp[d] # NONE =>
       /\ DirOf[Irp[d]] = d /\ Live(Irp[d]) /\ Accepted(Irp[d])
       /\ Irp[d] \notin cancelling /\ ~CancelRoutine[Irp[d]] /\ Queue[d] = <<>>)'
    <3>1. Live(i)' /\ Accepted(i)' /\ i \notin cancelling' /\ ~CancelRoutine'[i]
      BY <1>a, <1>u, <1>l, <1>p DEF Accepted
    <3> QED BY <1>i, <2>3, <3>1 DEF Live, Accepted, Finished
  <2> QED BY <1>1, <1>a, <1>u, <1>i, <2>1, <2>2, <2>3, <2>4 DEF Owners
<1>4. Mapped'
  <2>1. ~Started' /\ \A d \in Dirs : ~start'[d] /\ ~done'[d]
    BY <1>a, <1>u DEF Vacant, Started
  <2>3. \A d \in Dirs : Length'[d] > 0 => Operation' = {d} /\ Irp'[d] # NONE
    BY <1>a, <1>u, <1>i, <1>n
  <2>4. \A d \in Dirs : SGL'[d] # NONE => Irp'[d] # NONE /\ SGL'[d][1] = Irp'[d] /\ addr'[d] = SGL'[d]
    <3> SUFFICES ASSUME NEW d \in Dirs, SGL'[d] # NONE
                 PROVE  Irp'[d] # NONE /\ SGL'[d][1] = Irp'[d] /\ addr'[d] = SGL'[d]
      OBVIOUS
    <3>1. d = DirOf[i] /\ SGL'[d] = <<i, Offset[d]>> /\ addr'[d] = <<i, Offset[d]>> /\ Irp'[d] = i
      BY <1>i
    <3> QED BY <1>n, <3>1
  <2> QED BY <2>1, <2>3, <2>4 DEF Mapped
<1>5. Deferred'
  <2>1. DpcIdle' /\ dpc' = "idle"
    BY <1>a, <1>u DEF DpcIdle
  <2>2. Live(i)' /\ Irp'[DirOf[i]] = i
    BY <1>1, <1>i, <1>l
  <2> QED BY <1>u, <2>1, <2>2 DEF OneThreadInv, Deferred, DpcIdle
<1>6. Taken'
  BY <1>a, <1>u DEF OneThreadInv, Taken
<1>7. Waiting'
  <2>1. ~Quiet(DirOf[i])
    BY <1>1 DEF Quiet
  <2>2. \A d \in Dirs : Quiet(d) => Quiet(d)'
    BY <1>1, <1>i, <1>p, <2>1 DEF Quiet
  <2> QED BY <1>u, <2>2 DEF OneThreadInv, Waiting, Before, Shapes, PnpTypes
<1> QED BY <1>u, <1>2, <1>3, <1>4, <1>5, <1>6, <1>7 DEF OneThreadInv

(* What each part of the invariant reads: a step that leaves it alone      *)
(* keeps the part.                                                         *)
LEMMA OneRequestStays ==
  ASSUME OneRequest, UNCHANGED <<pc, outcome, QueueLock, Operation>>,
         Started' => Started, DpcIdle => DpcIdle' \/ \A i \in Irps : ~InDispatch(i)
  PROVE  OneRequest'
BY DEF OneRequest, Live, InDispatch, Locked, Finished

(* ... where the requests are ...                                          *)
LEMMA OwnersStay ==
  ASSUME Owners, UNCHANGED <<slot, pc, completions, cancels>>,
         \A d \in Dirs : stallcount[d] > 0 => stallcount'[d] > 0
  PROVE  Owners'
BY DEF Owners, Live, Accepted, Finished

(* ... what is mapped and running ...                                      *)
LEMMA MappedStays ==
  ASSUME Mapped, UNCHANGED <<Irp, SGL, addr, pc, outcome, device, Operation, Length>>,
         dpc = "reset" => UNCHANGED <<dpc, dpcDir>>,
         pnpIrp' \in {pnpIrp, NONE}
  PROVE  Mapped'
BY DEF Mapped, Live, Finished, Started

(* ... what the DPC has to do ...                                          *)
LEMMA DeferredStays ==
  ASSUME Deferred, UNCHANGED <<Irp, pc, completions, busy, iotimeout, dpcVars, Length, done>>,
         DpcIdle \/ UNCHANGED SGL
  PROVE  Deferred'
BY DEF Deferred, DpcIdle, Live, Finished, HasDone

(* ... and what a stop waits for.                                          *)
LEMMA WaitingStays ==
  ASSUME Waiting, UNCHANGED <<Irp, SGL, evStop, pc, pnpVars>> PROVE Waiting'
BY DEF Waiting, Quiet, Before

(* A stop stalls a direction,                                              *)
LEMMA StallRequestsKeeps ==
  ASSUME Shapes, Plug, OneThreadInv, StallRequests PROVE OneThreadInv'
<1>u. UNCHANGED <<slot, QueueLock, xfer, SGL, abortstatus, evStop, clock, pc, cancels, outcome,
                  dpcVars, pnpIrp, pnpDev, addr, device, Operation, faults>>
  BY DEF StallRequests
<1>1. OneRequest' /\ Owners' /\ Mapped' /\ Deferred'
  <2>1. \A d \in Dirs : stallcount[d] > 0 => stallcount'[d] > 0
    <3>1. stallcount \in [Dirs -> 0..2] /\ stallcount' = [stallcount EXCEPT ![pnpDir] = @ + 1]
      BY DEF StallRequests, Shapes
    <3>2. \A d \in Dirs : stallcount'[d] \in {stallcount[d], stallcount[d] + 1} /\ stallcount[d] \in 0..2
      BY <3>1
    <3> QED BY <3>2
  <2>2. Started' <=> Started
    BY <1>u DEF Started
  <2>3. DpcIdle' <=> DpcIdle
    BY <1>u DEF DpcIdle
  <2> QED BY <1>u, <2>1, <2>2, <2>3, OneRequestStays, OwnersStay, MappedStays, DeferredStays DEF OneThreadInv
<1>2. Taken'
  <2>1. pnpIrp = NONE
    BY DEF StallRequests, Plug
  <2>2. pnp' \in {"stall", "clear"}
    BY DEF StallRequests, PnpNextDirection
  <2> QED BY <1>u, <2>1, <2>2 DEF OneThreadInv, Taken
<1>3. Waiting'
  <2>1. pnp' = "stall" \/ (pnp' = "clear" /\ pnpDir' = PnpFirst)
    BY DEF StallRequests, PnpNextDirection
  <2> QED BY <2>1 DEF Waiting, Before
<1> QED BY <1>u, <1>1, <1>2, <1>3 DEF OneThreadInv

(* ... clears the event, after which it says nothing,                      *)
LEMMA WaitClearEventKeeps ==
  ASSUME Shapes, Plug, OneThreadInv, WaitClearEvent PROVE OneThreadInv'
<1>u. /\ UNCHANGED <<slot, QueueLock, xfer, SGL, stallcount, abortstatus, clock, pc, cancels, outcome,
                     dpcVars, pnpDir, pnpIrp, pnpDev, addr, device, Operation, faults>>
      /\ pnp = "clear" /\ pnp' = "check"
  BY DEF WaitClearEvent
<1>1. OneRequest' /\ Owners' /\ Mapped' /\ Deferred'
  <2>1. (Started' <=> Started) /\ (DpcIdle' <=> DpcIdle)
    BY <1>u DEF Started, DpcIdle
  <2> QED BY <1>u, <2>1, OneRequestStays, OwnersStay, MappedStays, DeferredStays DEF OneThreadInv
<1>2. Taken'
  BY <1>u DEF OneThreadInv, Taken, DpcIdle
<1>3. Waiting'
  <2>1. evStop'[pnpDir] = FALSE
    BY DEF WaitClearEvent, Shapes, PnpTypes
  <2> QED BY <1>u, <2>1 DEF OneThreadInv, Waiting, Before, Quiet
<1> QED BY <1>u, <1>1, <1>2, <1>3 DEF OneThreadInv

(* ... sees under the lock that nothing is current or starting,            *)
LEMMA WaitCheckKeeps ==
  ASSUME Shapes, Plug, OneThreadInv, WaitCheck PROVE OneThreadInv'
<1>u. /\ UNCHANGED <<slot, QueueLock, xfer, SGL, gate, clock, pc, cancels, outcome,
                     dpcVars, pnpIrp, pnpDev, addr, device, Operation, faults>>
      /\ pnp = "check" /\ ~QueueLock[pnpDir]
  BY DEF WaitCheck
<1>1. OneRequest' /\ Owners' /\ Mapped' /\ Deferred'
  <2>1. (Started' <=> Started) /\ (DpcIdle' <=> DpcIdle)
    BY <1>u DEF Started, DpcIdle
  <2> QED BY <1>u, <2>1, OneRequestStays, OwnersStay, MappedStays, DeferredStays DEF OneThreadInv
<1>2. Taken'
  <2>1. pnpIrp = NONE /\ pnp' # "timer"
    BY <1>u DEF WaitCheck, PnpNextDirection, Plug
  <2> QED BY <1>u, <2>1 DEF OneThreadInv, Taken
<1>3. Waiting'
  <2>1. CASE Irp[pnpDir] # NONE
    BY <1>u, <2>1 DEF WaitCheck, OneThreadInv, Waiting, Before, Quiet
  <2>2. CASE Irp[pnpDir] = NONE
    <3>1. Quiet(pnpDir)
      <4>1. SGL[pnpDir] = NONE
        BY <2>2 DEF OneThreadInv, Mapped, Shapes, PnpTypes
      <4>2. \A i \in Irps : DirOf[i] = pnpDir => pc[i] \notin {"length", "current"}
        BY <1>u DEF OneThreadInv, OneRequest, Locked
      <4> QED BY <2>2, <4>1, <4>2 DEF Quiet
    <3>2. \A d \in Dirs : Quiet(d) => Quiet(d)'
      BY <1>u DEF Quiet
    <3>3. pnpDir \in Dirs /\ PnpNextDirection("clear", "stopped")
      BY <2>2 DEF Shapes, PnpTypes, WaitCheck
    <3>4. CASE pnpDir = PnpLast
      <4>1. pnp' = "stopped"
        BY <3>3, <3>4 DEF PnpNextDirection
      <4>2. \A d \in Dirs : Quiet(d)
        BY <1>u, <3>1, <3>4 DEF OneThreadInv, Waiting, Before, Shapes
      <4> QED BY <3>2, <4>1, <4>2 DEF Waiting
    <3>5. CASE pnpDir # PnpLast
      <4>1. pnp' = "clear" /\ pnpDir' = PnpLast /\ pnpDir = PnpFirst
        BY <3>3, <3>5 DEF PnpNextDirection, Shapes
      <4> QED BY <3>1, <3>2, <4>1 DEF Waiting, Before
    <3> QED BY <3>4, <3>5
  <2> QED BY <2>1, <2>2
<1> QED BY <1>u, <1>1, <1>2, <1>3 DEF OneThreadInv

(* ... or is told so by the DPC.                                           *)
LEMMA WaitEventKeeps ==
  ASSUME Shapes, Plug, OneThreadInv, WaitEvent PROVE OneThreadInv'
<1>u. /\ UNCHANGED <<slot, QueueLock, xfer, SGL, gate, clock, pc, cancels, outcome,
                     dpcVars, pnpIrp, pnpDev, addr, device, Operation, faults>>
      /\ pnp = "wait" /\ evStop[pnpDir] /\ PnpNextDirection("clear", "stopped")
  BY DEF WaitEvent
<1>1. OneRequest' /\ Owners' /\ Mapped' /\ Deferred'
  <2>1. (Started' <=> Started) /\ (DpcIdle' <=> DpcIdle)
    BY <1>u DEF Started, DpcIdle
  <2> QED BY <1>u, <2>1, OneRequestStays, OwnersStay, MappedStays, DeferredStays DEF OneThreadInv
<1>2. Taken'
  <2>1. pnpIrp = NONE /\ pnp' # "timer"
    BY <1>u DEF PnpNextDirection, Plug
  <2> QED BY <1>u, <2>1 DEF OneThreadInv, Taken
<1>3. Waiting'
  <2>1. Quiet(pnpDir) /\ pnpDir \in Dirs
    BY <1>u DEF OneThreadInv, Waiting, Shapes, PnpTypes
  <2>2. \A d \in Dirs : Quiet(d) => Quiet(d)'
    BY <1>u DEF Quiet
  <2>3. CASE pnpDir = PnpLast
    <3>1. pnp' = "stopped"
      BY <1>u, <2>3 DEF PnpNextDirection
    <3>2. \A d \in Dirs : Quiet(d)
      BY <1>u, <2>1, <2>3 DEF OneThreadInv, Waiting, Before, Shapes
    <3> QED BY <2>2, <3>1, <3>2 DEF Waiting
  <2>4. CASE pnpDir # PnpLast
    <3>1. pnp' = "clear" /\ pnpDir' = PnpLast /\ pnpDir = PnpFirst
      BY <1>u, <2>1, <2>4 DEF PnpNextDirection, Shapes
    <3> QED BY <2>1, <2>2, <3>1 DEF Waiting, Before
  <2> QED BY <2>3, <2>4
<1> QED BY <1>u, <1>1, <1>2, <1>3 DEF OneThreadInv

(* A restart begins for the function device,                               *)
LEMMA ResumeKeeps ==
  ASSUME OneThread, Shapes, Plug, OneThreadInv, Resume PROVE OneThreadInv'
<1>u. /\ UNCHANGED <<slot, QueueLock, xfer, SGL, gate, clock, pc, cancels, outcome,
                     dpcVars, pnpDir, pnpIrp, addr, device, Operation, faults>>
      /\ pnp = "stopped" /\ pnp' = "restart" /\ pnpDev' = "FDO"
  BY OneThreadLacks DEF Resume
<1>1. OneRequest' /\ Owners' /\ Mapped' /\ Deferred'
  <2>1. (Started' <=> Started) /\ (DpcIdle' <=> DpcIdle)
    BY <1>u DEF Started, DpcIdle
  <2> QED BY <1>u, <2>1, OneRequestStays, OwnersStay, MappedStays, DeferredStays DEF OneThreadInv
<1>2. Taken'
  BY <1>u DEF OneThreadInv, Taken, DpcIdle
<1>3. Waiting'
  BY <1>u DEF Waiting
<1> QED BY <1>u, <1>1, <1>2, <1>3 DEF OneThreadInv

(* A removal marks the directions and leaves the requests alone.           *)
LEMMA AbortRequestsKeeps ==
  ASSUME Shapes, Plug, OneThreadInv, AbortRequests PROVE OneThreadInv'
<1>u. /\ UNCHANGED <<slot, QueueLock, xfer, SGL, stallcount, evStop, clock, pc, cancels, outcome,
                     dpcVars, pnpDir, pnpIrp, pnpDev, addr, device, Operation, faults>>
      /\ pnp' = "cleanup"
  BY DEF AbortRequests
<1>1. OneRequest' /\ Owners' /\ Mapped' /\ Deferred'
  <2>1. (Started' <=> Started) /\ (DpcIdle' <=> DpcIdle)
    BY <1>u DEF Started, DpcIdle
  <2> QED BY <1>u, <2>1, OneRequestStays, OwnersStay, MappedStays, DeferredStays DEF OneThreadInv
<1>2. Taken'
  BY <1>u DEF OneThreadInv, Taken, DpcIdle
<1>3. Waiting'
  BY <1>u DEF Waiting
<1> QED BY <1>u, <1>1, <1>2, <1>3 DEF OneThreadInv

(* ... sets the timer for the request that it took,                        *)
LEMMA RestartStartKeeps ==
  ASSUME Shapes, Plug, OneThreadInv, RestartStart PROVE OneThreadInv'
<1>u. /\ UNCHANGED <<slot, QueueLock, xfer, SGL, gate, iotimeout, pc, cancels, outcome, dpcVars,
                     pnpDir, pnpIrp, pnpDev, addr, device, Operation, faults>>
      /\ pnp = "timer" /\ pnp' = "length" /\ busy'
  BY DEF RestartStart, SetIoTimerValue
<1>t. pnpIrp # NONE /\ Irp[pnpDir] = pnpIrp /\ DpcIdle /\ SGL[pnpDir] = NONE
  BY <1>u DEF OneThreadInv, Taken, Plug
<1>1. OneRequest' /\ Owners' /\ Mapped'
  <2>1. (Started' <=> Started) /\ (DpcIdle' <=> DpcIdle)
    BY <1>u DEF Started, DpcIdle
  <2> QED BY <1>u, <2>1, OneRequestStays, OwnersStay, MappedStays DEF OneThreadInv
<1>2. Deferred'
  <2>1. \E i \in Irps : Live(i)' /\ Irp'[DirOf[i]] = i
    <3>1. pnpIrp \in Irps /\ pnpDir \in Dirs
      BY <1>t DEF Shapes, PnpTypes
    <3>2. DirOf[pnpIrp] = pnpDir /\ Live(pnpIrp)
      BY <1>t, <3>1 DEF OneThreadInv, Owners
    <3> QED BY <1>u, <1>t, <3>1, <3>2 DEF Live, Finished
  <2>2. dpc' = "idle" /\ ~dpcQueued'
    BY <1>u, <1>t DEF DpcIdle
  <2>3. "timeout" \notin Env => iotimeout' = FALSE
    BY <1>u DEF OneThreadInv, Deferred
  <2> QED BY <2>1, <2>2, <2>3 DEF Deferred, DpcIdle
<1>3. Taken'
  BY <1>u, <1>t DEF OneThreadInv, Taken, DpcIdle
<1>4. Waiting'
  BY <1>u DEF Waiting
<1> QED BY <1>u, <1>1, <1>2, <1>3, <1>4 DEF OneThreadInv

(* ... and its length,                                                     *)
LEMMA RestartLengthKeeps ==
  ASSUME Shapes, Plug, OneThreadInv, RestartLength PROVE OneThreadInv'
<1>u. /\ UNCHANGED <<slot, QueueLock, SGL, gate, clock, pc, cancels, outcome, dpcVars,
                     pnpDir, pnpIrp, pnpDev, addr, device, Operation, faults>>
      /\ pnp = "length" /\ pnp' = "current"
      /\ Length' = [Length EXCEPT ![pnpDir] = PassLength(pnpDir)]
  BY DEF RestartLength, StartLength
<1>t. pnpIrp # NONE /\ Irp[pnpDir] = pnpIrp /\ DpcIdle /\ SGL[pnpDir] = NONE
  BY <1>u DEF OneThreadInv, Taken, Plug
<1>i. pnpIrp \in Irps /\ pnpDir \in Dirs /\ DirOf[pnpIrp] = pnpDir /\ Live(pnpIrp)
  BY <1>t DEF Shapes, PnpTypes, OneThreadInv, Owners
<1>1. OneRequest' /\ Owners'
  <2>1. (Started' <=> Started) /\ (DpcIdle' <=> DpcIdle)
    BY <1>u DEF Started, DpcIdle
  <2> QED BY <1>u, <2>1, OneRequestStays, OwnersStay DEF OneThreadInv
<1>2. Mapped'
  <2>1. \A d \in Dirs : Length'[d] > 0 => d = pnpDir \/ Length[d] > 0
    BY <1>u DEF Shapes
  <2>2. Operation = {pnpDir} /\ Irp[pnpDir] # NONE
    BY <1>i, <1>t DEF OneThreadInv, OneRequest
  <2>3. \A d \in Dirs : Length'[d] > 0 =>
       /\ Operation' = {d}
       /\ \/ Irp'[d] # NONE
          \/ \E i \in Irps : DirOf[i] = d /\ pc'[i] = "current"
          \/ dpc' = "reset" /\ dpcDir' = d
    BY <1>u, <2>1, <2>2 DEF OneThreadInv, Mapped
  <2> QED BY <1>u, <2>3 DEF OneThreadInv, Mapped, Started, Live, Finished
<1>3. Deferred'
  <2>1. dpc' = "idle"
    BY <1>u, <1>t DEF DpcIdle
  <2> QED BY <1>u, <1>t, <2>1 DEF OneThreadInv, Deferred, DpcIdle, Live, Finished, HasDone
<1>4. Taken'
  BY <1>u, <1>t DEF OneThreadInv, Taken, DpcIdle
<1>5. Waiting'
  BY <1>u DEF Waiting
<1> QED BY <1>u, <1>1, <1>2, <1>3, <1>4, <1>5 DEF OneThreadInv

(* ... and maps its buffer.                                                *)
LEMMA RestartCurrentKeeps ==
  ASSUME OneThread, Shapes, Plug, OneThreadInv, RestartCurrent PROVE OneThreadInv'
<1>u. /\ UNCHANGED <<Queue, QueueLock, xfer, gate, clock, pc, cancels, outcome, dpcVars,
                     pnpDev, device, Operation, faults>>
      /\ pnp = "current" /\ pnpIrp' = NONE /\ PnpNextDirection("restart", "started")
      /\ Irp' = [Irp EXCEPT ![pnpDir] = pnpIrp]
      /\ SGL' = [SGL EXCEPT ![pnpDir] = <<pnpIrp, Offset[pnpDir]>>]
      /\ addr' = [addr EXCEPT ![pnpDir] = <<pnpIrp, Offset[pnpDir]>>]
  BY OneThreadLacks DEF RestartCurrent, StartCurrent
<1>t. pnpIrp # NONE /\ Irp[pnpDir] = pnpIrp /\ DpcIdle
  BY <1>u DEF OneThreadInv, Taken, Plug
<1>i. pnpIrp \in Irps /\ pnpDir \in Dirs /\ DirOf[pnpIrp] = pnpDir /\ Live(pnpIrp)
  BY <1>t DEF Shapes, PnpTypes, OneThreadInv, Owners
<1>s. Irp' = Irp
  BY <1>u, <1>t DEF Shapes
<1>1. OneRequest' /\ Owners' /\ Deferred'
  <2>1. (Started' <=> Started) /\ (DpcIdle' <=> DpcIdle)
    BY <1>u DEF Started, DpcIdle
  <2> QED BY <1>u, <1>s, <1>t, <2>1, OneRequestStays, OwnersStay, DeferredStays DEF OneThreadInv
<1>2. Mapped'
  <2>1. ~Started
    BY <1>i, <1>t DEF OneThreadInv, Mapped
  <2>2. \A d \in Dirs : ~start[d] /\ ~done[d]
    BY <2>1 DEF Started, OneThreadInv, Mapped
  <2>3. \A d \in Dirs : SGL'[d] # NONE => Irp'[d] # NONE /\ SGL'[d][1] = Irp'[d] /\ addr'[d] = SGL'[d]
    BY <1>u, <1>s, <1>t, <1>i DEF OneThreadInv, Mapped, Shapes
  <2>4. ~Started' /\ \A d \in Dirs : ~start'[d] /\ ~done'[d]
    BY <1>u, <2>1, <2>2 DEF Started
  <2>5. \A d \in Dirs : Length'[d] > 0 =>
       /\ Operation' = {d}
       /\ \/ Irp'[d] # NONE
          \/ \E i \in Irps : DirOf[i] = d /\ pc'[i] = "current"
          \/ dpc' = "reset" /\ dpcDir' = d
    BY <1>u, <1>s DEF OneThreadInv, Mapped
  <2> QED BY <2>3, <2>4, <2>5 DEF Mapped
<1>3. Taken'
  BY <1>u DEF OneThreadInv, Taken, PnpNextDirection
<1>4. Waiting'
  BY <1>u DEF Waiting, PnpNextDirection
<1> QED BY <1>u, <1>1, <1>2, <1>3, <1>4 DEF OneThreadInv

(* A restart leaves the queue empty: it starts the one request in it, or   *)
(* leaves it to its cancel routine.                                        *)
LEMMA RestartEffect ==
  ASSUME Shapes, Plug, OneThreadInv, RestartRequests
  PROVE  /\ pnp = "restart" /\ pnpDir \in Dirs
         /\ \A d \in Dirs : stallcount[d] > 0 /\ d # pnpDir => stallcount'[d] > 0
         /\ \A d \in Dirs : Queue'[d] = IF d = pnpDir THEN <<>> ELSE Queue[d]
         /\ \/ /\ UNCHANGED <<Irp, CancelRoutine, bugcheck>> /\ pnpIrp' = NONE
               /\ pnp' \in {"restart", "started"}
               /\ \A i \in Irps : Queue[pnpDir] = <<i>> => i \in cancelling
            \/ \E i \in Irps :
                 /\ Queue[pnpDir] = <<i>> /\ DirOf[i] = pnpDir /\ CancelRoutine[i] /\ Irp[pnpDir] = NONE
                 /\ Irp' = [Irp EXCEPT ![pnpDir] = i] /\ pnpIrp' = i
                 /\ CancelRoutine' = [CancelRoutine EXCEPT ![i] = FALSE]
                 /\ bugcheck' = FALSE /\ pnp' = "timer" /\ pnpDir' = pnpDir
<1> DEFINE d == pnpDir
           rest == IF MayRestart(d) THEN AfterCancelling(Queue[d]) ELSE Queue[d]
           next == IF MayRestart(d) /\ rest # <<>> THEN Head(rest) ELSE NONE
<1>1. pnp = "restart" /\ pnpDir \in Dirs /\ pnpDev = "FDO"
  BY DEF RestartRequests, Shapes, PnpTypes, OneThreadInv, Taken
<1>2. stallcount[d] = 1 /\ ~abortstatus[d]
  BY <1>1 DEF Plug, Stalled, Before
<1>3. MayRestart(d) <=> Irp[d] = NONE
  BY <1>2 DEF MayRestart
<1>4. \A e \in Dirs : stallcount[e] > 0 /\ e # pnpDir => stallcount'[e] > 0
  BY DEF RestartRequests, Shapes
<1>5. \/ Queue[d] = <<>>
      \/ \E i \in Irps : Queue[d] = <<i>> /\ DirOf[i] = d /\ (CancelRoutine[i] <=> i \notin cancelling)
  BY <1>1 DEF OneThreadInv, Owners
<1>6. /\ next = NONE => Queue' = [Queue EXCEPT ![d] = rest] /\ PnpNextDirection("restart", "started")
                        /\ UNCHANGED <<Irp, CancelRoutine, bugcheck>>
      /\ next # NONE => /\ Queue' = [Queue EXCEPT ![d] = Tail(rest)] /\ Irp' = [Irp EXCEPT ![d] = next]
                        /\ CancelRoutine' = [CancelRoutine EXCEPT ![next] = FALSE]
                        /\ bugcheck' = (pnpDev = "PDO") /\ pnp' = "timer" /\ pnpDir' = pnpDir
      /\ pnpIrp' = next
  BY DEF RestartRequests
<1>q. Queue \in [Dirs -> Seq(Irps)] /\ \A i \in Irps : CancelRoutine[i] \in BOOLEAN /\ i # NONE
  BY DEF Shapes, CancelTypes
<1>7. CASE Irp[d] # NONE
  <2>1. Queue[d] = <<>> /\ next = NONE /\ rest = <<>>
    BY <1>1, <1>3, <1>7 DEF OneThreadInv, Owners
  <2>2. \A i \in Irps : Queue[d] # <<i>>
    BY <2>1, OneQueued
  <2> HIDE DEF rest, next
  <2> QED BY <1>1, <1>4, <1>6, <1>q, <2>1, <2>2 DEF PnpNextDirection
<1>8. CASE Irp[d] = NONE /\ Queue[d] = <<>>
  <2>1. next = NONE /\ rest = <<>>
    <3>1. CASE Irps = {}
      <4>1. NotCancelling(<<>>) = {}
        BY DEF NotCancelling
      <4> QED BY <1>8, <4>1 DEF AfterCancelling
    <3>2. CASE Irps # {}
      BY <1>8, <1>q, <3>2, OneKept
    <3> QED BY <3>1, <3>2
  <2>2. \A i \in Irps : Queue[d] # <<i>>
    BY <1>8, OneQueued
  <2> HIDE DEF rest, next
  <2> QED BY <1>1, <1>4, <1>6, <1>q, <2>1, <2>2 DEF PnpNextDirection
<1>9. ASSUME NEW i \in Irps, Irp[d] = NONE, Queue[d] = <<i>>, DirOf[i] = d, CancelRoutine[i]
      PROVE  /\ \A e \in Dirs : Queue'[e] = IF e = pnpDir THEN <<>> ELSE Queue[e]
             /\ Irp' = [Irp EXCEPT ![pnpDir] = i] /\ pnpIrp' = i
             /\ CancelRoutine' = [CancelRoutine EXCEPT ![i] = FALSE]
             /\ bugcheck' = FALSE /\ pnp' = "timer" /\ pnpDir' = pnpDir
  <2>1. rest = <<i>> /\ next = i
    BY <1>3, <1>9, <1>q, OneKept, OneQueued
  <2>2. Tail(rest) = <<>> /\ next # NONE
    BY <2>1, <1>q, OneQueued
  <2> HIDE DEF rest, next
  <2> QED BY <1>1, <1>6, <1>q, <2>1, <2>2
<1>10. ASSUME NEW i \in Irps, Irp[d] = NONE, Queue[d] = <<i>>, ~CancelRoutine[i], i \in cancelling
       PROVE  /\ \A e \in Dirs : Queue'[e] = IF e = pnpDir THEN <<>> ELSE Queue[e]
              /\ UNCHANGED <<Irp, CancelRoutine, bugcheck>> /\ pnpIrp' = NONE
              /\ pnp' \in {"restart", "started"}
              /\ \A j \in Irps : Queue[d] = <<j>> => j \in cancelling
  <2>1. rest = <<>> /\ next = NONE
    BY <1>3, <1>10, <1>q, OneKept
  <2>2. \A j \in Irps : Queue[d] = <<j>> => j = i
    <3> SUFFICES ASSUME NEW j \in Irps, <<i>> = <<j>> PROVE i = j
      BY <1>10
    <3> QED OBVIOUS
  <2> HIDE DEF rest, next
  <2> QED BY <1>1, <1>6, <1>10, <1>q, <2>1, <2>2 DEF PnpNextDirection
<1> HIDE DEF rest, next
<1> QED BY <1>1, <1>4, <1>5, <1>7, <1>8, <1>9, <1>10

(* A restart makes the queued request current, or leaves it cancelled.     *)
LEMMA RestartRequestsKeeps ==
  ASSUME Shapes, Plug, OneThreadInv, RestartRequests PROVE OneThreadInv'
<1>e. /\ pnp = "restart" /\ pnpDir \in Dirs
      /\ \A d \in Dirs : stallcount[d] > 0 /\ d # pnpDir => stallcount'[d] > 0
      /\ \A d \in Dirs : Queue'[d] = IF d = pnpDir THEN <<>> ELSE Queue[d]
  BY RestartEffect
<1>u. UNCHANGED <<QueueLock, xfer, SGL, abortstatus, evStop, clock, pc, Cancel, cancelling, outcome,
                  dpcVars, pnpDev, addr, device, Operation, touched>>
  BY DEF RestartRequests
<1>1. OneRequest'
  <2>1. (Started' <=> Started) /\ (DpcIdle' <=> DpcIdle)
    BY <1>u DEF Started, DpcIdle
  <2> QED BY <1>u, <2>1, OneRequestStays DEF OneThreadInv
<1>l. \A i \in Irps : (Live(i)' <=> Live(i)) /\ (Accepted(i)' <=> Accepted(i)) /\ (Finished(i)' <=> Finished(i))
  BY <1>u DEF Live, Accepted, Finished
<1>d. \A i \in Irps : DirOf[i] \in Dirs
  BY DEF Shapes
<1>2. ASSUME UNCHANGED <<Irp, CancelRoutine, bugcheck>>, pnpIrp' = NONE, pnp' \in {"restart", "started"},
             \A i \in Irps : Queue[pnpDir] = <<i>> => i \in cancelling
      PROVE  OneThreadInv'
  <2>1. Owners'
    <3>1. \A d \in Dirs : Queue'[d] # <<>> => d # pnpDir /\ Queue'[d] = Queue[d]
      BY <1>e
    <3>2. \A i \in Irps : CancelRoutine[i] => DirOf[i] # pnpDir
      BY <1>2, <1>d DEF OneThreadInv, Owners
    <3>3. \A d \in Dirs : Queue'[d] # <<>> =>
           \E i \in Irps :
             /\ Queue'[d] = <<i>> /\ DirOf[i] = d /\ Live(i)' /\ Accepted(i)'
             /\ stallcount'[d] > 0 /\ (CancelRoutine'[i] <=> i \notin cancelling')
      BY <1>2, <1>e, <1>u, <1>l, <3>1 DEF OneThreadInv, Owners
    <3>4. (\A d \in Dirs : Irp[d] # NONE =>
           /\ DirOf[Irp[d]] = d /\ Live(Irp[d]) /\ Accepted(Irp[d])
           /\ Irp[d] \notin cancelling /\ ~CancelRoutine[Irp[d]] /\ Queue[d] = <<>>)'
      <4>1. \A d \in Dirs : Irp[d] # NONE => Queue'[d] = <<>>
        BY <1>e DEF OneThreadInv, Owners
      <4> QED BY <1>2, <1>u, <4>1 DEF OneThreadInv, Owners, Live, Accepted, Finished
    <3>5. \A i \in Irps : Accepted(i)' /\ ~Finished(i)' =>
            Irp'[DirOf[i]] = i \/ Queue'[DirOf[i]] = <<i>> \/ i \in cancelling'
      BY <1>2, <1>e, <1>u, <1>l, <1>d DEF OneThreadInv, Owners
    <3>6. \A i \in Irps : CancelRoutine'[i] => Queue'[DirOf[i]] = <<i>>
      BY <1>2, <1>e, <1>d, <3>2 DEF OneThreadInv, Owners
    <3>7. (\A i \in Irps : Cancel'[i] => pc'[i] = "returned")
          /\ \A i \in cancelling' : Live(i)' /\ pc'[i] = "returned"
      BY <1>u, <1>l DEF OneThreadInv, Owners, Shapes, CancelTypes
    <3> QED BY <3>3, <3>4, <3>5, <3>6, <3>7 DEF Owners
  <2>2. Mapped' /\ Deferred'
    BY <1>u, <1>2, MappedStays, DeferredStays DEF OneThreadInv
  <2>3. Taken' /\ Waiting'
    BY <1>u, <1>2 DEF OneThreadInv, Taken, Waiting
  <2> QED BY <1>u, <1>1, <1>2, <2>1, <2>2, <2>3 DEF OneThreadInv
<1>3. ASSUME NEW i \in Irps,
             Queue[pnpDir] = <<i>>, DirOf[i] = pnpDir, CancelRoutine[i], Irp[pnpDir] = NONE,
             Irp' = [Irp EXCEPT ![pnpDir] = i], pnpIrp' = i,
             CancelRoutine' = [CancelRoutine EXCEPT ![i] = FALSE],
             bugcheck' = FALSE, pnp' = "timer", pnpDir' = pnpDir
      PROVE  OneThreadInv'
  <2>a. Live(i) /\ Accepted(i) /\ i \notin cancelling
    <3>1. PICK j \in Irps : Queue[pnpDir] = <<j>> /\ Live(j) /\ Accepted(j)
                            /\ (CancelRoutine[j] <=> j \notin cancelling)
      BY <1>e, <1>3, OneQueued DEF OneThreadInv, Owners
    <3>2. i = j
      BY <1>3, <3>1, OneQueued
    <3> QED BY <1>3, <3>1, <3>2
  <2>o. /\ \A j \in Irps : Live(j) <=> j = i
        /\ Operation = {DirOf[i]}
        /\ \A d \in Dirs : d # DirOf[i] => Vacant(d) /\ Length[d] = 0 /\ ~start[d] /\ ~done[d]
        /\ cancelling \subseteq {i} /\ \A j \in Irps : CancelRoutine[j] => j = i
    BY <2>a, OnlyLive
  <2>i. \A d \in Dirs : Irp'[d] = IF d = pnpDir THEN i ELSE NONE
    BY <1>e, <1>3, <2>o DEF Shapes, Vacant
  <2>q. \A d \in Dirs : Queue'[d] = <<>>
    BY <1>e, <1>3, <2>o DEF Vacant
  <2>c. cancelling' = {} /\ \A j \in Irps : ~CancelRoutine'[j]
    BY <1>u, <1>3, <2>o, <2>a DEF Shapes, CancelTypes
  <2>n. ~Started /\ DpcIdle /\ ~busy /\ ~dpcQueued
    <3>1. \A j \in Irps : Live(j) => Irp[DirOf[j]] # j /\ pc[j] \notin {"length", "current"}
      BY <1>3, <2>o, <2>a DEF Accepted, Shapes
    <3>2. ~Started
      BY <2>a, <3>1 DEF OneThreadInv, Mapped
    <3> QED BY <2>a, <3>1, <3>2 DEF OneThreadInv, Deferred
  <2>1. Owners'
    <3>1. \A d \in Dirs : Irp'[d] # NONE => Irp'[d] = i /\ d = DirOf[i]
      BY <1>3, <2>i
    <3>2. \A j \in Irps : Accepted(j)' /\ ~Finished(j)' => Irp'[DirOf[j]] = j
      BY <1>3, <1>l, <1>d, <2>o, <2>i DEF Live, Accepted
    <3>3. \A j \in Irps : Cancel'[j] => pc'[j] = "returned"
      BY <1>u DEF OneThreadInv, Owners
    <3>4. (\A d \in Dirs : Irp[d] # NONE =>
           /\ DirOf[Irp[d]] = d /\ Live(Irp[d]) /\ Accepted(Irp[d])
           /\ Irp[d] \notin cancelling /\ ~CancelRoutine[Irp[d]] /\ Queue[d] = <<>>)'
      BY <1>3, <1>u, <2>a, <2>q, <2>c, <3>1 DEF Live, Accepted, Finished
    <3> QED BY <2>q, <2>c, <3>2, <3>3, <3>4 DEF Owners
  <2>2. Mapped'
    <3>1. \A d \in Dirs : SGL'[d] = NONE
      BY <1>u, <1>3, <2>o DEF Vacant, OneThreadInv, Mapped, Shapes
    <3>2. ~Started' /\ \A d \in Dirs : ~start'[d] /\ ~done'[d]
      BY <1>u, <2>n DEF Started, OneThreadInv, Mapped
    <3>3. \A d \in Dirs : Length'[d] > 0 => Operation' = {d} /\ Irp'[d] # NONE
      BY <1>u, <1>3, <1>d, <2>o, <2>i DEF Shapes
    <3> QED BY <3>1, <3>2, <3>3 DEF Mapped
  <2>3. Deferred'
    BY <1>u, <2>n DEF OneThreadInv, Deferred, DpcIdle
  <2>4. Taken'
    <3>1. SGL'[pnpDir'] = NONE
      BY <1>u, <1>e, <1>3 DEF OneThreadInv, Mapped, Shapes
    <3>2. Irp'[pnpDir'] = pnpIrp'
      BY <1>e, <1>3, <2>i
    <3> QED BY <1>u, <2>n, <3>1, <3>2 DEF OneThreadInv, Taken, DpcIdle
  <2>5. Waiting'
    BY <1>3 DEF Waiting
  <2> QED BY <1>u, <1>1, <1>3, <2>1, <2>2, <2>3, <2>4, <2>5 DEF OneThreadInv
<1> QED BY <1>2, <1>3, RestartEffect

(* A removal finds the queues empty: only a stalled direction queues.      *)
LEMMA NothingQueued ==
  ASSUME Shapes, Plug, OneThreadInv, pnp = "cleanup"
  PROVE  \A d \in Dirs : Queue[d] = <<>> /\ NotCancelling(Queue[d]) = {}
<1>1. \A d \in Dirs : ~Stalled(d)
  BY DEF Stalled
<1>2. \A d \in Dirs : Queue[d] = <<>>
  BY <1>1 DEF Plug, OneThreadInv, Owners
<1> QED BY <1>2 DEF NotCancelling

(* So a removal completes nothing.                                         *)
LEMMA CleanupRequestsKeeps ==
  ASSUME Shapes, Plug, OneThreadInv, CleanupRequests PROVE OneThreadInv'
<1>n. pnp = "cleanup" /\ NotCancelling(Queue[pnpDir]) = {}
  BY NothingQueued DEF CleanupRequests, Shapes, PnpTypes
<1>c. CancelRoutine' = CancelRoutine
  BY <1>n DEF CleanupRequests, Shapes, CancelTypes
<1>o. Status' = Status /\ completions' = completions
  BY <1>n DEF CleanupRequests, Shapes, OutcomeTypes
<1>u. /\ UNCHANGED <<slot, QueueLock, xfer, SGL, gate, clock, pc, Cancel, cancelling, dpcVars, pnpIrp, pnpDev,
                     addr, device, Operation, faults>>
      /\ pnp' \in {"abort", "removed"}
  BY <1>n DEF CleanupRequests, PnpNextDirection
<1>1. OneRequest' /\ Owners' /\ Mapped' /\ Deferred'
  <2>1. (Started' <=> Started) /\ (DpcIdle' <=> DpcIdle)
    BY <1>u DEF Started, DpcIdle
  <2> QED BY <1>u, <1>c, <1>o, <2>1, OneRequestStays, OwnersStay, MappedStays, DeferredStays DEF OneThreadInv
<1>2. Taken'
  BY <1>u, <1>n DEF OneThreadInv, Taken, Plug
<1>3. Waiting'
  BY <1>u DEF Waiting
<1> QED BY <1>u, <1>1, <1>2, <1>3 DEF OneThreadInv

(* Dispatch releases the lock; a completed request is not touched,         *)
LEMMA DispatchReleaseKeeps ==
  ASSUME Shapes, Plug, OneThreadInv, NEW i \in Irps, DispatchRelease(i) PROVE OneThreadInv'
<1>1. pc[i] \in {"release", "unlock"} /\ DirOf[i] \in Dirs
  BY DEF DispatchRelease, Shapes
<1>u. /\ UNCHANGED <<slot, xfer, SGL, gate, clock, cancels, outcome, dpcVars, pnpVars, addr, device,
                     Operation, faults>>
      /\ pc' = [pc EXCEPT ![i] = AfterRelease(pc[i])]
  BY DEF DispatchRelease
<1>p. /\ \A j \in Irps : j # i => pc'[j] = pc[j]
      /\ pc'[i] = IF pc[i] = "release" THEN "touch" ELSE "returned"
  BY <1>u, <1>1 DEF Shapes, CallTypes, AfterRelease
<1>f. \A j \in Irps : Finished(j)' <=> Finished(j)
  BY <1>u DEF Finished
<1>a. \A j \in Irps : InDispatch(j) \/ Live(j) => j = i
  BY <1>1 DEF OneThreadInv, OneRequest, InDispatch
<1>b. ~Started /\ DpcIdle /\ (Finished(i) <=> pc[i] = "unlock")
  BY <1>1 DEF OneThreadInv, OneRequest, InDispatch
<1>l. \A j \in Irps : (Live(j)' <=> Live(j)) /\ (InDispatch(j)' => j = i /\ pc[i] = "release")
  BY <1>a, <1>p, <1>f, <1>1 DEF Live, InDispatch
<1>2. OneRequest'
  <2>1. \A j \in Irps : ~Locked(j)'
    BY <1>a, <1>p DEF Locked, InDispatch
  <2>2. \A j \in Irps : /\ completions'[j] \in {0, 1} /\ (pc'[j] = "none" => ~Finished(j)')
                        /\ ~Finished(j)' => Status'[j] = "PENDING"
    BY <1>p, <1>f, <1>u DEF OneThreadInv, OneRequest
  <2>3. \A j \in Irps : InDispatch(j)' =>
       ~Started' /\ DpcIdle' /\ (Finished(j)' <=> pc'[j] = "unlock")
    BY <1>b, <1>u, <1>f, <1>l, <1>p DEF Started, DpcIdle
  <2>4. \A j \in Irps : Live(j)' => Operation' = {DirOf[j]}
    BY <1>l, <1>u DEF OneThreadInv, OneRequest
  <2> QED BY <1>l, <1>a, <2>1, <2>2, <2>3, <2>4 DEF OneRequest
<1>3. Owners'
  <2>1. \A j \in Irps : ~Finished(j) => (Accepted(j)' <=> Accepted(j))
    BY <1>1, <1>p, <1>b DEF Accepted
  <2>2. \A j \in Irps : Live(j) => (Accepted(j)' <=> Accepted(j))
    BY <2>1 DEF Live
  <2>3. \A j \in Irps : pc[j] = "returned" => pc'[j] = "returned"
    BY <1>1, <1>p
  <2>4. (\A d \in Dirs : Irp[d] # NONE =>
       /\ DirOf[Irp[d]] = d /\ Live(Irp[d]) /\ Accepted(Irp[d])
       /\ Irp[d] \notin cancelling /\ ~CancelRoutine[Irp[d]] /\ Queue[d] = <<>>)'
    <3>1. \A d \in Dirs : Irp[d] # NONE => Irp[d] = i
      BY <1>a DEF OneThreadInv, Owners, Shapes
    <3> QED BY <1>u, <1>l, <2>2, <3>1 DEF OneThreadInv, Owners, Live, Accepted, Finished
  <2>5. \A d \in Dirs : Queue'[d] # <<>> =>
       \E j \in Irps :
         /\ Queue'[d] = <<j>> /\ DirOf[j] = d /\ Live(j)' /\ Accepted(j)'
         /\ stallcount'[d] > 0 /\ (CancelRoutine'[j] <=> j \notin cancelling')
    BY <1>u, <1>l, <2>2 DEF OneThreadInv, Owners
  <2>6. (\A j \in Irps : Cancel'[j] => pc'[j] = "returned")
        /\ \A j \in cancelling' : Live(j)' /\ pc'[j] = "returned"
    BY <1>u, <1>l, <2>3 DEF OneThreadInv, Owners, Shapes, CancelTypes
  <2>7. /\ \A j \in Irps : CancelRoutine'[j] => Queue'[DirOf[j]] = <<j>>
        /\ \A j \in Irps : Accepted(j)' /\ ~Finished(j)' =>
             Irp'[DirOf[j]] = j \/ Queue'[DirOf[j]] = <<j>> \/ j \in cancelling'
    BY <1>u, <1>f, <2>1 DEF OneThreadInv, Owners
  <2> QED BY <2>4, <2>5, <2>6, <2>7 DEF Owners
<1>4. Mapped'
  <2>1. ~Started' /\ \A d \in Dirs : ~start'[d] /\ ~done'[d]
    BY <1>b, <1>u DEF Started, OneThreadInv, Mapped
  <2>2. \A d \in Dirs : Length'[d] > 0 => Operation' = {d} /\ Irp'[d] # NONE
    <3>1. \A j \in Irps : pc[j] # "current"
      BY <1>1, <1>a DEF InDispatch
    <3> QED BY <1>b, <1>u, <3>1 DEF OneThreadInv, Mapped, DpcIdle
  <2>3. \A d \in Dirs : SGL'[d] # NONE => Irp'[d] # NONE /\ SGL'[d][1] = Irp'[d] /\ addr'[d] = SGL'[d]
    BY <1>u DEF OneThreadInv, Mapped
  <2> QED BY <2>1, <2>2, <2>3 DEF Mapped
<1>5. Deferred'
  <2>1. DpcIdle' /\ dpc' = "idle" /\ ~dpcQueued'
    BY <1>b, <1>u DEF DpcIdle
  <2>2. busy' => \E j \in Irps : Live(j)' /\ Irp'[DirOf[j]] = j
    BY <1>u, <1>a, <1>l, <1>1 DEF OneThreadInv, Deferred, InDispatch
  <2> QED BY <1>u, <2>1, <2>2 DEF OneThreadInv, Deferred
<1>6. Taken'
  BY <1>u DEF OneThreadInv, Taken, DpcIdle
<1>7. Waiting'
  <2>1. \A d \in Dirs : Quiet(d) => Quiet(d)'
    BY <1>1, <1>u, <1>p DEF Quiet
  <2> QED BY <1>u, <2>1 DEF OneThreadInv, Waiting, Before, Shapes, PnpTypes
<1> QED BY <1>u, <1>2, <1>3, <1>4, <1>5, <1>6, <1>7 DEF OneThreadInv

(* ... and one that is marked pending is not completed.                    *)
LEMMA DispatchMarkPendingKeeps ==
  ASSUME Shapes, Plug, OneThreadInv, NEW i \in Irps, DispatchMarkPending(i) PROVE OneThreadInv'
<1>1. pc[i] = "touch" /\ DirOf[i] \in Dirs
  BY DEF DispatchMarkPending, Shapes
<1>a. \A j \in Irps : InDispatch(j) \/ Live(j) => j = i
  BY <1>1 DEF OneThreadInv, OneRequest, InDispatch
<1>b. ~Started /\ DpcIdle /\ ~Finished(i)
  BY <1>1 DEF OneThreadInv, OneRequest, InDispatch
<1>u. /\ UNCHANGED <<slot, QueueLock, xfer, SGL, gate, clock, cancels, outcome, dpcVars, pnpVars, addr,
                     device, Operation, faults>>
      /\ pc' = [pc EXCEPT ![i] = "returned"]
  BY <1>b DEF DispatchMarkPending
<1>p. \A j \in Irps : pc'[j] = IF j = i THEN "returned" ELSE pc[j]
  BY <1>u DEF Shapes, CallTypes
<1>f. \A j \in Irps : Finished(j)' <=> Finished(j)
  BY <1>u DEF Finished
<1>l. \A j \in Irps : (Live(j)' <=> Live(j)) /\ ~InDispatch(j)' /\ (Accepted(j)' <=> Accepted(j))
  BY <1>a, <1>p, <1>f, <1>1 DEF Live, InDispatch, Accepted
<1>2. OneRequest'
  <2>1. \A j \in Irps : ~Locked(j)'
    BY <1>l DEF Locked, InDispatch
  <2>2. \A j \in Irps : /\ completions'[j] \in {0, 1} /\ (pc'[j] = "none" => ~Finished(j)')
                        /\ ~Finished(j)' => Status'[j] = "PENDING"
    BY <1>p, <1>f, <1>u DEF OneThreadInv, OneRequest
  <2>3. \A j \in Irps : Live(j)' => Operation' = {DirOf[j]}
    BY <1>l, <1>u DEF OneThreadInv, OneRequest
  <2> QED BY <1>l, <1>a, <2>1, <2>2, <2>3 DEF OneRequest
<1>3. Owners'
  <2>1. \A j \in Irps : pc[j] = "returned" => pc'[j] = "returned"
    BY <1>p
  <2>2. (\A d \in Dirs : Irp[d] # NONE =>
       /\ DirOf[Irp[d]] = d /\ Live(Irp[d]) /\ Accepted(Irp[d])
       /\ Irp[d] \notin cancelling /\ ~CancelRoutine[Irp[d]] /\ Queue[d] = <<>>)'
    <3>1. \A d \in Dirs : Irp[d] # NONE => Irp[d] = i
      BY <1>a DEF OneThreadInv, Owners, Shapes
    <3> QED BY <1>u, <1>l, <3>1 DEF OneThreadInv, Owners, Live, Accepted, Finished
  <2>3. \A d \in Dirs : Queue'[d] # <<>> =>
       \E j \in Irps :
         /\ Queue'[d] = <<j>> /\ DirOf[j] = d /\ Live(j)' /\ Accepted(j)'
         /\ stallcount'[d] > 0 /\ (CancelRoutine'[j] <=> j \notin cancelling')
    BY <1>u, <1>l DEF OneThreadInv, Owners
  <2>4. (\A j \in Irps : Cancel'[j] => pc'[j] = "returned")
        /\ \A j \in cancelling' : Live(j)' /\ pc'[j] = "returned"
    BY <1>u, <1>l, <2>1 DEF OneThreadInv, Owners, Shapes, CancelTypes
  <2>5. /\ \A j \in Irps : CancelRoutine'[j] => Queue'[DirOf[j]] = <<j>>
        /\ \A j \in Irps : Accepted(j)' /\ ~Finished(j)' =>
             Irp'[DirOf[j]] = j \/ Queue'[DirOf[j]] = <<j>> \/ j \in cancelling'
    BY <1>u, <1>f, <1>l DEF OneThreadInv, Owners
  <2> QED BY <2>2, <2>3, <2>4, <2>5 DEF Owners
<1>4. Mapped'
  <2>1. ~Started' /\ \A d \in Dirs : ~start'[d] /\ ~done'[d]
    BY <1>b, <1>u DEF Started, OneThreadInv, Mapped
  <2>2. \A d \in Dirs : Length'[d] > 0 => Operation' = {d} /\ Irp'[d] # NONE
    <3>1. \A j \in Irps : pc[j] # "current"
      BY <1>1, <1>a DEF InDispatch
    <3> QED BY <1>b, <1>u, <3>1 DEF OneThreadInv, Mapped, DpcIdle
  <2>3. \A d \in Dirs : SGL'[d] # NONE => Irp'[d] # NONE /\ SGL'[d][1] = Irp'[d] /\ addr'[d] = SGL'[d]
    BY <1>u DEF OneThreadInv, Mapped
  <2> QED BY <2>1, <2>2, <2>3 DEF Mapped
<1>5. Deferred'
  <2>1. DpcIdle' /\ dpc' = "idle" /\ ~dpcQueued'
    BY <1>b, <1>u DEF DpcIdle
  <2>2. busy' => \E j \in Irps : Live(j)' /\ Irp'[DirOf[j]] = j
    BY <1>u, <1>a, <1>l, <1>1 DEF OneThreadInv, Deferred, InDispatch
  <2> QED BY <1>u, <2>1, <2>2 DEF OneThreadInv, Deferred
<1>6. Taken'
  BY <1>u DEF OneThreadInv, Taken, DpcIdle
<1>7. Waiting'
  <2>1. \A d \in Dirs : Quiet(d) => Quiet(d)'
    BY <1>1, <1>u, <1>p DEF Quiet
  <2> QED BY <1>u, <2>1 DEF OneThreadInv, Waiting, Before, Shapes, PnpTypes
<1> QED BY <1>u, <1>2, <1>3, <1>4, <1>5, <1>6, <1>7 DEF OneThreadInv

(* A cancellation takes the cancel routine of a queued request,            *)
LEMMA CancelIrpKeeps ==
  ASSUME OneThread, Shapes, Plug, OneThreadInv, NEW i \in Irps, CancelIrp(i) PROVE OneThreadInv'
<1>1. pc[i] = "returned" /\ ~Finished(i) /\ Live(i) /\ DirOf[i] \in Dirs
  BY OneThreadLacks DEF CancelIrp, Live, Shapes
<1>u. /\ UNCHANGED <<slot, QueueLock, xfer, SGL, gate, clock, pc, outcome, dpcVars, pnpVars, addr,
                     device, Operation, faults>>
      /\ Cancel' = [Cancel EXCEPT ![i] = TRUE] /\ CancelRoutine' = [CancelRoutine EXCEPT ![i] = FALSE]
      /\ cancelling' = IF CancelRoutine[i] THEN cancelling \cup {i} ELSE cancelling
  BY DEF CancelIrp
<1>a. /\ \A j \in Irps : Live(j) <=> j = i
      /\ \A d \in Dirs : d # DirOf[i] => Vacant(d)
      /\ cancelling \subseteq {i} /\ \A j \in Irps : CancelRoutine[j] => j = i
  BY <1>1, OnlyLive
<1>c. /\ \A j \in Irps : ~CancelRoutine'[j]
      /\ \A j \in Irps : Cancel'[j] => j = i \/ Cancel[j]
  BY <1>a, <1>u DEF Shapes, CancelTypes
<1>2. OneRequest' /\ Mapped' /\ Deferred'
  <2>1. (Started' <=> Started) /\ (DpcIdle' <=> DpcIdle)
    BY <1>u DEF Started, DpcIdle
  <2> QED BY <1>u, <2>1, OneRequestStays, MappedStays, DeferredStays DEF OneThreadInv
<1>3. Owners'
  <2>1. \A d \in Dirs : Irp[d] # NONE => ~CancelRoutine[i]
    BY <1>a DEF OneThreadInv, Owners, Shapes
  <2>2. (\A d \in Dirs : Irp[d] # NONE =>
       /\ DirOf[Irp[d]] = d /\ Live(Irp[d]) /\ Accepted(Irp[d])
       /\ Irp[d] \notin cancelling /\ ~CancelRoutine[Irp[d]] /\ Queue[d] = <<>>)'
    <3>1. \A d \in Dirs : Irp[d] # NONE => ~CancelRoutine'[Irp[d]]
      BY <1>c DEF Shapes
    <3> QED BY <1>u, <2>1, <3>1 DEF OneThreadInv, Owners, Live, Accepted, Finished
  <2>3. \A d \in Dirs : Queue'[d] # <<>> =>
       \E j \in Irps :
         /\ Queue'[d] = <<j>> /\ DirOf[j] = d /\ Live(j)' /\ Accepted(j)'
         /\ stallcount'[d] > 0 /\ (CancelRoutine'[j] <=> j \notin cancelling')
    <3> SUFFICES ASSUME NEW d \in Dirs, Queue'[d] # <<>>
                 PROVE  \E j \in Irps :
                          /\ Queue'[d] = <<j>> /\ DirOf[j] = d /\ Live(j)' /\ Accepted(j)'
                          /\ stallcount'[d] > 0 /\ (CancelRoutine'[j] <=> j \notin cancelling')
      OBVIOUS
    <3>1. PICK j \in Irps : /\ Queue[d] = <<j>> /\ DirOf[j] = d /\ Live(j) /\ Accepted(j)
                            /\ stallcount[d] > 0 /\ (CancelRoutine[j] <=> j \notin cancelling)
      BY <1>u DEF OneThreadInv, Owners
    <3>2. j = i /\ i \in cancelling'
      BY <1>a, <1>u, <3>1
    <3> QED BY <1>u, <1>c, <3>1, <3>2 DEF Live, Accepted, Finished
  <2>4. (\A j \in Irps : Cancel'[j] => pc'[j] = "returned")
        /\ \A j \in cancelling' : Live(j)' /\ pc'[j] = "returned"
    BY <1>1, <1>u, <1>c DEF OneThreadInv, Owners, Live, Finished
  <2>5. \A j \in Irps : Accepted(j)' /\ ~Finished(j)' =>
          Irp'[DirOf[j]] = j \/ Queue'[DirOf[j]] = <<j>> \/ j \in cancelling'
    BY <1>u DEF OneThreadInv, Owners, Accepted, Finished
  <2> QED BY <1>c, <2>2, <2>3, <2>4, <2>5 DEF Owners
<1>4. Taken' /\ Waiting'
  BY <1>u, WaitingStays DEF OneThreadInv, Taken, DpcIdle
<1> QED BY <1>u, <1>2, <1>3, <1>4 DEF OneThreadInv

(* ... which takes the request off the queue and completes it.             *)
LEMMA CancelRequestKeeps ==
  ASSUME Shapes, Plug, OneThreadInv, NEW i \in Irps, CancelRequest(i) PROVE OneThreadInv'
<1>1. i \in cancelling /\ Live(i) /\ pc[i] = "returned" /\ DirOf[i] \in Dirs
  BY DEF CancelRequest, OneThreadInv, Owners, Shapes
<1>u. /\ UNCHANGED <<Irp, QueueLock, xfer, SGL, gate, clock, pc, Cancel, CancelRoutine, dpcVars,
                     pnpVars, addr, device, Operation, faults>>
      /\ cancelling' = cancelling \ {i}
      /\ Queue' = [Queue EXCEPT ![DirOf[i]] = RemoveFirst(Queue[DirOf[i]], i)]
      /\ Complete(i, "CANCELLED")
  BY DEF CancelRequest
<1>o. /\ \A j \in Irps : Live(j) <=> j = i
      /\ \A d \in Dirs : d # DirOf[i] => Vacant(d)
      /\ Irp[DirOf[i]] \in {i, NONE} /\ Queue[DirOf[i]] \in {<<i>>, <<>>}
      /\ cancelling \subseteq {i} /\ \A j \in Irps : CancelRoutine[j] => j = i
  BY <1>1, OnlyLive
<1>n. \A d \in Dirs : Irp[d] = NONE /\ SGL[d] = NONE
  <2>1. Irp[DirOf[i]] # i
    BY <1>1 DEF OneThreadInv, Owners, Shapes
  <2>2. \A d \in Dirs : Irp[d] = NONE
    BY <1>o, <2>1 DEF Vacant
  <2> QED BY <2>2 DEF OneThreadInv, Mapped
<1>q. \A d \in Dirs : Queue'[d] = <<>>
  BY <1>1, <1>o, <1>u, OneRemoved DEF Vacant, Shapes
<1>c. cancelling' = {} /\ \A j \in Irps : ~CancelRoutine'[j]
  <2>1. ~CancelRoutine[i]
    <3>1. CASE Queue[DirOf[i]] = <<>>
      BY <1>1, <3>1, OneQueued DEF OneThreadInv, Owners
    <3>2. CASE Queue[DirOf[i]] = <<i>>
      <4>1. PICK j \in Irps : Queue[DirOf[i]] = <<j>> /\ (CancelRoutine[j] <=> j \notin cancelling)
        BY <1>1, <3>2, OneQueued DEF OneThreadInv, Owners
      <4>2. j = i
        BY <3>2, <4>1, OneQueued
      <4> QED BY <1>1, <4>1, <4>2
    <3> QED BY <1>o, <3>1, <3>2
  <2> QED BY <1>o, <1>u, <2>1
<1>f. /\ \A j \in Irps : completions'[j] = IF j = i THEN 1 ELSE completions[j]
      /\ \A j \in Irps : Finished(j)' <=> (j = i \/ Finished(j))
  <2>1. completions[i] = 0
    BY <1>1 DEF OneThreadInv, OneRequest, Live, Finished
  <2>2. \A j \in Irps : completions'[j] = IF j = i THEN completions[j] + 1 ELSE completions[j]
    BY <1>u DEF Complete, Shapes, OutcomeTypes
  <2> QED BY <2>1, <2>2 DEF Finished
<1>s. \A j \in Irps : Status'[j] = IF j = i THEN "CANCELLED" ELSE Status[j]
  BY <1>u DEF Complete, Shapes, OutcomeTypes
<1>l. \A j \in Irps : ~Live(j)' /\ ~InDispatch(j) /\ ~InDispatch(j)'
  <2>1. \A j \in Irps : ~InDispatch(j)
    BY <1>1 DEF OneThreadInv, OneRequest, InDispatch
  <2> QED BY <1>o, <1>u, <1>f, <2>1 DEF Live, InDispatch
<1>r. ~Started /\ ~busy /\ ~dpcQueued
  <2>1. \A j \in Irps : Live(j) => Irp[DirOf[j]] # j
    BY <1>n, <1>1 DEF Shapes
  <2> QED BY <1>1, <1>l, <2>1 DEF OneThreadInv, Mapped, Deferred, InDispatch
<1>2. OneRequest'
  <2>1. \A j \in Irps : ~Locked(j)'
    BY <1>l DEF Locked, InDispatch
  <2>2. \A j \in Irps : /\ completions'[j] \in {0, 1} /\ (pc'[j] = "none" => ~Finished(j)')
                        /\ ~Finished(j)' => Status'[j] = "PENDING"
    BY <1>1, <1>u, <1>f, <1>s DEF OneThreadInv, OneRequest
  <2> QED BY <1>l, <2>1, <2>2 DEF OneRequest
<1>3. Owners'
  <2>1. \A j \in Irps : Accepted(j)' => Finished(j)'
    BY <1>l DEF Live, Accepted
  <2>2. \A j \in Irps : Cancel'[j] => pc'[j] = "returned"
    BY <1>u DEF OneThreadInv, Owners
  <2>3. \A d \in Dirs : Irp'[d] = NONE
    BY <1>n, <1>u
  <2> QED BY <1>q, <1>c, <2>1, <2>2, <2>3 DEF Owners
<1>4. Mapped'
  <2>1. ~Started' /\ \A d \in Dirs : SGL'[d] = NONE /\ ~start'[d] /\ ~done'[d]
    BY <1>r, <1>n, <1>u DEF Started, OneThreadInv, Mapped
  <2>3. \A d \in Dirs : Length'[d] > 0 => Operation' = {d} /\ dpc' = "reset" /\ dpcDir' = d
    BY <1>n, <1>l, <1>u DEF OneThreadInv, Mapped, InDispatch
  <2> QED BY <2>1, <2>3 DEF Mapped
<1>5. Deferred'
  BY <1>r, <1>u, <1>l, <1>n DEF OneThreadInv, Deferred, HasDone
<1>6. Taken' /\ Waiting'
  BY <1>u, WaitingStays DEF OneThreadInv, Taken, DpcIdle
<1> QED BY <1>u, <1>2, <1>3, <1>4, <1>5, <1>6 DEF OneThreadInv

(* The interrupt and the timer routine clear busy and queue the DPC: what  *)
(* keeps them from doing it too early is the same.                         *)
LEMMA QueueDpcKeeps ==
  ASSUME Shapes, Plug, OneThreadInv, busy, ~busy', dpcQueued', HasDone',
         \A i \in Irps : Live(i) => Accepted(i) /\ ~InDispatch(i), pnp \notin {"length", "current"},
         "timeout" \notin Env => iotimeout' = iotimeout,
         UNCHANGED <<slot, QueueLock, xfer, SGL, gate, pc, cancels, outcome, dpc, dpcDir, dpcIrp,
                     pnpVars, addr, start, done, target, moved, Operation, faults>>
  PROVE  OneThreadInv'
<1>1. PICK i \in Irps : Live(i) /\ Irp[DirOf[i]] = i
  BY DEF OneThreadInv, Deferred, Accepted
<1>l. \A j \in Irps : Live(j) <=> j = i
  BY <1>1 DEF OneThreadInv, OneRequest
<1>d. \A j \in Irps : ~InDispatch(j)
  BY <1>1 DEF OneThreadInv, OneRequest
<1>t. pnpIrp = NONE
  BY DEF OneThreadInv, Taken, Plug
<1>2. OneRequest'
  BY <1>d DEF OneThreadInv, OneRequest, Live, InDispatch, Locked, Finished
<1>3. Owners' /\ Mapped'
  BY OwnersStay DEF OneThreadInv, Mapped, Live, Finished, Started
<1>4. Deferred'
  <2>1. \A j \in Irps : Live(j)' <=> j = i
    BY <1>l DEF Live, Finished
  <2>2. Irp'[DirOf[i]] = i
    BY <1>1
  <2> QED BY <2>1, <2>2 DEF OneThreadInv, Deferred, DpcIdle
<1>5. Taken' /\ Waiting'
  BY <1>t, WaitingStays DEF OneThreadInv, Taken
<1> QED BY <1>2, <1>3, <1>4, <1>5 DEF OneThreadInv

(* The interrupt routine finds a direction that is done,                   *)
LEMMA BDMA_IsrKeeps ==
  ASSUME Shapes, Plug, OneThreadInv, BDMA_Isr PROVE OneThreadInv'
<1>u. UNCHANGED <<slot, QueueLock, xfer, SGL, gate, iotimeout, pc, cancels, outcome, dpc, dpcDir,
                  dpcIrp, pnpVars, addr, start, done, target, moved, Operation, faults>>
  BY DEF BDMA_Isr
<1>1. CASE InterruptIsOurs
  <2>1. busy /\ HasDone /\ Started
    BY <1>1 DEF InterruptIsOurs, HasDone, Started, OneThreadInv, Mapped
  <2>2. \A i \in Irps : Live(i) => Accepted(i) /\ ~InDispatch(i) /\ pnpIrp = NONE
    BY <2>1 DEF OneThreadInv, Mapped, Accepted, InDispatch
  <2>3. \E i \in Irps : Live(i)
    BY <2>1 DEF OneThreadInv, Deferred
  <2>4. pnp \notin {"length", "current"}
    BY <2>2, <2>3 DEF Plug
  <2>5. ~busy' /\ dpcQueued' /\ HasDone'
    BY <1>1, <1>u, <2>1 DEF BDMA_Isr, HasDone
  <2> QED BY <1>u, <2>1, <2>2, <2>4, <2>5, QueueDpcKeeps
<1>2. CASE ~InterruptIsOurs
  <2>1. UNCHANGED <<busy, dpcQueued>>
    BY <1>2 DEF BDMA_Isr
  <2>2. OneRequest' /\ Owners'
    <3>1. (Started' <=> Started) /\ (DpcIdle' <=> DpcIdle)
      BY <1>u, <2>1 DEF Started, DpcIdle
    <3> QED BY <1>u, <3>1, OneRequestStays, OwnersStay DEF OneThreadInv
  <2>3. Mapped'
    BY <1>u DEF OneThreadInv, Mapped, Live, Finished, Started
  <2>4. Deferred'
    BY <1>u, <2>1, DeferredStays DEF OneThreadInv
  <2>5. Taken' /\ Waiting'
    BY <1>u, <2>1, WaitingStays DEF OneThreadInv, Taken, DpcIdle
  <2> QED BY <1>u, <2>2, <2>3, <2>4, <2>5 DEF OneThreadInv
<1> QED BY <1>1, <1>2

(* ... the timer routine a request that has not been started again.        *)
LEMMA CheckTimerKeeps ==
  ASSUME OneThread, Shapes, Plug, OneThreadInv, CheckTimer PROVE OneThreadInv'
<1>u. UNCHANGED <<slot, QueueLock, xfer, SGL, gate, pc, cancels, outcome, dpc, dpcDir, dpcIrp,
                  pnpVars, addr, device, Operation, faults>>
  BY DEF CheckTimer
<1>t. "timeout" \in Env /\ ~Starting
  BY OneThreadLacks DEF CheckTimer, TickPossible
<1>1. CASE busy
  <2>1. ~busy' /\ dpcQueued' /\ HasDone'
    BY <1>1 DEF CheckTimer, Expire, HasDone
  <2>2. \A i \in Irps : Live(i) => Accepted(i) /\ ~InDispatch(i)
    <3>1. PICK i \in Irps : Live(i) /\ Irp[DirOf[i]] = i
      BY <1>t, <1>1 DEF OneThreadInv, Deferred, Starting
    <3>2. Accepted(i)
      BY <3>1 DEF OneThreadInv, Owners, Shapes
    <3>3. ~InDispatch(i)
      BY <1>t, <3>2 DEF Starting, InDispatch, Accepted
    <3>4. \A j \in Irps : Live(j) => j = i
      BY <3>1 DEF OneThreadInv, OneRequest
    <3> QED BY <3>2, <3>3, <3>4
  <2>3. pnp \notin {"length", "current"}
    BY <1>t DEF Starting
  <2> QED BY <1>u, <1>t, <1>1, <2>1, <2>2, <2>3, QueueDpcKeeps
<1>2. CASE ~busy
  <2>1. UNCHANGED <<busy, iotimeout, dpcQueued>>
    BY <1>2 DEF CheckTimer
  <2>2. OneRequest' /\ Owners' /\ Mapped' /\ Deferred'
    <3>1. (Started' <=> Started) /\ (DpcIdle' <=> DpcIdle)
      BY <1>u, <2>1 DEF Started, DpcIdle
    <3> QED BY <1>u, <2>1, <3>1, OneRequestStays, OwnersStay, MappedStays, DeferredStays DEF OneThreadInv
  <2>3. Taken' /\ Waiting'
    BY <1>u, <2>1, WaitingStays DEF OneThreadInv, Taken, DpcIdle
  <2> QED BY <1>u, <2>2, <2>3 DEF OneThreadInv
<1> QED BY <1>1, <1>2 DEF Shapes

(* While the DPC runs, nothing is dispatched and nothing restarted.        *)
LEMMA DpcAlone ==
  ASSUME Shapes, Plug, OneThreadInv, ~DpcIdle
  PROVE  /\ \A i \in Irps : ~InDispatch(i) /\ (Live(i) => Irp[DirOf[i]] = i)
         /\ pnpIrp = NONE /\ pnp \notin {"timer", "length", "current"}
BY DEF OneThreadInv, OneRequest, Deferred, Taken, Plug

(* The DPC begins,                                                         *)
LEMMA DpcBeginKeeps ==
  ASSUME Shapes, Plug, OneThreadInv, DpcBegin PROVE OneThreadInv'
<1>u. /\ UNCHANGED <<slot, QueueLock, xfer, SGL, gate, clock, pc, cancels, outcome, dpcIrp, pnpVars,
                     addr, device, Operation, faults>>
      /\ dpcQueued /\ dpc = "idle" /\ dpc' = "test" /\ ~dpcQueued'
  BY DEF DpcBegin
<1>a. /\ \A i \in Irps : ~InDispatch(i) /\ (Live(i) => Irp[DirOf[i]] = i)
      /\ pnpIrp = NONE
  BY <1>u, DpcAlone DEF DpcIdle
<1>1. OneRequest' /\ Owners' /\ Mapped'
  <2>1. Started' <=> Started
    BY <1>u DEF Started
  <2> QED BY <1>u, <1>a, <2>1, OneRequestStays, OwnersStay, MappedStays DEF OneThreadInv
<1>2. Deferred'
  <2>1. ~busy /\ HasDone
    BY <1>u DEF OneThreadInv, Deferred
  <2>2. \A i \in Irps : Live(i)' <=> Live(i)
    BY <1>u DEF Live, Finished
  <2>3. HasDone'
    BY <1>u, <2>1 DEF HasDone
  <2> QED BY <1>u, <1>a, <2>1, <2>2, <2>3 DEF OneThreadInv, Deferred
<1>3. Taken' /\ Waiting'
  BY <1>u, <1>a, WaitingStays DEF OneThreadInv, Taken
<1> QED BY <1>u, <1>1, <1>2, <1>3 DEF OneThreadInv

(* The DPC goes on to the next direction, or ends.                         *)
LEMMA NextDirectionKeeps ==
  ASSUME Shapes, Plug, OneThreadInv, ~DpcIdle, dpc # "reset", DpcNextDirection,
         dpc = "test" \/ (\A d \in Dirs : ~(Length[d] > 0)) \/ Length[PnpFirst] = 0 \/ dpcDir = PnpFirst,
         UNCHANGED <<slot, QueueLock, xfer, gate, clock, pc, cancels, outcome, dpcQueued,
                     pnpVars, device, Operation, faults>>,
         Mapped', Waiting'
  PROVE  OneThreadInv'
<1>a. /\ \A i \in Irps : ~InDispatch(i) /\ (Live(i) => Irp[DirOf[i]] = i)
      /\ pnpIrp = NONE
  BY DpcAlone
<1>n. dpc' = "idle" \/ (dpc' = "test" /\ dpcDir' = PnpFirst /\ dpcDir # PnpFirst)
  BY DEF DpcNextDirection
<1>1. OneRequest' /\ Owners'
  <2>1. Started' <=> Started
    BY DEF Started
  <2> QED BY <1>a, <2>1, OneRequestStays, OwnersStay DEF OneThreadInv
<1>2. Deferred'
  <2>1. \A i \in Irps : Live(i)' <=> Live(i)
    BY DEF Live, Finished
  <2>2. HasDone' <=> HasDone
    BY DEF HasDone
  <2>3. dpc' = "test" /\ Length'[PnpFirst] > 0 => dpc = "test" /\ Length[PnpFirst] > 0
    BY <1>n DEF Shapes
  <2> QED BY <1>a, <1>n, <2>1, <2>2, <2>3 DEF OneThreadInv, Deferred
<1>3. Taken'
  BY <1>a DEF OneThreadInv, Taken
<1> QED BY <1>1, <1>2, <1>3 DEF OneThreadInv

(* ... passes over a direction without a length,                           *)
LEMMA DpcSkipKeeps ==
  ASSUME Shapes, Plug, OneThreadInv, DpcSkip PROVE OneThreadInv'
<1>u. /\ UNCHANGED <<slot, QueueLock, xfer, SGL, gate, clock, pc, cancels, outcome, dpcQueued, dpcIrp,
                     pnpVars, addr, device, Operation, faults>>
      /\ dpc = "test" /\ DpcNextDirection
  BY DEF DpcSkip
<1>1. ~DpcIdle
  BY <1>u DEF DpcIdle
<1>2. Mapped' /\ Waiting'
  BY <1>u, MappedStays, WaitingStays DEF OneThreadInv
<1> QED BY <1>u, <1>1, <1>2, NextDirectionKeeps

(* ... or finds the queue empty.                                           *)
LEMMA DpcLookAtQueueKeeps ==
  ASSUME Shapes, Plug, OneThreadInv, DpcLookAtQueue PROVE OneThreadInv'
<1>u. /\ UNCHANGED <<slot, QueueLock, xfer, SGL, gate, clock, pc, cancels, outcome, dpcQueued, dpcIrp,
                     pnpVars, addr, device, Operation, faults>>
      /\ dpc = "queue"
  BY DEF DpcLookAtQueue
<1>1. ~DpcIdle
  BY <1>u DEF DpcIdle
<1>2. \A i \in Irps : ~Live(i)
  BY <1>u DEF OneThreadInv, Deferred
<1>3. \A d \in Dirs : Queue[d] = <<>> /\ ~(Length[d] > 0)
  BY <1>u, <1>2, NobodyLive DEF Vacant
<1>4. DpcNextDirection
  BY <1>3 DEF DpcLookAtQueue, Shapes, DpcTypes
<1>5. Mapped' /\ Waiting'
  BY <1>u, MappedStays, WaitingStays DEF OneThreadInv
<1> QED BY <1>u, <1>1, <1>3, <1>4, <1>5, NextDirectionKeeps

(* The DPC maps the next part of the buffer and goes on.                   *)
LEMMA DpcCurrentKeeps ==
  ASSUME OneThread, Shapes, Plug, OneThreadInv, DpcCurrent PROVE OneThreadInv'
<1>u. /\ UNCHANGED <<Queue, QueueLock, xfer, gate, clock, pc, cancels, outcome, dpcQueued, pnpVars,
                     device, Operation, faults>>
      /\ dpc = "current" /\ dpcIrp' = NONE /\ DpcNextDirection
      /\ Irp' = [Irp EXCEPT ![dpcDir] = dpcIrp]
      /\ SGL' = [SGL EXCEPT ![dpcDir] = <<dpcIrp, Offset[dpcDir]>>]
      /\ addr' = [addr EXCEPT ![dpcDir] = <<dpcIrp, Offset[dpcDir]>>]
  BY OneThreadLacks DEF DpcCurrent, StartCurrent
<1>1. ~DpcIdle
  BY <1>u DEF DpcIdle
<1>2. dpcIrp = Irp[dpcDir] /\ Irp[dpcDir] # NONE /\ dpcDir \in Dirs /\ dpcIrp \in Irps
  BY <1>u DEF OneThreadInv, Deferred, Shapes, DpcTypes
<1>s. Irp' = Irp
  BY <1>u, <1>2 DEF Shapes
<1>i. Live(dpcIrp) /\ DirOf[dpcIrp] = dpcDir
  BY <1>2 DEF OneThreadInv, Owners
<1>3. Length[PnpFirst] = 0 \/ dpcDir = PnpFirst
  BY <1>2, <1>i, OnlyLive DEF Shapes
<1>4. Mapped'
  <2>1. \A d \in Dirs : /\ SGL'[d] = IF d = dpcDir THEN <<Irp[d], Offset[d]>> ELSE SGL[d]
                        /\ addr'[d] = IF d = dpcDir THEN <<Irp[d], Offset[d]>> ELSE addr[d]
    BY <1>u, <1>2 DEF Shapes
  <2>2. \A d \in Dirs : SGL'[d] # NONE => Irp'[d] # NONE /\ SGL'[d][1] = Irp'[d] /\ addr'[d] = SGL'[d]
    <3> SUFFICES ASSUME NEW d \in Dirs, SGL'[d] # NONE
                 PROVE  Irp'[d] # NONE /\ SGL'[d][1] = Irp'[d] /\ addr'[d] = SGL'[d]
      OBVIOUS
    <3>1. CASE d = dpcDir
      <4>1. SGL'[d] = <<Irp[d], Offset[d]>> /\ addr'[d] = <<Irp[d], Offset[d]>>
        BY <2>1, <3>1
      <4> QED BY <1>s, <1>2, <3>1, <4>1
    <3>2. CASE d # dpcDir
      BY <1>s, <2>1, <3>2 DEF OneThreadInv, Mapped
    <3> QED BY <3>1, <3>2
  <2>3. \A d \in Dirs : start'[d] /\ ~done'[d] =>
          target'[d] # NONE
          /\ ("timeout" \notin Env => SGL'[d] = target'[d] /\ Irp'[d] = target'[d][1])
    <3>1. SGL[dpcDir] = NONE
      BY <1>u DEF OneThreadInv, Deferred
    <3> QED BY <1>u, <1>s, <2>1, <3>1 DEF OneThreadInv, Mapped
  <2>4. \A i \in Irps : Live(i)' /\ Started' =>
          /\ Irp'[DirOf[i]] = i /\ pnpIrp' = NONE /\ pc'[i] = "returned"
          /\ target'[DirOf[i]] # NONE /\ target'[DirOf[i]][1] = i
    BY <1>u, <1>s DEF OneThreadInv, Mapped, Live, Started, Finished
  <2>5. \A d \in Dirs : Length'[d] > 0 =>
       /\ Operation' = {d}
       /\ \/ Irp'[d] # NONE
          \/ \E i \in Irps : DirOf[i] = d /\ pc'[i] = "current"
    BY <1>u, <1>s DEF OneThreadInv, Mapped
  <2>6. /\ \A d \in Dirs : done'[d] => start'[d]
        /\ \A d \in Dirs : start'[d] => Operation' = {d}
    BY <1>u DEF OneThreadInv, Mapped
  <2> QED BY <2>2, <2>3, <2>4, <2>5, <2>6 DEF Mapped
<1>5. Waiting'
  <2>1. ~Quiet(dpcDir)
    BY <1>2 DEF Quiet
  <2>2. \A d \in Dirs : Quiet(d) => Quiet(d)'
    BY <1>u, <1>s, <1>2, <2>1 DEF Quiet, Shapes
  <2> QED BY <1>u, <2>2 DEF OneThreadInv, Waiting, Before, Shapes, PnpTypes
<1> QED BY <1>u, <1>s, <1>1, <1>3, <1>4, <1>5, NextDirectionKeeps

(* A direction with a length has a current request that has ended.         *)
LEMMA DpcWithIrp ==
  ASSUME Shapes, Plug, OneThreadInv, PassDone
  PROVE  /\ dpcDir \in Dirs /\ Irp[dpcDir] \in Irps /\ DirOf[Irp[dpcDir]] = dpcDir
         /\ Live(Irp[dpcDir]) /\ ~busy /\ ~dpcQueued
         /\ iotimeout \/ (done[dpcDir] /\ target[dpcDir] # NONE /\ target[dpcDir][1] = Irp[dpcDir])
         /\ \A d \in Dirs : start[d] => d = dpcDir
<1>1. dpcDir \in Dirs /\ dpc = "test" /\ Length[dpcDir] > 0 /\ ~DpcIdle
  BY DEF PassDone, Shapes, DpcTypes, DpcIdle
<1>2. Irp[dpcDir] # NONE /\ Operation = {dpcDir}
  <2>1. \A i \in Irps : pc[i] # "current"
    BY <1>1, DpcAlone DEF InDispatch
  <2> QED BY <1>1, <2>1 DEF OneThreadInv, Mapped
<1>3. Irp[dpcDir] \in Irps /\ DirOf[Irp[dpcDir]] = dpcDir /\ Live(Irp[dpcDir])
  BY <1>1, <1>2 DEF OneThreadInv, Owners, Shapes
<1>4. ~busy /\ ~dpcQueued /\ HasDone
  BY <1>1 DEF OneThreadInv, Deferred
<1>5. \A d \in Dirs : start[d] => d = dpcDir
  BY <1>2 DEF OneThreadInv, Mapped
<1>6. iotimeout \/ (done[dpcDir] /\ target[dpcDir] # NONE /\ target[dpcDir][1] = Irp[dpcDir])
  <2> SUFFICES ASSUME ~iotimeout
               PROVE  done[dpcDir] /\ target[dpcDir] # NONE /\ target[dpcDir][1] = Irp[dpcDir]
    OBVIOUS
  <2>1. PICK d \in Dirs : done[d]
    BY <1>4 DEF HasDone
  <2>2. start[d]
    BY <2>1 DEF OneThreadInv, Mapped
  <2>3. d = dpcDir
    BY <1>5, <2>2
  <2>4. target[dpcDir] # NONE /\ target[dpcDir][1] = Irp[dpcDir]
    BY <1>3, <2>2 DEF OneThreadInv, Mapped, Started
  <2> QED BY <2>1, <2>2, <2>3, <2>4
<1> QED BY <1>1, <1>3, <1>4, <1>5, <1>6

(* The DPC never misses its request.                                       *)
LEMMA DpcWithoutIrpKeeps ==
  ASSUME Shapes, Plug, OneThreadInv, DpcWithoutIrp PROVE FALSE
BY DpcWithIrp DEF DpcWithoutIrp, Shapes

(* The DPC completes the request: nothing of it is left,                   *)
LEMMA DpcCompleteKeeps ==
  ASSUME Shapes, Plug, OneThreadInv, DpcComplete PROVE OneThreadInv'
<1> DEFINE d == dpcDir
           i == Irp[dpcDir]
<1>1. PassDone /\ dpc = "test" /\ ~DpcIdle
  BY DEF DpcComplete, PassDone, DpcIdle
<1>2. /\ d \in Dirs /\ i \in Irps /\ DirOf[i] = d /\ Live(i) /\ ~busy /\ ~dpcQueued
      /\ iotimeout \/ done[d]
      /\ \A e \in Dirs : start[e] => e = d
  BY <1>1, DpcWithIrp
<1>o. /\ \A j \in Irps : Live(j) <=> j = i
      /\ Operation = {d}
      /\ \A e \in Dirs : e # d => Vacant(e) /\ Length[e] = 0
      /\ \A j \in Irps : CancelRoutine[j] => j = i
  BY <1>2, OnlyLive
<1>w. i \notin cancelling /\ ~CancelRoutine[i] /\ Queue[d] = <<>> /\ cancelling \subseteq {i}
  BY <1>2, OnlyLive DEF OneThreadInv, Owners, Shapes
<1>a. /\ \A j \in Irps : ~InDispatch(j)
      /\ pnpIrp = NONE
  BY <1>1, DpcAlone
<1>u. /\ UNCHANGED <<Queue, QueueLock, Length, TotalLength, stallcount, abortstatus, timer, busy, pc,
                     cancels, dpcQueued, dpcDir, dpcIrp, pnpVars, addr, device, Operation, faults>>
      /\ SGL' = [SGL EXCEPT ![d] = NONE] /\ Irp' = [Irp EXCEPT ![d] = NONE]
      /\ evStop' = [evStop EXCEPT ![d] = TRUE]
      /\ Complete(i, IF iotimeout THEN "IO_TIMEOUT" ELSE "SUCCESS")
      /\ iotimeout' = FALSE /\ dpc' = "reset"
  BY DEF DpcComplete, SignalStop
<1> HIDE DEF d, i
<1>n. \A e \in Dirs : Irp'[e] = NONE /\ SGL'[e] = NONE /\ Queue'[e] = <<>>
  <2>1. \A e \in Dirs : e # d => Irp[e] = NONE /\ SGL[e] = NONE /\ Queue[e] = <<>>
    BY <1>o DEF Vacant
  <2>2. Irp \in [Dirs -> Irps \cup {NONE}] /\ SGL \in [Dirs -> Passes \cup {NONE}]
    BY DEF Shapes
  <2> QED BY <1>u, <1>w, <2>1, <2>2
<1>c. cancelling' = {} /\ \A j \in Irps : ~CancelRoutine'[j]
  BY <1>o, <1>u, <1>w
<1>f. /\ \A j \in Irps : completions'[j] = IF j = i THEN 1 ELSE completions[j]
      /\ \A j \in Irps : Finished(j)' <=> (j = i \/ Finished(j))
  <2>1. completions[i] = 0
    BY <1>2 DEF OneThreadInv, OneRequest, Live, Finished
  <2>2. \A j \in Irps : completions'[j] = IF j = i THEN completions[j] + 1 ELSE completions[j]
    BY <1>u DEF Complete, Shapes, OutcomeTypes
  <2> QED BY <2>1, <2>2 DEF Finished
<1>s. \A j \in Irps : /\ j # i => Status'[j] = Status[j]
                      /\ j = i => Status'[j] = IF iotimeout THEN "IO_TIMEOUT" ELSE "SUCCESS"
  BY <1>u DEF Complete, Shapes, OutcomeTypes
<1>l. \A j \in Irps : ~Live(j)' /\ ~InDispatch(j)'
  BY <1>o, <1>a, <1>u, <1>f DEF Live, InDispatch
<1>3. OneRequest'
  <2>1. \A j \in Irps : ~Locked(j)'
    BY <1>l DEF Locked, InDispatch
  <2>2. pc[i] # "none"
    BY <1>2 DEF Live
  <2>3. \A j \in Irps : /\ completions'[j] \in {0, 1} /\ (pc'[j] = "none" => ~Finished(j)')
                        /\ ~Finished(j)' => Status'[j] = "PENDING"
    BY <1>u, <1>f, <1>s, <2>2 DEF OneThreadInv, OneRequest
  <2> QED BY <1>l, <2>1, <2>3 DEF OneRequest
<1>4. Owners'
  <2>1. \A j \in Irps : Accepted(j)' => Finished(j)'
    BY <1>l DEF Live, Accepted
  <2>2. \A j \in Irps : Cancel'[j] => pc'[j] = "returned"
    BY <1>u DEF OneThreadInv, Owners
  <2> QED BY <1>n, <1>c, <2>1, <2>2 DEF Owners
<1>5. Mapped'
  <2>1. \A e \in Dirs : start'[e] /\ ~done'[e] => target'[e] # NONE /\ "timeout" \in Env
    <3>1. "timeout" \notin Env => done[d]
      BY <1>2 DEF OneThreadInv, Deferred
    <3> QED BY <1>2, <1>u, <3>1 DEF OneThreadInv, Mapped
  <2>2. \A e \in Dirs : Length'[e] > 0 => Operation' = {e} /\ dpc' = "reset" /\ dpcDir' = e
    <3>1. \A e \in Dirs : Length[e] > 0 => e = d
      BY <1>o
    <3> QED BY <1>o, <1>u, <3>1 DEF d
  <2>4. /\ \A e \in Dirs : done'[e] => start'[e]
        /\ \A e \in Dirs : start'[e] => Operation' = {e}
    BY <1>u DEF OneThreadInv, Mapped
  <2> QED BY <1>n, <1>l, <2>1, <2>2, <2>4 DEF Mapped
<1>6. Deferred'
  BY <1>2, <1>l, <1>u DEF Deferred
<1>7. Taken'
  BY <1>a, <1>2, <1>u DEF OneThreadInv, Taken
<1>8. Waiting'
  <2>1. \A e \in Dirs : Quiet(e)'
    BY <1>n, <1>l DEF Quiet, InDispatch
  <2> QED BY <1>u, <2>1 DEF Waiting, Before, Shapes, PnpTypes
<1> QED BY <1>u, <1>3, <1>4, <1>5, <1>6, <1>7, <1>8 DEF OneThreadInv

(* ... or releases the buffer and goes on with the rest of it.             *)
LEMMA DpcMoreKeeps ==
  ASSUME Shapes, Plug, OneThreadInv, DpcMore PROVE OneThreadInv'
<1>1. PassDone /\ dpc = "test" /\ ~DpcIdle
  BY DEF DpcMore, PassDone, DpcIdle
<1>2. /\ dpcDir \in Dirs /\ Irp[dpcDir] \in Irps /\ ~busy /\ ~dpcQueued
      /\ iotimeout \/ done[dpcDir]
      /\ \A e \in Dirs : start[e] => e = dpcDir
  BY <1>1, DpcWithIrp
<1>a. /\ \A j \in Irps : ~InDispatch(j) /\ (Live(j) => Irp[DirOf[j]] = j)
      /\ pnpIrp = NONE
  BY <1>1, DpcAlone
<1>u. /\ UNCHANGED <<slot, QueueLock, Length, TotalLength, gate, clock, pc, cancels, outcome, dpcQueued,
                     dpcDir, dpcIrp, pnpVars, addr, device, Operation, faults>>
      /\ SGL' = [SGL EXCEPT ![dpcDir] = NONE] /\ dpc' = "timer"
  BY DEF DpcMore
<1>s. \A e \in Dirs : SGL'[e] = IF e = dpcDir THEN NONE ELSE SGL[e]
  BY <1>u DEF Shapes
<1>l. \A j \in Irps : Live(j)' <=> Live(j)
  BY <1>u DEF Live, Finished
<1>3. OneRequest' /\ Owners'
  <2>1. Started' <=> Started
    BY <1>u DEF Started
  <2> QED BY <1>a, <1>u, <2>1, OneRequestStays, OwnersStay DEF OneThreadInv
<1>4. Mapped'
  <2>1. \A e \in Dirs : start'[e] /\ ~done'[e] => target'[e] # NONE /\ "timeout" \in Env
    <3>1. "timeout" \notin Env => done[dpcDir]
      BY <1>2 DEF OneThreadInv, Deferred
    <3> QED BY <1>2, <1>u, <3>1 DEF OneThreadInv, Mapped
  <2>2. \A e \in Dirs : SGL'[e] # NONE => Irp'[e] # NONE /\ SGL'[e][1] = Irp'[e] /\ addr'[e] = SGL'[e]
    BY <1>s, <1>u DEF OneThreadInv, Mapped
  <2>3. \A i \in Irps : Live(i)' /\ Started' =>
          /\ Irp'[DirOf[i]] = i /\ pnpIrp' = NONE /\ pc'[i] = "returned"
          /\ target'[DirOf[i]] # NONE /\ target'[DirOf[i]][1] = i
    BY <1>u, <1>l DEF OneThreadInv, Mapped, Started
  <2>4. \A e \in Dirs : Length'[e] > 0 =>
       /\ Operation' = {e}
       /\ \/ Irp'[e] # NONE
          \/ \E i \in Irps : DirOf[i] = e /\ pc'[i] = "current"
    BY <1>1, <1>u DEF OneThreadInv, Mapped
  <2>5. /\ \A e \in Dirs : done'[e] => start'[e]
        /\ \A e \in Dirs : start'[e] => Operation' = {e}
    BY <1>u DEF OneThreadInv, Mapped
  <2> QED BY <2>1, <2>2, <2>3, <2>4, <2>5 DEF Mapped
<1>5. Deferred'
  <2>1. Irp'[dpcDir'] # NONE /\ SGL'[dpcDir'] = NONE
    BY <1>2, <1>u, <1>s DEF Shapes
  <2> QED BY <1>a, <1>2, <1>u, <1>l, <2>1 DEF OneThreadInv, Deferred
<1>6. Taken'
  BY <1>a, <1>u DEF OneThreadInv, Taken
<1>7. Waiting'
  <2>1. \A e \in Dirs : Quiet(e) => Quiet(e)'
    BY <1>s, <1>u DEF Quiet
  <2> QED BY <1>u, <2>1 DEF OneThreadInv, Waiting, Before, Shapes, PnpTypes
<1> QED BY <1>u, <1>3, <1>4, <1>5, <1>6, <1>7 DEF OneThreadInv

(* The DPC resets what no new request has set yet.                         *)
LEMMA DpcResetKeeps ==
  ASSUME Shapes, Plug, OneThreadInv, DpcReset PROVE OneThreadInv'
<1>1. dpc = "reset" /\ ~DpcIdle /\ dpcDir \in Dirs
  BY DEF DpcReset, DpcIdle, Shapes, DpcTypes
<1>2. \A i \in Irps : ~Live(i)
  BY <1>1 DEF OneThreadInv, Deferred
<1>n. /\ \A d \in Dirs : Vacant(d) /\ (Length[d] > 0 => d = dpcDir)
      /\ ~busy /\ ~dpcQueued
  BY <1>2, NobodyLive
<1>a. (\A j \in Irps : ~InDispatch(j)) /\ pnpIrp = NONE
  BY <1>1, DpcAlone
<1>u. /\ UNCHANGED <<slot, QueueLock, Offset, TotalLength, SGL, gate, clock, pc, cancels, outcome,
                     dpcQueued, dpcDir, dpcIrp, pnpVars, addr, device, Operation, faults>>
      /\ Length' = [Length EXCEPT ![dpcDir] = 0] /\ dpc' = "forget"
  BY DEF DpcReset
<1>3. OneRequest' /\ Owners'
  <2>1. Started' <=> Started
    BY <1>u DEF Started
  <2> QED BY <1>a, <1>u, <2>1, OneRequestStays, OwnersStay DEF OneThreadInv
<1>4. Mapped'
  <2>1. \A d \in Dirs : ~(Length'[d] > 0)
    BY <1>1, <1>n, <1>u DEF Shapes
  <2> QED BY <1>u, <2>1 DEF OneThreadInv, Mapped, Live, Finished, Started
<1>5. Deferred'
  BY <1>2, <1>n, <1>u DEF OneThreadInv, Deferred, Live, Finished
<1>6. Taken' /\ Waiting'
  BY <1>a, <1>u, WaitingStays DEF OneThreadInv, Taken
<1> QED BY <1>u, <1>3, <1>4, <1>5, <1>6 DEF OneThreadInv

(* ... and forgets the request once more.                                  *)
LEMMA DpcForgetKeeps ==
  ASSUME Shapes, Plug, OneThreadInv, DpcForget PROVE OneThreadInv'
<1>1. dpc = "forget" /\ ~DpcIdle /\ dpcDir \in Dirs
  BY DEF DpcForget, DpcIdle, Shapes, DpcTypes
<1>2. \A i \in Irps : ~Live(i)
  BY <1>1 DEF OneThreadInv, Deferred
<1>n. /\ \A d \in Dirs : Vacant(d) /\ ~(Length[d] > 0)
      /\ ~busy /\ ~dpcQueued
  BY <1>1, <1>2, NobodyLive
<1>a. (\A j \in Irps : ~InDispatch(j)) /\ pnpIrp = NONE
  BY <1>1, DpcAlone
<1>i. Irp' = Irp
  BY <1>1, <1>n DEF DpcForget, Vacant, Shapes
<1>u. /\ UNCHANGED <<slot, QueueLock, xfer, SGL, gate, clock, pc, cancels, outcome,
                     dpcQueued, dpcDir, dpcIrp, pnpVars, addr, device, Operation, faults>>
      /\ dpc' = "queue"
  BY <1>i DEF DpcForget
<1>3. OneRequest' /\ Owners'
  <2>1. Started' <=> Started
    BY <1>u DEF Started
  <2> QED BY <1>a, <1>u, <2>1, OneRequestStays, OwnersStay DEF OneThreadInv
<1>4. Mapped'
  BY <1>1, <1>u, MappedStays DEF OneThreadInv
<1>5. Deferred'
  BY <1>2, <1>n, <1>u DEF OneThreadInv, Deferred, Live, Finished
<1>6. Taken' /\ Waiting'
  BY <1>a, <1>u, WaitingStays DEF OneThreadInv, Taken
<1> QED BY <1>u, <1>3, <1>4, <1>5, <1>6 DEF OneThreadInv

(* The DPC sets the timer for the next pass of its request,                *)
LEMMA DpcStartKeeps ==
  ASSUME Shapes, Plug, OneThreadInv, DpcStart PROVE OneThreadInv'
<1>1. dpc = "timer" /\ ~DpcIdle /\ dpcDir \in Dirs /\ Irp[dpcDir] \in Irps /\ ~busy /\ ~dpcQueued
  BY DEF DpcStart, DpcIdle, OneThreadInv, Deferred, Shapes, DpcTypes
<1>2. DirOf[Irp[dpcDir]] = dpcDir /\ Live(Irp[dpcDir]) /\ Irp[dpcDir] # NONE
  BY <1>1 DEF OneThreadInv, Owners, Shapes
<1>a. /\ \A j \in Irps : ~InDispatch(j) /\ (Live(j) => Irp[DirOf[j]] = j)
      /\ pnpIrp = NONE /\ pnp # "timer"
  BY <1>1, DpcAlone
<1>u. /\ UNCHANGED <<slot, QueueLock, xfer, SGL, gate, iotimeout, pc, cancels, outcome, dpcQueued, dpcDir,
                     pnpVars, addr, device, Operation, touched>>
      /\ dpc' = "length" /\ dpcIrp' = Irp[dpcDir] /\ bugcheck' = FALSE
  BY <1>2 DEF DpcStart, SetIoTimerValue
<1>3. OneRequest' /\ Owners' /\ Mapped'
  <2>1. Started' <=> Started
    BY <1>u DEF Started
  <2> QED BY <1>1, <1>a, <1>u, <2>1, OneRequestStays, OwnersStay, MappedStays DEF OneThreadInv
<1>4. Deferred'
  <2>1. \E i \in Irps : Live(i)' /\ Irp'[DirOf[i]] = i
    BY <1>1, <1>2, <1>u DEF Live, Finished
  <2>2. \A j \in Irps : Live(j)' => Irp'[DirOf[j]] = j
    BY <1>a, <1>u DEF Live, Finished
  <2> QED BY <1>1, <1>2, <1>u, <2>1, <2>2 DEF OneThreadInv, Deferred
<1>5. Taken' /\ Waiting'
  BY <1>a, <1>u, WaitingStays DEF OneThreadInv, Taken
<1> QED BY <1>u, <1>3, <1>4, <1>5 DEF OneThreadInv

(* ... and its length.                                                     *)
LEMMA DpcLengthKeeps ==
  ASSUME Shapes, Plug, OneThreadInv, DpcLength PROVE OneThreadInv'
<1>1. dpc = "length" /\ ~DpcIdle /\ dpcDir \in Dirs /\ Irp[dpcDir] # NONE
  BY DEF DpcLength, DpcIdle, OneThreadInv, Deferred, Shapes, DpcTypes
<1>2. Operation = {dpcDir}
  BY <1>1 DEF OneThreadInv, Owners, OneRequest, Shapes
<1>a. (\A j \in Irps : ~InDispatch(j)) /\ pnpIrp = NONE
  BY <1>1, DpcAlone
<1>u. /\ UNCHANGED <<slot, QueueLock, Offset, TotalLength, SGL, gate, clock, pc, cancels, outcome,
                     dpcQueued, dpcDir, dpcIrp, pnpVars, addr, device, Operation, faults>>
      /\ dpc' = "current" /\ Length' = [Length EXCEPT ![dpcDir] = PassLength(dpcDir)]
  BY DEF DpcLength, StartLength
<1>3. OneRequest' /\ Owners'
  <2>1. Started' <=> Started
    BY <1>u DEF Started
  <2> QED BY <1>a, <1>u, <2>1, OneRequestStays, OwnersStay DEF OneThreadInv
<1>4. Mapped'
  <2>1. \A d \in Dirs : Length'[d] > 0 => d = dpcDir \/ Length[d] > 0
    BY <1>u DEF Shapes
  <2>2. \A d \in Dirs : Length'[d] > 0 =>
       /\ Operation' = {d}
       /\ \/ Irp'[d] # NONE
          \/ \E i \in Irps : DirOf[i] = d /\ pc'[i] = "current"
    BY <1>1, <1>2, <1>u, <2>1 DEF OneThreadInv, Mapped
  <2> QED BY <1>u, <2>2 DEF OneThreadInv, Mapped, Live, Finished, Started
<1>5. Deferred'
  BY <1>1, <1>u DEF OneThreadInv, Deferred, DpcIdle, Live, Finished, HasDone
<1>6. Taken' /\ Waiting'
  BY <1>a, <1>u, WaitingStays DEF OneThreadInv, Taken
<1> QED BY <1>u, <1>3, <1>4, <1>5, <1>6 DEF OneThreadInv

(* The device is reset when every request is finished.                     *)
LEMMA ResetKeeps ==
  ASSUME OneThread, Shapes, Plug, OneThreadInv, Reset PROVE OneThreadInv'
<1>1. AllFinished /\ DpcIdle
  BY OneThreadLacks DEF Reset
<1>2. \A i \in Irps : ~Live(i) /\ ~InDispatch(i)
  BY <1>1 DEF AllFinished, Live, InDispatch
<1>n. /\ \A d \in Dirs : Vacant(d)
      /\ ~busy /\ ~dpcQueued /\ dpc = "idle"
  BY <1>1, <1>2, NobodyLive DEF DpcIdle
<1>u. /\ UNCHANGED <<slot, QueueLock, Offset, TotalLength, SGL, gate, clock, pc, cancels, outcome,
                     dpcVars, pnpVars, addr, target, intr, moved, faults>>
      /\ \A d \in Dirs : ~(Length'[d] > 0) /\ ~start'[d] /\ ~done'[d]
  BY DEF Reset
<1>l. \A i \in Irps : ~Live(i)' /\ ~InDispatch(i)'
  BY <1>2, <1>u DEF Live, InDispatch, Finished
<1>3. OneRequest'
  BY <1>l, <1>u DEF OneThreadInv, OneRequest, Locked, InDispatch, Finished
<1>4. Owners'
  BY <1>u, OwnersStay DEF OneThreadInv
<1>5. Mapped'
  BY <1>n, <1>l, <1>u DEF OneThreadInv, Mapped, Vacant
<1>6. Deferred'
  BY <1>n, <1>l, <1>u DEF OneThreadInv, Deferred, DpcIdle
<1>7. Taken' /\ Waiting'
  BY <1>u, WaitingStays DEF OneThreadInv, Taken, DpcIdle
<1> QED BY <1>u, <1>3, <1>4, <1>5, <1>6, <1>7 DEF OneThreadInv

(* The device starts with the buffer of the current request,               *)
LEMMA StartDMAKeeps ==
  ASSUME OneThread, Shapes, Plug, OneThreadInv, StartDMA PROVE OneThreadInv'
<1>1. AppIdle /\ \A d \in Operation : start[d] \/ SGL[d] # NONE
  BY OneThreadLacks DEF StartDMA
<1>2. PICK d \in Operation : ~start[d]
  BY DEF StartDMA
<1>3. d \in Dirs
  <2>1. Operation \subseteq Dirs
    BY DEF Shapes
  <2> QED BY <2>1
<1>4. PICK i \in Irps : /\ i = Irp[d] /\ SGL[d] # NONE /\ SGL[d][1] = i /\ addr[d] = SGL[d]
                         /\ DirOf[i] = d /\ Live(i)
  BY <1>1, <1>2, <1>3 DEF OneThreadInv, Mapped, Owners, Shapes
<1>o. (\A j \in Irps : Live(j) <=> j = i) /\ Operation = {d}
  BY <1>4, OnlyLive
<1>s. ~Started /\ \A e \in Dirs : ~start[e] /\ ~done[e]
  BY <1>2, <1>o DEF OneThreadInv, Mapped, Started
<1>p. pnpIrp = NONE
  <2> SUFFICES ASSUME pnpIrp # NONE PROVE FALSE
    OBVIOUS
  <2>1. pnpDir \in Dirs /\ pnpIrp \in Irps /\ Irp[pnpDir] = pnpIrp /\ SGL[pnpDir] = NONE
    BY DEF OneThreadInv, Taken, Shapes, PnpTypes
  <2>2. DirOf[pnpIrp] = pnpDir /\ Live(pnpIrp)
    BY <2>1 DEF OneThreadInv, Owners, Shapes
  <2>3. pnpIrp = i
    BY <1>o, <2>1, <2>2
  <2> QED BY <1>4, <2>1, <2>2, <2>3 DEF Shapes
<1>a. \A j \in Irps : ~InDispatch(j)
  BY <1>1 DEF AppIdle, InDispatch
<1>u. UNCHANGED <<slot, QueueLock, xfer, SGL, gate, clock, pc, cancels, outcome, dpcVars, pnpVars, addr,
                  done, intr, moved, Operation, faults>>
  BY DEF StartDMA
<1>t. /\ \A e \in Dirs : start'[e] <=> e = d
      /\ target'[d] = SGL[d]
  <2>1. \A e \in Dirs : start'[e] <=> e = d
    BY <1>o, <1>s DEF StartDMA
  <2> QED BY <1>2, <1>3, <1>4, <2>1 DEF StartDMA
<1>l. \A j \in Irps : (Live(j)' <=> j = i) /\ ~InDispatch(j)'
  BY <1>o, <1>a, <1>u DEF Live, InDispatch, Finished
<1>5. OneRequest'
  BY <1>l, <1>u DEF OneThreadInv, OneRequest, Locked, InDispatch, Live, Finished
<1>6. Owners'
  BY <1>u, OwnersStay DEF OneThreadInv
<1>7. Mapped'
  <2>1. \A e \in Dirs : start'[e] => /\ Operation' = {e} /\ target'[e] # NONE
                                     /\ SGL'[e] = target'[e] /\ Irp'[e] = target'[e][1]
    BY <1>o, <1>u, <1>t, <1>4
  <2>2. /\ pc'[i] = "returned" /\ Irp'[DirOf[i]] = i /\ pnpIrp' = NONE
        /\ target'[DirOf[i]] # NONE /\ target'[DirOf[i]][1] = i
    BY <1>1, <1>4, <1>t, <1>u, <1>p DEF AppIdle, Live
  <2>3. \A e \in Dirs : ~done'[e]
    BY <1>s, <1>u
  <2>4. /\ \A e \in Dirs : SGL'[e] # NONE => Irp'[e] # NONE /\ SGL'[e][1] = Irp'[e] /\ addr'[e] = SGL'[e]
        /\ \A e \in Dirs : Length'[e] > 0 =>
             /\ Operation' = {e}
             /\ \/ Irp'[e] # NONE
                \/ \E j \in Irps : DirOf[j] = e /\ pc'[j] = "current"
                \/ dpc' = "reset" /\ dpcDir' = e
    BY <1>u DEF OneThreadInv, Mapped
  <2> QED BY <1>l, <2>1, <2>2, <2>3, <2>4 DEF Mapped
<1>8. Deferred'
  BY <1>u, DeferredStays DEF OneThreadInv
<1>9. Taken' /\ Waiting'
  BY <1>u, WaitingStays DEF OneThreadInv, Taken, DpcIdle
<1> QED BY <1>u, <1>5, <1>6, <1>7, <1>8, <1>9 DEF OneThreadInv

(* ... and moves its data.                                                 *)
LEMMA DeviceDoneKeeps ==
  ASSUME Shapes, Plug, OneThreadInv, NEW d \in Dirs, DeviceDone(d) PROVE OneThreadInv'
<1>1. start[d] /\ ~done[d] /\ target[d] # NONE
  BY DEF DeviceDone, Running, OneThreadInv, Mapped, Shapes
<1>u. /\ UNCHANGED <<slot, QueueLock, xfer, SGL, gate, clock, pc, cancels, outcome, dpcVars, pnpVars,
                     addr, start, target, Operation, faults>>
      /\ \A e \in Dirs : done'[e] <=> (e = d \/ done[e])
  BY <1>1 DEF DeviceDone, Shapes
<1>2. OneRequest' /\ Owners'
  <2>1. (Started' <=> Started) /\ (DpcIdle' <=> DpcIdle)
    BY <1>u DEF Started, DpcIdle
  <2> QED BY <1>u, <2>1, OneRequestStays, OwnersStay DEF OneThreadInv
<1>3. Mapped'
  <2>1. \A e \in Dirs : done'[e] => start'[e]
    BY <1>1, <1>u DEF OneThreadInv, Mapped
  <2>3. \A i \in Irps : Live(i)' /\ Started' =>
          /\ Irp'[DirOf[i]] = i /\ pnpIrp' = NONE /\ pc'[i] = "returned"
          /\ target'[DirOf[i]] # NONE /\ target'[DirOf[i]][1] = i
    BY <1>u DEF OneThreadInv, Mapped, Live, Finished, Started
  <2> QED BY <1>u, <2>1, <2>3 DEF OneThreadInv, Mapped
<1>4. Deferred'
  <2>1. HasDone => HasDone'
    BY <1>u DEF HasDone
  <2> QED BY <1>u, <2>1 DEF OneThreadInv, Deferred, DpcIdle, Live, Finished
<1>5. Taken' /\ Waiting'
  BY <1>u, WaitingStays DEF OneThreadInv, Taken, DpcIdle
<1> QED BY <1>u, <1>2, <1>3, <1>4, <1>5 DEF OneThreadInv

(* The invariant holds of the initial state.                               *)
LEMMA OneThreadInit ==
  ASSUME Init PROVE OneThreadInv
<1>0. \A i \in Irps : ~Live(i) /\ ~InDispatch(i) /\ ~Finished(i) /\ ~Accepted(i) /\ ~Locked(i)
  BY DEF Init, Live, InDispatch, Finished, Accepted, Locked
<1>d. \A i \in Irps : DirOf[i] \in Dirs
  BY DirAssumption
<1>1. OneRequest
  BY <1>0 DEF Init, OneRequest
<1>2. Owners
  BY <1>0 DEF Init, Owners
<1>3. Mapped
  BY <1>0 DEF Init, Mapped, Started
<1>4. Deferred
  BY <1>0 DEF Init, Deferred, DpcIdle
<1>5. Taken /\ Waiting
  BY DEF Init, Taken, Waiting
<1> QED BY <1>1, <1>2, <1>3, <1>4, <1>5 DEF Init, OneThreadInv

(* What the steps need of the types follows from them.                     *)
LEMMA ShapesHold == Typed => Shapes
BY DirAssumption, EnvAssumption, Directions
   DEF Typed, Shapes, SlotTypes, QueueTypes, PassTypes, GateTypes, ClockTypes, DeviceTypes

(* Every step keeps the invariant.                                         *)
LEMMA OneThreadStep ==
  ASSUME OneThread, Typed, Plug, OneThreadInv, [Next]_vars PROVE OneThreadInv'
<1>s. Shapes
  BY ShapesHold
<1>1. ASSUME NEW i \in Irps, DispatchAccept(i) \/ DispatchReject(i) \/ Dispatch(i)
      PROVE  OneThreadInv'
  BY <1>s, <1>1, DispatchAcceptKeeps, DispatchRejectKeeps, DispatchLockKeeps, DispatchDropKeeps,
     DispatchQueueKeeps, DispatchStartKeeps, DispatchLengthKeeps, DispatchCurrentKeeps,
     DispatchReleaseKeeps, DispatchMarkPendingKeeps DEF Dispatch
<1>2. ASSUME NEW i \in Irps, CancelIrp(i) \/ CancelRequest(i) PROVE OneThreadInv'
  BY <1>s, <1>2, CancelIrpKeeps, CancelRequestKeeps
<1>3. CASE BDMA_Isr \/ CheckTimer
  BY <1>s, <1>3, BDMA_IsrKeeps, CheckTimerKeeps
<1>4. CASE DpcForIsr
  <2>1. ~DpcDequeue
    BY DEF DpcDequeue, OneThreadInv, Deferred
  <2> QED BY <1>s, <1>4, <2>1, DpcBeginKeeps, DpcSkipKeeps, DpcCompleteKeeps, DpcWithoutIrpKeeps, DpcMoreKeeps,
             DpcResetKeeps, DpcForgetKeeps, DpcLookAtQueueKeeps, DpcStartKeeps, DpcLengthKeeps, DpcCurrentKeeps
          DEF DpcForIsr
<1>5. CASE StallRequests \/ AbortRequests \/ PnpWork
  BY <1>s, <1>5, StallRequestsKeeps, AbortRequestsKeeps, WaitClearEventKeeps, WaitCheckKeeps, WaitEventKeeps,
     ResumeKeeps, RestartRequestsKeeps, RestartStartKeeps, RestartLengthKeeps, RestartCurrentKeeps,
     CleanupRequestsKeeps DEF PnpWork
<1>6. CASE Reset \/ StartDMA \/ \E d \in Dirs : DeviceDone(d)
  BY <1>s, <1>6, ResetKeeps, StartDMAKeeps, DeviceDoneKeeps
<1>7. CASE UNCHANGED vars
  <2>1. OneRequest' /\ Owners' /\ Mapped' /\ Deferred'
    <3>1. (Started' <=> Started) /\ (DpcIdle' <=> DpcIdle)
      BY <1>7 DEF vars, Started, DpcIdle
    <3> QED BY <1>7, <3>1, OneRequestStays, OwnersStay, MappedStays, DeferredStays DEF vars, OneThreadInv
  <2>2. Taken' /\ Waiting'
    BY <1>7, WaitingStays DEF vars, OneThreadInv, Taken, DpcIdle
  <2> QED BY <1>7, <2>1, <2>2 DEF vars, OneThreadInv
<1> QED BY <1>1, <1>2, <1>3, <1>4, <1>5, <1>6, <1>7 DEF Next

(* The invariant holds.                                                    *)
LEMMA OneThreadHolds ==
  ASSUME OneThread PROVE Spec => [](Typed /\ Plug /\ OneThreadInv)
<1> DEFINE Held == Typed /\ Plug /\ OneThreadInv
<1>1. Init => Held
  BY TypeInit, OneThreadInit
<1>2. Held /\ [Next]_vars => Held'
  <2>1. Held => NothingToCleanUp
    BY ShapesHold, NothingQueued DEF NothingToCleanUp, Shapes, PnpTypes
  <2>2. Typed => GateTypes /\ PnpTypes
    BY DEF Typed
  <2> QED BY <2>1, <2>2, TypeStep, PlugStep, OneThreadStep
<1> QED BY <1>1, <1>2, PTL DEF Spec
-----------------------------------------------------------------------------
(***************************************************************************)
(* What follows from the invariant.                                        *)
(***************************************************************************)
(* Every variable stays in its type: for any application if the device is  *)
(* not removed, and with a removal for an application of one thread.       *)
THEOREM TypeCorrect ==
  ASSUME OneThread \/ "remove" \notin Env PROVE Spec => []TypeOK
<1>1. CASE OneThread
  BY <1>1, OneThreadHolds, TypeParts, PTL
<1>2. CASE "remove" \notin Env
  <2>1. Init => Typed /\ Plug
    BY TypeInit
  <2>2. Typed /\ Plug /\ [Next]_vars => (Typed /\ Plug)'
    <3>1. Plug => NothingToCleanUp
      BY <1>2 DEF Plug, NothingToCleanUp
    <3>2. Typed => GateTypes /\ PnpTypes
      BY DEF Typed
    <3> QED BY <3>1, <3>2, TypeStep, PlugStep
  <2> QED BY <2>1, <2>2, TypeParts, PTL DEF Spec
<1> QED BY <1>1, <1>2

(* A request that is accepted and not completed has an owner ...           *)
THEOREM OwnersFound ==
  ASSUME OneThread PROVE Spec => []EveryRequestHasAnOwner
<1>1. Typed /\ Plug /\ OneThreadInv => EveryRequestHasAnOwner
  <2> SUFFICES ASSUME Typed, OneThreadInv, NEW i \in Irps,
                      pc[i] \in {"release", "touch", "returned"}, ~Finished(i),
                      Irp[DirOf[i]] # i, i \notin cancelling
               PROVE  Contains(Queue[DirOf[i]], i)
    BY DEF EveryRequestHasAnOwner
  <2>1. Queue[DirOf[i]] = <<i>>
    BY DEF OneThreadInv, Owners, Accepted
  <2> QED BY <2>1 DEF Contains
<1> QED BY <1>1, OneThreadHolds, PTL

(* ... no path completes a request twice: DPC, timer, cancel routine,      *)
(* removal and Dispatch exclude each other ...                             *)
THEOREM CompletedOnceOnly ==
  ASSUME OneThread PROVE Spec => []CompletedOnce
<1>1. Typed /\ Plug /\ OneThreadInv => CompletedOnce
  BY DEF CompletedOnce, OneThreadInv, OneRequest
<1> QED BY <1>1, OneThreadHolds, PTL

(***************************************************************************)
(* ... a request that fits one pass and is completed with success has had  *)
(* all its data moved, not only its direction's length found set.  (The    *)
(* driver's authors do not support a request of several passes, s3_1000.c  *)
(* 1740; a run of TLC shows one completed without its second pass.)        *)
(***************************************************************************)
FitsOnePass == \A i \in Irps : LenOf[i] <= MapRegMax \/ LenOf[i] > MaxTransfer

PassInv ==
  /\ \A i \in Irps : Live(i) =>
       /\ LenOf[i] \in 1..MapRegMax /\ TotalLength[DirOf[i]] = LenOf[i]
       /\ Offset[DirOf[i]] = 0 /\ Length[DirOf[i]] \in {0, LenOf[i]}
  /\ \A d \in Dirs : addr[d] # NONE => addr[d][2] = 0 /\ LenOf[addr[d][1]] \in 1..MapRegMax
  /\ \A d \in Dirs : target[d] # NONE => target[d][2] = 0 /\ LenOf[target[d][1]] \in 1..MapRegMax
  /\ \A d \in Dirs : done[d] /\ target[d] # NONE => DataOf(target[d][1]) \subseteq moved
  /\ SuccessIsReal
  /\ dpc \notin {"timer", "length", "current"}

(* A step that completes nothing with success and brings no new request    *)
(* leaves the passes as they are.                                          *)
LEMMA PassStays ==
  ASSUME PassInv, UNCHANGED <<Offset, TotalLength, addr, target, moved>>,
         Length \in [Dirs -> Nat], DirOf \in [Irps -> Dirs],
         \A d \in Dirs : Length'[d] \in {0, Length[d]},
         \A d \in Dirs : done'[d] => done[d],
         \A i \in Irps : Live(i)' => Live(i),
         \A i \in Irps : Status'[i] = "SUCCESS" => Status[i] = "SUCCESS",
         dpc' \notin {"timer", "length", "current"}
  PROVE  PassInv'
<1>1. \A i \in Irps : Live(i)' =>
       /\ LenOf[i] \in 1..MapRegMax /\ TotalLength'[DirOf[i]] = LenOf[i]
       /\ Offset'[DirOf[i]] = 0 /\ Length'[DirOf[i]] \in {0, LenOf[i]}
  BY DEF PassInv
<1>2. SuccessIsReal'
  BY DEF PassInv, SuccessIsReal
<1> QED BY <1>1, <1>2 DEF PassInv

(* A completion with success is that of a request whose data were moved.   *)
LEMMA DispatchPasses ==
  ASSUME OneThread, FitsOnePass, Typed, Plug, OneThreadInv, PassInv, NEW i \in Irps,
         DispatchAccept(i) \/ DispatchReject(i) \/ Dispatch(i)
  PROVE  PassInv'
<1>s. Shapes /\ LenOf \in [Irps -> Nat] /\ MapRegMax \in Nat /\ MaxTransfer \in Nat
  BY ShapesHold, LengthAssumption
<1>t. TotalLength \in [Dirs -> Nat] /\ Offset \in [Dirs -> Nat] /\ Length \in [Dirs -> Nat]
  BY DEF Typed, PassTypes
<1>1. CASE DispatchAccept(i)
  <2>u. /\ pc[i] = "none" /\ MayCall(i) /\ LenOf[i] \in 1..MaxTransfer
        /\ TotalLength' = [TotalLength EXCEPT ![DirOf[i]] = LenOf[i]]
        /\ Offset' = [Offset EXCEPT ![DirOf[i]] = 0]
        /\ pc' = [pc EXCEPT ![i] = "lock"]
        /\ UNCHANGED <<Length, addr, target, done, moved, Status, completions, dpc>>
    BY <1>1 DEF DispatchAccept, Set, xfer, device, outcome, dpcVars
  <2>n. \A j \in Irps : ~Live(j)
    BY <1>s, <2>u, MayCallAlone
  <2>m. dpc = "idle"
    BY <1>s, <2>u, MayCallAlone DEF DpcIdle
  <2>z. \A d \in Dirs : Length[d] = 0
    BY <1>s, <1>t, <2>n, <2>m, NobodyLive
  <2>l. \A j \in Irps : Live(j)' => j = i
    BY <1>s, <2>u, <2>n DEF Live, Finished, Shapes, CallTypes
  <2>1. /\ LenOf[i] \in 1..MapRegMax /\ TotalLength'[DirOf[i]] = LenOf[i]
        /\ Offset'[DirOf[i]] = 0 /\ Length'[DirOf[i]] \in {0, LenOf[i]}
    BY <1>s, <1>t, <2>u, <2>z DEF FitsOnePass, Shapes
  <2>2. SuccessIsReal'
    BY <2>u DEF PassInv, SuccessIsReal
  <2> QED BY <2>u, <2>l, <2>1, <2>2 DEF PassInv
<1>2. CASE DispatchReject(i)
  <2>u. /\ pc[i] = "none" /\ MayCall(i) /\ LenOf[i] \notin 1..MaxTransfer
        /\ pc' = [pc EXCEPT ![i] = "returned"]
        /\ Complete(i, IF LenOf[i] = 0 THEN "SUCCESS" ELSE "BUFFER_TOO_SMALL")
        /\ UNCHANGED <<Length, Offset, addr, target, done, moved, dpc>>
    BY <1>2 DEF DispatchReject, Set, device, dpcVars
  <2>n. \A j \in Irps : ~Live(j)
    BY <1>s, <2>u, MayCallAlone
  <2>c. \A j \in Irps : /\ Status'[j] = IF j = i THEN (IF LenOf[i] = 0 THEN "SUCCESS" ELSE "BUFFER_TOO_SMALL")
                                                 ELSE Status[j]
                        /\ completions'[j] = IF j = i THEN completions[i] + 1 ELSE completions[j]
    BY <1>s, <2>u DEF Complete, Set, Shapes, OutcomeTypes
  <2>l. \A j \in Irps : ~Live(j)'
    <3>1. completions[i] + 1 > 0
      BY <1>s DEF Shapes, OutcomeTypes
    <3> QED BY <1>s, <2>u, <2>n, <2>c, <3>1 DEF Live, Finished, Shapes, CallTypes
  <2>2. SuccessIsReal'
    <3> SUFFICES ASSUME NEW j \in Irps, Status'[j] = "SUCCESS" PROVE DataOf(j) \subseteq moved'
      BY DEF SuccessIsReal
    <3>1. CASE j = i
      <4>1. LenOf[i] = 0
        BY <2>c, <3>1
      <4>2. 0..(LenOf[i] - 1) = {}
        BY <4>1
      <4> QED BY <3>1, <4>2 DEF DataOf
    <3>2. CASE j # i
      BY <2>c, <2>u, <3>2 DEF PassInv, SuccessIsReal
    <3> QED BY <3>1, <3>2
  <2> QED BY <2>u, <2>l, <2>2 DEF PassInv
<1>3. CASE DispatchLength(i)
  <2>u. /\ pc[i] = "length" /\ pc' = [pc EXCEPT ![i] = "current"]
        /\ Length' = [Length EXCEPT ![DirOf[i]] = PassLength(DirOf[i])]
        /\ UNCHANGED <<Offset, TotalLength, addr, target, done, moved, Status, completions, dpc>>
    BY <1>3 DEF DispatchLength, StartLength, Set, device, outcome, dpcVars
  <2>i. \A j \in Irps : Live(j) <=> j = i
    BY <1>s, <2>u, PreparedAlone DEF Prepared
  <2>l. \A j \in Irps : Live(j)' => j = i
    BY <1>s, <2>u, <2>i DEF Live, Finished, Shapes, CallTypes
  <2>p. PassLength(DirOf[i]) = LenOf[i]
    BY <1>s, <2>i DEF PassInv, PassLength
  <2>1. /\ LenOf[i] \in 1..MapRegMax /\ TotalLength'[DirOf[i]] = LenOf[i]
        /\ Offset'[DirOf[i]] = 0 /\ Length'[DirOf[i]] \in {0, LenOf[i]}
    BY <1>s, <1>t, <2>u, <2>p, <2>i DEF PassInv, Shapes
  <2>2. SuccessIsReal'
    BY <2>u DEF PassInv, SuccessIsReal
  <2> QED BY <2>u, <2>l, <2>1, <2>2 DEF PassInv
<1>4. CASE DispatchCurrent(i)
  <2>u. /\ pc[i] = "current"
        /\ addr' = [addr EXCEPT ![DirOf[i]] = <<i, Offset[DirOf[i]]>>]
        /\ \A j \in Irps : pc'[j] # "none" => pc[j] # "none"
        /\ UNCHANGED <<Length, Offset, TotalLength, target, done, moved, Status, completions, dpc>>
    BY <1>s, <1>4, OneThreadLacks
       DEF DispatchCurrent, StartCurrent, Set, device, outcome, dpcVars, xfer, Shapes, CallTypes
  <2>i. Live(i) /\ \A j \in Irps : Live(j)' => Live(j)
    BY <1>s, <2>u, PreparedAlone DEF Prepared, Live, Finished
  <2>1. \A d \in Dirs : addr'[d] # NONE => addr'[d][2] = 0 /\ LenOf[addr'[d][1]] \in 1..MapRegMax
    <3> SUFFICES ASSUME NEW d \in Dirs, addr'[d] # NONE
                 PROVE  addr'[d][2] = 0 /\ LenOf[addr'[d][1]] \in 1..MapRegMax
      OBVIOUS
    <3>1. CASE d = DirOf[i]
      <4>1. addr'[d] = <<i, 0>> /\ LenOf[i] \in 1..MapRegMax
        BY <1>s, <2>u, <2>i, <3>1 DEF PassInv, Shapes
      <4> QED BY <4>1
    <3>2. CASE d # DirOf[i]
      BY <1>s, <2>u, <3>2 DEF PassInv, Shapes
    <3> QED BY <3>1, <3>2
  <2>2. SuccessIsReal'
    BY <2>u DEF PassInv, SuccessIsReal
  <2> QED BY <2>u, <2>i, <2>1, <2>2 DEF PassInv
<1>5. CASE DispatchDrop(i)
  <2>u. /\ pc[i] = "held" /\ pc' = [pc EXCEPT ![i] = "unlock"]
        /\ \E s \in {"DELETE_PENDING", "CANCELLED"} : Complete(i, s)
        /\ UNCHANGED <<Length, Offset, TotalLength, addr, target, done, moved, dpc>>
    BY <1>5 DEF DispatchDrop, Set, device, dpcVars, xfer
  <2>1. \A j \in Irps : /\ Status'[j] = "SUCCESS" => Status[j] = "SUCCESS"
                        /\ completions[j] > 0 => completions'[j] > 0
    BY <1>s, <2>u DEF Complete, Set, Shapes, OutcomeTypes
  <2>2. \A j \in Irps : Live(j)' => Live(j)
    BY <1>s, <2>u, <2>1 DEF Live, Finished, Shapes, CallTypes
  <2> QED BY <1>s, <1>t, <2>u, <2>1, <2>2, PassStays DEF PassInv, Shapes
<1>6. CASE DispatchLock(i) \/ DispatchQueue(i) \/ DispatchStart(i) \/ DispatchRelease(i) \/ DispatchMarkPending(i)
  <2>u. /\ UNCHANGED <<Length, Offset, TotalLength, addr, target, done, moved, Status, completions, dpc>>
        /\ pc[i] # "none" /\ \E p \in {"held", "release", "length", "touch", "returned"} : pc' = [pc EXCEPT ![i] = p]
    BY <1>6 DEF DispatchLock, DispatchQueue, DispatchStart, DispatchRelease, DispatchMarkPending, AfterRelease,
       Set, device, outcome, dpcVars, xfer
  <2>1. \A j \in Irps : Live(j)' => Live(j)
    BY <1>s, <2>u DEF Live, Finished, Shapes, CallTypes
  <2> QED BY <1>s, <1>t, <2>u, <2>1, PassStays DEF PassInv, Shapes
<1> QED BY <1>1, <1>2, <1>3, <1>4, <1>5, <1>6 DEF Dispatch

LEMMA DpcPasses ==
  ASSUME OneThread, Typed, Plug, OneThreadInv, PassInv, DpcForIsr
  PROVE  PassInv'
<1>s. Shapes /\ LenOf \in [Irps -> Nat] /\ MapRegMax \in Nat
  BY ShapesHold, LengthAssumption
<1>t. TotalLength \in [Dirs -> Nat] /\ Offset \in [Dirs -> Nat] /\ Length \in [Dirs -> Nat]
  BY DEF Typed, PassTypes
<1>n. dpc \notin {"dequeue", "timer", "length", "current"}
  BY DEF OneThreadInv, Deferred, PassInv
<1>p. PassDone => /\ dpcDir \in Dirs /\ Irp[dpcDir] \in Irps /\ Length[dpcDir] = LenOf[Irp[dpcDir]]
                  /\ Offset[dpcDir] = 0 /\ TotalLength[dpcDir] = LenOf[Irp[dpcDir]]
                  /\ DirOf[Irp[dpcDir]] = dpcDir
  <2> SUFFICES ASSUME PassDone
               PROVE  /\ dpcDir \in Dirs /\ Irp[dpcDir] \in Irps /\ Length[dpcDir] = LenOf[Irp[dpcDir]]
                      /\ Offset[dpcDir] = 0 /\ TotalLength[dpcDir] = LenOf[Irp[dpcDir]]
                      /\ DirOf[Irp[dpcDir]] = dpcDir
    OBVIOUS
  <2>1. dpcDir \in Dirs /\ Irp[dpcDir] \in Irps /\ DirOf[Irp[dpcDir]] = dpcDir /\ Live(Irp[dpcDir])
    BY <1>s, DpcWithIrp
  <2>2. Length[dpcDir] > 0
    BY DEF PassDone
  <2> QED BY <1>t, <2>1, <2>2 DEF PassInv
<1>1. CASE DpcComplete
  <2> DEFINE i == Irp[dpcDir]
  <2>u. /\ PassDone /\ dpc' = "reset" /\ Complete(i, IF iotimeout THEN "IO_TIMEOUT" ELSE "SUCCESS")
        /\ Offset' = [Offset EXCEPT ![dpcDir] = NewOffset]
        /\ UNCHANGED <<Length, TotalLength, addr, target, done, moved, pc>>
    BY <1>1 DEF DpcComplete, Set, device
  <2>i. i \in Irps /\ dpcDir \in Dirs /\ Live(i) /\ DirOf[i] = dpcDir
    BY <1>s, <2>u, DpcWithIrp
  <2>c. \A j \in Irps : /\ Status'[j] = IF j = i THEN (IF iotimeout THEN "IO_TIMEOUT" ELSE "SUCCESS") ELSE Status[j]
                        /\ completions'[j] = IF j = i THEN completions[i] + 1 ELSE completions[j]
    BY <1>s, <2>u, <2>i DEF Complete, Set, Shapes, OutcomeTypes
  <2>l. \A j \in Irps : ~Live(j)'
    <3>1. completions[i] + 1 > 0
      BY <1>s, <2>i DEF Shapes, OutcomeTypes
    <3>2. \A j \in Irps : Live(j) => j = i
      BY <2>i DEF OneThreadInv, OneRequest
    <3> QED BY <2>u, <2>c, <3>1, <3>2 DEF Live, Finished
  <2>2. SuccessIsReal'
    <3> SUFFICES ASSUME NEW j \in Irps, Status'[j] = "SUCCESS" PROVE DataOf(j) \subseteq moved'
      BY DEF SuccessIsReal
    <3>1. CASE j = i
      <4>1. done[dpcDir] /\ target[dpcDir] # NONE /\ target[dpcDir][1] = i
        BY <1>s, <2>u, <2>c, <3>1, DpcWithIrp
      <4> QED BY <2>u, <2>i, <3>1, <4>1 DEF PassInv
    <3>2. CASE j # i
      BY <2>c, <2>u, <3>2 DEF PassInv, SuccessIsReal
    <3> QED BY <3>1, <3>2
  <2> QED BY <2>u, <2>l, <2>2 DEF PassInv
<1>2. ~DpcMore
  <2> SUFFICES ASSUME DpcMore PROVE FALSE
    OBVIOUS
  <2>1. PassDone /\ NewOffset < TotalLength[dpcDir]
    BY DEF DpcMore
  <2>2. Offset[dpcDir] = 0 /\ Length[dpcDir] = LenOf[Irp[dpcDir]] /\ TotalLength[dpcDir] = LenOf[Irp[dpcDir]]
        /\ LenOf[Irp[dpcDir]] \in Nat
    BY <1>p, <1>s, <2>1
  <2> QED BY <2>1, <2>2 DEF NewOffset
<1>3. ~DpcDequeue /\ ~DpcStart /\ ~DpcLength /\ ~DpcCurrent
  BY <1>n DEF DpcDequeue, DpcStart, DpcLength, DpcCurrent
<1>4. ASSUME DpcForIsr, ~DpcComplete PROVE PassInv'
  <2>1. CASE DpcLookAtQueue
    <3>1. Queue[dpcDir] = <<>>
      <4>1. \A i \in Irps : ~Live(i)
        BY <2>1 DEF DpcLookAtQueue, OneThreadInv, Deferred
      <4> QED BY <1>s, <4>1, NobodyLive DEF Vacant, Shapes, DpcTypes
    <3>2. UNCHANGED <<Length, Offset, TotalLength, addr, target, done, moved, pc, Status, completions>> /\ dpc' \in {"idle", "test"}
      BY <2>1, <3>1 DEF DpcLookAtQueue, DpcNextDirection, device, outcome, xfer
    <3> QED BY <1>s, <1>t, <3>2, PassStays DEF Live, Finished, Shapes
  <2>2. CASE DpcBegin \/ DpcSkip \/ DpcWithoutIrp \/ DpcForget
    <3>1. UNCHANGED <<Length, Offset, TotalLength, addr, target, done, moved, pc, Status, completions>>
          /\ dpc' \in {"idle", "test", "queue", dpc}
      BY <2>2 DEF DpcBegin, DpcSkip, DpcWithoutIrp, DpcForget, DpcNextDirection, device, outcome, xfer, dpcVars
    <3> QED BY <1>s, <1>t, <1>n, <3>1, PassStays DEF Live, Finished, Shapes
  <2>3. CASE DpcReset
    <3>1. /\ UNCHANGED <<Offset, TotalLength, addr, target, done, moved, pc, Status, completions>>
          /\ Length' = [Length EXCEPT ![dpcDir] = 0] /\ dpc' = "forget"
      BY <2>3 DEF DpcReset, Set, device, outcome
    <3>2. \A d \in Dirs : Length'[d] \in {0, Length[d]}
      BY <1>t, <3>1
    <3> QED BY <1>s, <1>t, <3>1, <3>2, PassStays DEF Live, Finished, Shapes
  <2> QED BY <1>2, <1>3, <1>4, <2>1, <2>2, <2>3 DEF DpcForIsr
<1> QED BY <1>1, <1>4

LEMMA PnpPasses ==
  ASSUME OneThread, Typed, Plug, OneThreadInv, PassInv, StallRequests \/ AbortRequests \/ PnpWork
  PROVE  PassInv'
<1>s. Shapes /\ LenOf \in [Irps -> Nat] /\ MapRegMax \in Nat
  BY ShapesHold, LengthAssumption
<1>t. TotalLength \in [Dirs -> Nat] /\ Offset \in [Dirs -> Nat] /\ Length \in [Dirs -> Nat]
  BY DEF Typed, PassTypes
<1>1. CASE RestartLength
  <2>u. /\ pnp = "length" /\ Length' = [Length EXCEPT ![pnpDir] = PassLength(pnpDir)]
        /\ UNCHANGED <<Offset, TotalLength, addr, target, done, moved, pc, Status, completions, dpc>>
    BY <1>1 DEF RestartLength, StartLength, Set, device, outcome, dpcVars
  <2>i. pnpIrp # NONE /\ Irp[pnpDir] = pnpIrp /\ pnpDir \in Dirs
    BY <1>s, <2>u DEF Plug, OneThreadInv, Taken, Shapes, PnpTypes
  <2>j. pnpIrp \in Irps /\ Live(pnpIrp) /\ DirOf[pnpIrp] = pnpDir
    BY <1>s, <2>i DEF OneThreadInv, Owners, Shapes
  <2>k. \A j \in Irps : Live(j)' => j = pnpIrp
    BY <2>u, <2>j DEF OneThreadInv, OneRequest, Live, Finished
  <2>p. PassLength(pnpDir) = LenOf[pnpIrp]
    BY <1>s, <2>j DEF PassInv, PassLength
  <2>1. /\ LenOf[pnpIrp] \in 1..MapRegMax /\ TotalLength'[pnpDir] = LenOf[pnpIrp]
        /\ Offset'[pnpDir] = 0 /\ Length'[pnpDir] \in {0, LenOf[pnpIrp]}
    BY <1>s, <1>t, <2>u, <2>p, <2>i, <2>j DEF PassInv
  <2>2. SuccessIsReal'
    BY <2>u DEF PassInv, SuccessIsReal
  <2> QED BY <2>u, <2>j, <2>k, <2>1, <2>2 DEF PassInv
<1>2. CASE RestartCurrent
  <2>u. /\ pnp = "current" /\ addr' = [addr EXCEPT ![pnpDir] = <<pnpIrp, Offset[pnpDir]>>]
        /\ UNCHANGED <<Length, Offset, TotalLength, target, done, moved, pc, Status, completions, dpc>>
    BY <1>2, OneThreadLacks DEF RestartCurrent, StartCurrent, Set, device, outcome, dpcVars, xfer
  <2>i. pnpIrp # NONE /\ Irp[pnpDir] = pnpIrp /\ pnpDir \in Dirs
    BY <1>s, <2>u DEF Plug, OneThreadInv, Taken, Shapes, PnpTypes
  <2>j. pnpIrp \in Irps /\ Live(pnpIrp) /\ DirOf[pnpIrp] = pnpDir
    BY <1>s, <2>i DEF OneThreadInv, Owners, Shapes
  <2>1. \A d \in Dirs : addr'[d] # NONE => addr'[d][2] = 0 /\ LenOf[addr'[d][1]] \in 1..MapRegMax
    <3> SUFFICES ASSUME NEW d \in Dirs, addr'[d] # NONE
                 PROVE  addr'[d][2] = 0 /\ LenOf[addr'[d][1]] \in 1..MapRegMax
      OBVIOUS
    <3>1. CASE d = pnpDir
      <4>1. addr'[d] = <<pnpIrp, 0>> /\ LenOf[pnpIrp] \in 1..MapRegMax
        BY <1>s, <2>u, <2>i, <2>j, <3>1 DEF PassInv, Shapes
      <4> QED BY <4>1
    <3>2. CASE d # pnpDir
      BY <1>s, <2>u, <3>2 DEF PassInv, Shapes
    <3> QED BY <3>1, <3>2
  <2>2. SuccessIsReal'
    BY <2>u DEF PassInv, SuccessIsReal
  <2> QED BY <2>u, <2>1, <2>2 DEF PassInv, Live, Finished
<1>3. CASE CleanupRequests
  <2>1. NotCancelling(Queue[pnpDir]) = {}
    BY <1>s, <1>3, NothingQueued DEF CleanupRequests, Shapes, PnpTypes
  <2>2. /\ UNCHANGED <<Length, Offset, TotalLength, addr, target, done, moved, pc, dpc>>
        /\ \A i \in Irps : Status'[i] = Status[i] /\ completions'[i] = completions[i]
    BY <1>s, <1>3, <2>1 DEF CleanupRequests, Shapes, OutcomeTypes, device, dpcVars, xfer
  <2>3. dpc' \notin {"timer", "length", "current"} /\ \A i \in Irps : Live(i)' => Live(i)
    BY <2>2 DEF PassInv, Live, Finished
  <2> QED BY <1>s, <1>t, <2>2, <2>3, PassStays DEF Shapes
<1>4. CASE \/ StallRequests \/ AbortRequests \/ WaitClearEvent \/ WaitCheck \/ WaitEvent \/ Resume
           \/ RestartRequests \/ RestartStart
  <2>1. UNCHANGED <<Length, Offset, TotalLength, addr, target, done, moved, pc, Status, completions, dpc>>
    BY <1>4 DEF StallRequests, AbortRequests, WaitClearEvent, WaitCheck, WaitEvent, Resume, RestartRequests,
       RestartStart, device, outcome, dpcVars, xfer
  <2> QED BY <1>s, <1>t, <2>1, PassStays DEF PassInv, Live, Finished, Shapes
<1> QED BY <1>1, <1>2, <1>3, <1>4 DEF PnpWork

LEMMA DevicePasses ==
  ASSUME OneThread, Typed, Plug, OneThreadInv, PassInv,
         Reset \/ StartDMA \/ \E d \in Dirs : DeviceDone(d)
  PROVE  PassInv'
<1>s. Shapes /\ LenOf \in [Irps -> Nat] /\ MapRegMax \in Nat
  BY ShapesHold, LengthAssumption
<1>t. TotalLength \in [Dirs -> Nat] /\ Offset \in [Dirs -> Nat] /\ Length \in [Dirs -> Nat]
  BY DEF Typed, PassTypes
<1>1. CASE Reset
  <2>1. /\ UNCHANGED <<Offset, TotalLength, addr, target, moved, pc, Status, completions, dpc>>
        /\ Length' = [d \in Dirs |-> 0] /\ done' = [d \in Dirs |-> FALSE]
    BY <1>1 DEF Reset, outcome, dpcVars
  <2>2. \A d \in Dirs : Length'[d] \in {0, Length[d]} /\ ~done'[d]
    BY <2>1
  <2> QED BY <1>s, <1>t, <2>1, <2>2, PassStays DEF PassInv, Live, Finished, Shapes
<1>2. CASE StartDMA
  <2>u. /\ UNCHANGED <<Length, Offset, TotalLength, addr, done, moved, pc, Status, completions, dpc>>
        /\ target' = [d \in Dirs |-> IF start'[d] /\ ~start[d] THEN addr[d] ELSE target[d]]
    BY <1>2 DEF StartDMA, outcome, dpcVars, xfer
  <2>1. \A d \in Dirs : target'[d] \in {addr[d], target[d]} /\ (done[d] => target'[d] = target[d])
    BY <2>u DEF OneThreadInv, Mapped
  <2>2. SuccessIsReal'
    BY <2>u DEF PassInv, SuccessIsReal
  <2> QED BY <2>u, <2>1, <2>2 DEF PassInv, Live, Finished
<1>3. ASSUME NEW d \in Dirs, DeviceDone(d) PROVE PassInv'
  <2>u. /\ UNCHANGED <<Length, Offset, TotalLength, addr, target, pc, Status, completions, dpc>>
        /\ done' = [done EXCEPT ![d] = TRUE]
        /\ moved' = moved \cup (IF target[d] = NONE THEN {} ELSE PassData(target[d]))
    BY <1>3 DEF DeviceDone, outcome, dpcVars, xfer, Set
  <2>1. \A e \in Dirs : done'[e] /\ target[e] # NONE => DataOf(target[e][1]) \subseteq moved'
    <3> SUFFICES ASSUME NEW e \in Dirs, done'[e], target[e] # NONE PROVE DataOf(target[e][1]) \subseteq moved'
      OBVIOUS
    <3>1. CASE e = d
      <4>1. target[d] # NONE /\ target[d][2] = 0 /\ LenOf[target[d][1]] \in 1..MapRegMax
        BY <3>1 DEF PassInv
      <4>2. \A u \in DataOf(target[d][1]) : u[2] >= 0 /\ u[2] < MapRegMax
        BY <1>s, <4>1 DEF DataOf
      <4>3. DataOf(target[d][1]) \subseteq PassData(target[d])
        BY <1>s, <4>1, <4>2 DEF PassData
      <4> QED BY <2>u, <3>1, <4>1, <4>3
    <3>2. CASE e # d
      BY <1>s, <2>u, <3>2 DEF PassInv, Shapes
    <3> QED BY <3>1, <3>2
  <2>2. SuccessIsReal'
    BY <2>u DEF PassInv, SuccessIsReal
  <2> QED BY <2>u, <2>1, <2>2 DEF PassInv, Live, Finished
<1> QED BY <1>1, <1>2, <1>3

LEMMA PassStep ==
  ASSUME OneThread, FitsOnePass, Typed, Plug, OneThreadInv, PassInv, [Next]_vars PROVE PassInv'
<1>s. Shapes /\ Length \in [Dirs -> Nat]
  BY ShapesHold DEF Shapes
<1>1. ASSUME NEW i \in Irps, CancelIrp(i) \/ CancelRequest(i) PROVE PassInv'
  <2>1. /\ UNCHANGED <<Length, Offset, TotalLength, addr, target, done, moved, pc, dpc>>
        /\ UNCHANGED outcome \/ Complete(i, "CANCELLED")
    BY <1>1 DEF CancelIrp, CancelRequest, device, dpcVars, xfer
  <2>2. \A j \in Irps : /\ Status'[j] = "SUCCESS" => Status[j] = "SUCCESS"
                        /\ completions[j] > 0 => completions'[j] > 0
    <3>1. CASE UNCHANGED outcome
      BY <3>1
    <3>2. CASE Complete(i, "CANCELLED")
      BY <1>s, <1>1, <3>2 DEF Complete, Shapes, OutcomeTypes
    <3> QED BY <2>1, <3>1, <3>2
  <2>3. \A j \in Irps : Live(j)' => Live(j)
    BY <2>1, <2>2 DEF Live, Finished
  <2> QED BY <1>s, <2>1, <2>2, <2>3, PassStays DEF PassInv, Shapes
<1>2. CASE BDMA_Isr \/ CheckTimer \/ UNCHANGED vars
  <2>1. UNCHANGED <<Length, Offset, TotalLength, addr, target, done, moved, pc, Status, completions, dpc>>
    BY <1>2 DEF BDMA_Isr, CheckTimer, vars, device, outcome, dpcVars, xfer
  <2> QED BY <1>s, <2>1, PassStays DEF PassInv, Live, Finished, Shapes
<1> QED BY <1>1, <1>2, DispatchPasses, DpcPasses, PnpPasses, DevicePasses DEF Next

THEOREM SuccessReal ==
  ASSUME OneThread, FitsOnePass PROVE Spec => []SuccessIsReal
<1>1. Init => PassInv
  BY DEF Init, PassInv, SuccessIsReal, Live
<1>2. Typed /\ Plug /\ OneThreadInv /\ PassInv /\ [Next]_vars => PassInv'
  BY PassStep
<1>3. PassInv => SuccessIsReal
  BY DEF PassInv
<1> QED BY <1>1, <1>2, <1>3, OneThreadHolds, PTL DEF Spec

(* ... the DPC never serves a direction without a request, and no null     *)
(* request or foreign device object is used.  (That the request is marked  *)
(* pending before it is completed is the assumption: OneThread excludes a  *)
(* timer tick while a request is being started, s3_1000.c:705.) ...        *)
THEOREM NeverTouched ==
  ASSUME OneThread PROVE Spec => []NotTouchedAfterCompletion
<1>1. Typed /\ Plug /\ OneThreadInv => NotTouchedAfterCompletion
  BY DEF NotTouchedAfterCompletion, OneThreadInv
<1> QED BY <1>1, OneThreadHolds, PTL

(* ... and a stop that has waited leaves nothing current and no buffer     *)
(* mapped.                                                                 *)
THEOREM StopQuiet ==
  ASSUME OneThread PROVE Spec => []StoppedIsQuiet
<1>1. Typed /\ Plug /\ OneThreadInv => StoppedIsQuiet
  BY DEF StoppedIsQuiet, OneThreadInv, Waiting, Quiet
<1> QED BY <1>1, OneThreadHolds, PTL

(* As long as no timer expires before the device has finished, the device  *)
(* moves data only into or out of a buffer that is mapped, for a request   *)
(* that is pending.  The timer takes this away: it releases the buffer and *)
(* does not stop the device.                                               *)
THEOREM BufferHeld ==
  ASSUME OneThread, "timeout" \notin Env PROVE Spec => []BufferIsHeld
<1>1. Typed /\ Plug /\ OneThreadInv => BufferIsHeld
  <2> SUFFICES ASSUME Typed, OneThreadInv, NEW d \in Dirs, start[d], ~done[d]
               PROVE  target[d] # NONE /\ SGL[d] = target[d] /\ ~Finished(target[d][1])
    BY DEF BufferIsHeld, Running
  <2>1. target[d] # NONE /\ SGL[d] = target[d] /\ Irp[d] = target[d][1]
    BY DEF OneThreadInv, Mapped
  <2>2. SGL[d] # NONE /\ Irp[d] # NONE
    BY <2>1 DEF OneThreadInv, Mapped
  <2> QED BY <2>1, <2>2 DEF OneThreadInv, Owners, Live
<1> QED BY <1>1, OneThreadHolds, PTL
-----------------------------------------------------------------------------
(***************************************************************************)
(* The refinement: the driver's requests are those of S3Requests.          *)
(***************************************************************************)
PhaseOf(i) ==
  CASE Finished(i) -> "done"
    [] pc[i] = "none" -> "new"
    [] OTHER -> "pending"
Phase == [i \in Irps |-> PhaseOf(i)]

(* S3Requests, with its variables replaced.                                *)
LEMMA RequestsAre ==
  /\ Requests!Init <=> /\ Phase = [i \in Irps |-> "new"]
                       /\ Status = [i \in Irps |-> "PENDING"]
                       /\ completions = [i \in Irps |-> 0]
  /\ Requests!vars = <<Phase, Status, completions>>
  /\ \A i : Requests!Accept(i) <=>
       /\ Phase[i] = "new" /\ Phase' = [Phase EXCEPT ![i] = "pending"]
       /\ UNCHANGED <<Status, completions>>
  /\ \A S : Requests!Finish(S) <=>
       /\ Phase' = [i \in Irps |-> IF i \in S THEN "done" ELSE Phase[i]]
       /\ completions' = [i \in Irps |-> IF i \in S THEN 1 ELSE completions[i]]
       /\ \A i \in Irps : IF i \in S THEN Status'[i] \in Statuses \ {"PENDING"}
                                     ELSE Status'[i] = Status[i]
  /\ \A i : Requests!Refuse(i) <=> Phase[i] = "new" /\ Requests!Finish({i})
  /\ \A S : Requests!Complete(S) <=> (\A i \in S : Phase[i] = "pending") /\ Requests!Finish(S)
BY DEF Requests!Init, Requests!vars, Requests!Accept, Requests!Finish, Requests!Refuse, Requests!Complete,
       Phase, PhaseOf

(* One request is completed, and no other call moves.                      *)
LEMMA FinishOne ==
  ASSUME Shapes, OneThreadInv, NEW i \in Irps, ~Finished(i), NEW s \in Statuses \ {"PENDING"},
         Complete(i, s), pc'[i] # "none", \A j \in Irps : j # i => (pc'[j] = "none" <=> pc[j] = "none")
  PROVE  Requests!Finish({i})
<1>1. completions[i] = 0
  BY DEF OneThreadInv, OneRequest, Finished
<1>2. completions' = [completions EXCEPT ![i] = 1]
  BY <1>1 DEF Complete
<1>3. \A j \in Irps : Status'[j] = IF j = i THEN s ELSE Status[j]
  BY DEF Complete, Shapes, OutcomeTypes
<1>4. \A j \in Irps : Finished(j)' <=> (j = i \/ Finished(j))
  BY <1>2 DEF Finished, Shapes, OutcomeTypes
<1>5. completions' = [j \in Irps |-> IF j \in {i} THEN 1 ELSE completions[j]]
  BY <1>2 DEF Shapes, OutcomeTypes
<1>6. \A j \in Irps : PhaseOf(j)' = IF j \in {i} THEN "done" ELSE PhaseOf(j)
  <2> SUFFICES ASSUME NEW j \in Irps PROVE PhaseOf(j)' = IF j = i THEN "done" ELSE PhaseOf(j)
    OBVIOUS
  <2>1. CASE Finished(j)'
    <3>1. pc'[j] # "none" /\ (j # i => Finished(j) /\ pc[j] # "none")
      BY <1>4, <2>1 DEF OneThreadInv, OneRequest
    <3> QED BY <2>1, <3>1 DEF PhaseOf
  <2>2. CASE ~Finished(j)'
    <3>1. ~Finished(j) /\ j # i /\ (pc'[j] = "none" <=> pc[j] = "none")
      BY <1>4, <2>2
    <3> QED BY <2>2, <3>1 DEF PhaseOf
  <2> QED BY <2>1, <2>2
<1>7. Phase' = [j \in Irps |-> IF j \in {i} THEN "done" ELSE Phase[j]]
  BY <1>6 DEF Phase
<1> QED BY <1>3, <1>5, <1>7, RequestsAre

(* A live request is completed.                                            *)
LEMMA CompleteOne ==
  ASSUME Shapes, OneThreadInv, NEW i \in Irps, Live(i), NEW s \in Statuses \ {"PENDING"},
         Complete(i, s), pc'[i] # "none", \A j \in Irps : j # i => (pc'[j] = "none" <=> pc[j] = "none")
  PROVE  Requests!Next
<1>1. Requests!Finish({i})
  BY FinishOne DEF Live
<1>2. Phase[i] = "pending"
  BY DEF Phase, PhaseOf, Live
<1>3. Requests!Complete({i}) /\ {i} \in (SUBSET Irps) \ {{}}
  BY <1>1, <1>2, RequestsAre
<1> QED BY <1>3 DEF Requests!Next

(* A step that completes and accepts nothing is a stutter.                 *)
LEMMA RequestsStay ==
  ASSUME UNCHANGED outcome, \A j \in Irps : pc'[j] = "none" <=> pc[j] = "none"
  PROVE  UNCHANGED Requests!vars
<1>1. \A j \in Irps : PhaseOf(j)' = PhaseOf(j)
  BY DEF PhaseOf, Finished
<1>2. Phase' = Phase
  BY <1>1 DEF Phase
<1>3. Requests!vars = <<Phase, Status, completions>>
  BY DEF Requests!vars, Phase, PhaseOf
<1> QED BY <1>2 DEF Requests!vars, Phase, PhaseOf

(* Every step is one of S3Requests, or a stutter.                          *)
LEMMA RequestsStep ==
  ASSUME OneThread, Typed, Plug, OneThreadInv, [Next]_vars
  PROVE  [Requests!Next]_(Requests!vars)
<1>s. Shapes
  BY ShapesHold
<1>f. \A i \in Irps : completions[i] \in {0, 1} /\ (pc[i] = "none" => ~Finished(i))
  BY DEF OneThreadInv, OneRequest
<1>1. ASSUME NEW i \in Irps, DispatchAccept(i) PROVE Requests!Next
  <2>1. /\ pc[i] = "none" /\ UNCHANGED outcome
        /\ \A j \in Irps : pc'[j] = IF j = i THEN "lock" ELSE pc[j]
    BY <1>s, <1>1 DEF DispatchAccept, Shapes, CallTypes
  <2>2. /\ PhaseOf(i) = "new"
        /\ \A j \in Irps : PhaseOf(j)' = IF j = i THEN "pending" ELSE PhaseOf(j)
    BY <1>f, <2>1 DEF PhaseOf, Finished
  <2>3. Phase[i] = "new" /\ Phase' = [Phase EXCEPT ![i] = "pending"]
    BY <2>2 DEF Phase
  <2>4. Requests!Accept(i)
    BY <2>1, <2>3, RequestsAre
  <2> QED BY <2>4 DEF Requests!Next
<1>2. ASSUME NEW i \in Irps, DispatchReject(i) PROVE Requests!Next
  <2>1. /\ pc[i] = "none" /\ ~Finished(i) /\ pc'[i] # "none"
        /\ \A j \in Irps : j # i => (pc'[j] = "none" <=> pc[j] = "none")
    BY <1>s, <1>f, <1>2 DEF DispatchReject, Shapes, CallTypes
  <2>2. Complete(i, IF LenOf[i] = 0 THEN "SUCCESS" ELSE "BUFFER_TOO_SMALL")
    BY <1>2 DEF DispatchReject
  <2>3. Requests!Finish({i})
    BY <1>s, <2>1, <2>2, FinishOne DEF Statuses
  <2>4. Phase[i] = "new"
    BY <2>1 DEF Phase, PhaseOf
  <2>5. Requests!Refuse(i)
    BY <2>3, <2>4, RequestsAre
  <2> QED BY <2>5 DEF Requests!Next
<1>3. ASSUME NEW i \in Irps, Dispatch(i), ~DispatchDrop(i) PROVE UNCHANGED Requests!vars
  <2>0. pc \in [Irps -> {"none", "lock", "held", "length", "current", "release", "unlock", "touch", "returned"}]
    BY <1>s DEF Shapes, CallTypes
  <2>1. UNCHANGED outcome
    BY <1>3, OneThreadLacks DEF Dispatch, DispatchLock, DispatchQueue, DispatchStart, DispatchLength,
       DispatchCurrent, StartCurrent, DispatchRelease, DispatchMarkPending
  <2>2. \A j \in Irps : pc'[j] = "none" <=> pc[j] = "none"
    <3>1. CASE \/ DispatchLock(i) \/ DispatchQueue(i) \/ DispatchStart(i) \/ DispatchLength(i)
               \/ DispatchMarkPending(i)
      BY <2>0, <3>1 DEF DispatchLock, DispatchQueue, DispatchStart, DispatchLength, DispatchMarkPending
    <3>2. CASE DispatchCurrent(i) \/ DispatchRelease(i)
      BY <2>0, <3>2 DEF DispatchCurrent, DispatchRelease, AfterRelease
    <3> QED BY <1>3, <3>1, <3>2 DEF Dispatch
  <2> QED BY <2>1, <2>2, RequestsStay
<1>4. ASSUME NEW i \in Irps, DispatchDrop(i) PROVE Requests!Next
  <2>1. /\ pc[i] = "held" /\ pc'[i] # "none" /\ \E s \in {"DELETE_PENDING", "CANCELLED"} : Complete(i, s)
        /\ \A j \in Irps : j # i => (pc'[j] = "none" <=> pc[j] = "none")
    BY <1>s, <1>4 DEF DispatchDrop, Shapes, CallTypes
  <2>2. Live(i)
    BY <2>1 DEF OneThreadInv, OneRequest, InDispatch, Live
  <2> QED BY <1>s, <2>1, <2>2, CompleteOne DEF Statuses
<1>5. ASSUME NEW i \in Irps, CancelIrp(i) PROVE UNCHANGED Requests!vars
  BY <1>5, RequestsStay DEF CancelIrp
<1>6. ASSUME NEW i \in Irps, CancelRequest(i) PROVE Requests!Next
  <2>1. Live(i) /\ Complete(i, "CANCELLED") /\ UNCHANGED pc
    BY <1>6 DEF CancelRequest, OneThreadInv, Owners
  <2> QED BY <1>s, <2>1, CompleteOne DEF Statuses, Live
<1>7. CASE BDMA_Isr \/ CheckTimer \/ Reset \/ StartDMA \/ \E d \in Dirs : DeviceDone(d)
  BY <1>7, RequestsStay DEF BDMA_Isr, CheckTimer, Reset, StartDMA, DeviceDone
<1>8. CASE DpcComplete
  <2>1. PassDone /\ UNCHANGED pc /\ Complete(Irp[dpcDir], IF iotimeout THEN "IO_TIMEOUT" ELSE "SUCCESS")
    BY <1>8 DEF DpcComplete
  <2>2. Irp[dpcDir] \in Irps /\ Live(Irp[dpcDir])
    BY <1>s, <2>1, DpcWithIrp
  <2> QED BY <1>s, <2>1, <2>2, CompleteOne DEF Statuses, Live
<1>9. CASE DpcForIsr /\ ~DpcComplete
  <2>1. UNCHANGED <<outcome, pc>>
    BY <1>9, OneThreadLacks DEF DpcForIsr, DpcBegin, DpcSkip, DpcWithoutIrp, DpcMore,
       DpcReset, DpcForget, DpcLookAtQueue, DpcDequeue, DpcStart, DpcLength, DpcCurrent, StartCurrent
  <2> QED BY <2>1, RequestsStay
<1>10. CASE StallRequests \/ AbortRequests \/ PnpWork
  <2>1. CASE CleanupRequests
    <3>1. NotCancelling(Queue[pnpDir]) = {}
      BY <1>s, <2>1, NothingQueued DEF CleanupRequests, Shapes, PnpTypes
    <3>2. UNCHANGED <<outcome, pc>>
      BY <1>s, <2>1, <3>1 DEF CleanupRequests, Shapes, OutcomeTypes
    <3> QED BY <3>2, RequestsStay
  <2>2. CASE ~CleanupRequests
    <3>1. UNCHANGED <<outcome, pc>>
      BY <1>10, <2>2, OneThreadLacks DEF PnpWork, StallRequests, AbortRequests, WaitClearEvent, WaitCheck,
         WaitEvent, Resume, RestartRequests, RestartStart, RestartLength, RestartCurrent, StartCurrent
    <3> QED BY <3>1, RequestsStay
  <2> QED BY <2>1, <2>2
<1>11. CASE UNCHANGED vars
  BY <1>11, RequestsStay DEF vars
<1> QED BY <1>1, <1>2, <1>3, <1>4, <1>5, <1>6, <1>7, <1>8, <1>9, <1>10, <1>11 DEF Next

(* The safety half of ImplementsRequests: a request goes from new to       *)
(* pending to completed, once, or is refused, and a status stays.          *)
THEOREM RequestsImplemented ==
  ASSUME OneThread PROVE Spec => Requests!Init /\ [][Requests!Next]_(Requests!vars)
<1>1. Init => Requests!Init
  <2> SUFFICES ASSUME Init PROVE Requests!Init
    OBVIOUS
  <2>1. \A i \in Irps : PhaseOf(i) = "new"
    BY DEF Init, PhaseOf, Finished
  <2>2. Phase = [i \in Irps |-> "new"]
    BY <2>1 DEF Phase
  <2> QED BY <2>2, RequestsAre DEF Init
<1>2. Typed /\ Plug /\ OneThreadInv /\ [Next]_vars => [Requests!Next]_(Requests!vars)
  BY RequestsStep
<1> QED BY <1>1, <1>2, OneThreadHolds, PTL DEF Spec
=============================================================================
