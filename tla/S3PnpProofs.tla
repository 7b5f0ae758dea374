---------------------------- MODULE S3PnpProofs ----------------------------
(***************************************************************************)
(* The Plug and Play requests of the Windows driver, for any order of the  *)
(* manager's requests and of the application's, and any length of the run. *)
(*                                                                         *)
(* A handler is a sequence of calls.  The proof writes the sequence of each *)
(* handler out, shows that Handler is that sequence, and says what holds of *)
(* the device before its k-th call; each call then leads to the assertion  *)
(* of the next one.                                                        *)
(***************************************************************************)
EXTENDS S3Pnp, SequenceTheorems, TLAPS

(***************************************************************************)
(* The handlers, call by call.                                             *)
(***************************************************************************)
Words ==
  {"adapters", "connect", "enable", "disable", "disconnect", "put", "state", "allow", "stall",
   "restart", "restartPhysical", "clear", "check", "abort", "cleanup", "send", "started", "restore", "acquire",
   "release", "complete", "drain", "return", "read", "write", "Started", "StopPending",
   "RemovePending", "Stopped", "Deleted", "SurpriseRemoved"}
Steps == {<<w>> : w \in Words} \cup (Words \X Words)
Calls == Seq(Steps)

Starting ==
  <<<<"adapters">>, <<"connect">>, <<"enable">>, <<"state", "Started">>, <<"allow">>,
    <<"restart", "read">>, <<"restart", "write">>, <<"release">>, <<"complete">>, <<"return">>>>
QueryingStop ==
  <<<<"stall", "read">>, <<"stall", "write">>, <<"clear", "read">>, <<"check", "read">>,
    <<"clear", "write">>, <<"check", "write">>, <<"state", "StopPending">>, <<"acquire">>,
    <<"complete">>, <<"release">>, <<"complete">>, <<"return">>>>
QueryingRemove ==
  <<<<"stall", "read">>, <<"stall", "write">>, <<"clear", "read">>, <<"check", "read">>,
    <<"clear", "write">>, <<"check", "write">>, <<"state", "RemovePending">>, <<"acquire">>,
    <<"complete">>, <<"return">>>>
Stopping ==
  <<<<"clear", "read">>, <<"check", "read">>, <<"clear", "write">>, <<"check", "write">>,
    <<"disconnect">>, <<"put", "read">>, <<"put", "write">>, <<"disable">>,
    <<"state", "Stopped">>, <<"release">>, <<"complete">>, <<"return">>>>
Removing ==
  <<<<"clear", "read">>, <<"check", "read">>, <<"clear", "write">>, <<"check", "write">>,
    <<"disconnect">>, <<"put", "read">>, <<"put", "write">>, <<"disable">>,
    <<"state", "Stopped">>, <<"state", "Deleted">>, <<"complete">>, <<"drain">>, <<"return">>>>
CancellingStop ==
  <<<<"send">>, <<"started">>, <<"restartPhysical", "read">>, <<"restartPhysical", "write">>,
    <<"release">>, <<"complete">>, <<"return">>>>
CancellingRemove ==
  <<<<"send">>, <<"restart", "read">>, <<"restart", "write">>, <<"restore">>,
    <<"release">>, <<"complete">>, <<"return">>>>
Ignoring ==
  <<<<"acquire">>, <<"complete">>, <<"release">>, <<"complete">>, <<"return">>>>
Surprising ==
  <<<<"abort", "read">>, <<"cleanup", "read">>, <<"abort", "write">>, <<"cleanup", "write">>,
    <<"state", "SurpriseRemoved">>, <<"disable">>, <<"disconnect">>, <<"put", "read">>,
    <<"put", "write">>, <<"acquire">>, <<"complete">>, <<"release">>, <<"complete">>, <<"return">>>>
Passing == <<<<"complete">>, <<"return">>>>
Closing == <<<<"release">>, <<"complete">>, <<"return">>>>

(* What is left of a handler from its k-th call on.                        *)
From(P, k) == SubSeq(P, k, Len(P))
Waiting(d, P, k) == <<<<"wait", d>>>> \o From(P, k)
-----------------------------------------------------------------------------
(***************************************************************************)
(* The invariant: what holds of the device before each call.               *)
(***************************************************************************)
(* What the proofs assume: no lower driver refuses a QUERY_STOP, the       *)
(* adapters are had, and no request is in a queue when a stop is           *)
(* cancelled.  Restarts says that the start after a stop succeeds.         *)
Usual == Env \subseteq {"failure", "surprise", "restartfail"}
Restarts == "restartfail" \notin Env

Types ==
  /\ DevicePnPState \in States /\ PreviousPnPState \in States
  /\ RemoveLock \in Int
  /\ InterruptObject \in Ownership /\ adapter \in [Dirs -> Ownership]
  /\ interface \in BOOLEAN /\ open \in BOOLEAN
  /\ stallcount \in [Dirs -> 0..1] /\ abortstatus \in [Dirs -> BOOLEAN]
  /\ evStop \in [Dirs -> BOOLEAN] /\ req \in [Dirs -> {"free", "queued", "current"}]
  /\ minor \in Minors \cup {"NONE"} /\ status \in {"SUCCESS", "FAILURE"}
  /\ manager \in {"down", "up", "stopPending", "stopped", "removePending",
                 "failed", "gone", "deleted"}
  /\ completions \in 0..2 /\ misuse \subseteq {"interrupt", "adapter"}
  /\ ~open => \A d \in Dirs : req[d] = "free"

Present == (\A d \in Dirs : ~abortstatus[d]) /\ (Restarts => misuse = {})
Connected == InterruptObject = "held" /\ \A d \in Dirs : adapter[d] = "held"
Fresh == Restarts => InterruptObject # "stale" /\ \A d \in Dirs : adapter[d] # "stale"
Stalls(r, w) == stallcount["read"] = r /\ stallcount["write"] = w
Quiet == \A d \in Dirs : req[d] # "current"
Unqueued == \A d \in Dirs : stallcount[d] # 0 => req[d] # "queued"

(* The device between two requests of the manager.                         *)
Working   == Present /\ Connected /\ Stalls(0, 0) /\ DevicePnPState = "Started"
Held(s)   == /\ Present /\ Connected /\ Stalls(1, 1) /\ Quiet
             /\ DevicePnPState = s /\ PreviousPnPState = "Started"
Idle      == Present /\ Stalls(1, 1) /\ Quiet /\ DevicePnPState = "Stopped"
Unstarted == /\ Present /\ Fresh /\ Stalls(1, 1) /\ Quiet /\ DevicePnPState = "NotStarted"
             /\ ~interface /\ ~open
Gone      == (\A d \in Dirs : abortstatus[d] /\ req[d] # "queued") /\ ~interface
             /\ DevicePnPState = "SurpriseRemoved"
Closed    == (\A d \in Dirs : abortstatus[d] /\ req[d] = "free") /\ ~interface /\ ~open
Deleted   == /\ Closed \/ (Present /\ Stalls(1, 1) /\ Quiet)
             /\ DevicePnPState = "Deleted"

AtRest ==
  /\ manager = "down" => Unstarted
  /\ manager = "failed" => Unstarted \/ (Idle /\ ~Restarts)
  /\ manager = "up" => Working
  /\ manager = "stopPending" => Held("StopPending")
  /\ manager = "removePending" => IF status = "SUCCESS" THEN Held("RemovePending") ELSE Working
  /\ manager = "stopped" => Idle
  /\ manager = "gone" => Gone
  /\ manager = "deleted" => Deleted

(* ... and when it has sent one, before the handler runs.                  *)
Sent ==
  /\ minor = "START" => (manager = "down" /\ Unstarted) \/ (manager = "stopped" /\ Idle)
  /\ minor \in {"QUERY_STOP", "QUERY_REMOVE", "OTHER"} => Working
  /\ minor = "OTHER" => manager = "up"
  /\ minor \in {"STOP", "CANCEL_STOP"} => Held("StopPending")
  /\ minor = "CANCEL_STOP" => Unqueued
  /\ minor = "REMOVE" => \/ Unstarted \/ Held("RemovePending") \/ (Idle /\ ~Restarts)
                         \/ (Closed /\ DevicePnPState = "SurpriseRemoved")
  /\ minor = "CANCEL_REMOVE" => Held("RemovePending") \/ Working
  /\ minor = "SURPRISE" => Working \/ Held("StopPending") \/ Held("RemovePending") \/ Idle

Starts(k) ==
  /\ Present
  /\ Stalls(IF k <= 6 THEN 1 ELSE 0, IF k <= 7 THEN 1 ELSE 0)
  /\ k <= 6 => Quiet
  /\ k >= 2 => \A d \in Dirs : adapter[d] = "held"
  /\ k >= 3 => InterruptObject = "held"
  /\ IF k <= 4 THEN DevicePnPState \in {"NotStarted", "Stopped"} ELSE DevicePnPState = "Started"
  /\ k <= 2 => (manager = "down" /\ Unstarted) \/ (manager = "stopped" /\ Idle)
  /\ status = "SUCCESS" /\ completions = IF k <= 9 THEN 0 ELSE 1

(* Both queries, up to the new state.                                      *)
Queries(k, s) ==
  /\ Present /\ Connected
  /\ Stalls(IF k <= 1 THEN 0 ELSE 1, IF k <= 2 THEN 0 ELSE 1)
  /\ k = 4 /\ evStop["read"] => req["read"] # "current"
  /\ k = 6 /\ evStop["write"] => req["write"] # "current"
  /\ k > 4 => req["read"] # "current"
  /\ k > 6 => req["write"] # "current"
  /\ IF k <= 7 THEN DevicePnPState = "Started"
               ELSE DevicePnPState = s /\ PreviousPnPState = "Started"
  /\ status = "SUCCESS"
QueriesStop(k) ==
  Queries(k, "StopPending") /\ completions = IF k <= 9 THEN 0 ELSE IF k <= 11 THEN 1 ELSE 2
QueriesRemove(k) ==
  Queries(k, "RemovePending") /\ completions = IF k <= 9 THEN 0 ELSE 1

(* StopDevice gives back what is not stale.                                *)
GivesBack(k) ==
  /\ Present /\ Stalls(1, 1) /\ Quiet
  /\ k <= 5 /\ Restarts => InterruptObject # "stale"
  /\ k <= 6 /\ Restarts => adapter["read"] # "stale"
  /\ k <= 7 /\ Restarts => adapter["write"] # "stale"
Stops(k) ==
  /\ GivesBack(k)
  /\ DevicePnPState = IF k <= 9 THEN "StopPending" ELSE "Stopped"
  /\ completions = IF k <= 11 THEN 0 ELSE 1
Removes(k) ==
  /\ \/ GivesBack(k) /\ (k <= 9 => DevicePnPState \in {"NotStarted", "RemovePending", "Stopped"})
     \/ Closed /\ (k <= 9 => DevicePnPState = "SurpriseRemoved")
  /\ k = 10 => DevicePnPState = "Stopped"
  /\ k > 10 => DevicePnPState = "Deleted"
  /\ completions = IF k <= 11 THEN 0 ELSE 1

CancelsStop(k) ==
  /\ Present /\ Connected /\ Unqueued
  /\ Stalls(IF k <= 3 THEN 1 ELSE 0, IF k <= 4 THEN 1 ELSE 0)
  /\ IF k <= 2 THEN Quiet /\ DevicePnPState = "StopPending" ELSE DevicePnPState = "Started"
  /\ completions = IF k <= 6 THEN 0 ELSE 1
CancelsRemove(k) ==
  /\ Present /\ Connected
  /\ Stalls(IF k <= 2 THEN 1 ELSE 0, IF k <= 3 THEN 1 ELSE 0)
  /\ IF k <= 4 THEN DevicePnPState = "RemovePending" /\ PreviousPnPState = "Started"
               ELSE DevicePnPState = "Started"
  /\ completions = IF k <= 6 THEN 0 ELSE 1
Ignores(k) ==
  Working /\ completions = IF k <= 2 THEN 0 ELSE IF k <= 4 THEN 1 ELSE 2

(* The queues are aborted before anything is given back.                   *)
Vanishes(k) ==
  /\ k = 1 => Present
  /\ k > 1 => abortstatus["read"]
  /\ k > 3 => abortstatus["write"]
  /\ k <= 3 => ~abortstatus["write"]
  /\ k > 2 => req["read"] # "queued"
  /\ k > 4 => req["write"] # "queued"
  /\ \/ k <= 5 /\ DevicePnPState = "Started" /\ Connected /\ Stalls(0, 0)
     \/ k <= 5 /\ DevicePnPState \in {"StopPending", "RemovePending", "Stopped"} /\ Quiet /\ Stalls(1, 1)
     \/ k > 5 /\ DevicePnPState = "SurpriseRemoved"
  /\ k > 6 => ~interface
  /\ completions = IF k <= 11 THEN 0 ELSE IF k <= 13 THEN 1 ELSE 2

Passes(k) == Working /\ manager = "up" /\ completions = IF k <= 1 THEN 0 ELSE 1
Closes(k) ==
  /\ status = "FAILURE" /\ completions = IF k <= 2 THEN 0 ELSE 1
  /\ (minor = "START" /\ (Unstarted \/ (Idle /\ ~Restarts))) \/ (minor = "QUERY_REMOVE" /\ Working)

(* Where the request under way is: none, sent down first, or in a handler, *)
(* which may be in a wait of StallRequests.                                *)
AtNone == minor = "NONE" /\ todo = <<>> /\ AtRest
AtSend == todo = Do("sendfirst") /\ minor # "NONE" /\ Sent /\ completions = 0 /\ status = "SUCCESS"
AtStart == minor = "START" /\ \E k \in 1..10 : todo = From(Starting, k) /\ Starts(k)
AtQueryStop ==
  /\ minor = "QUERY_STOP"
  /\ \/ \E k \in 1..12 : todo = From(QueryingStop, k) /\ QueriesStop(k)
     \/ todo = Waiting("read", QueryingStop, 5) /\ QueriesStop(4)
     \/ todo = Waiting("write", QueryingStop, 7) /\ QueriesStop(6)
AtQueryRemove ==
  /\ minor = "QUERY_REMOVE"
  /\ \/ \E k \in 1..10 : todo = From(QueryingRemove, k) /\ QueriesRemove(k)
     \/ todo = Waiting("read", QueryingRemove, 5) /\ QueriesRemove(4)
     \/ todo = Waiting("write", QueryingRemove, 7) /\ QueriesRemove(6)
AtStop == minor = "STOP" /\ \E k \in 1..12 : todo = From(Stopping, k) /\ Stops(k)
AtRemove == minor = "REMOVE" /\ \E k \in 1..13 : todo = From(Removing, k) /\ Removes(k)
AtCancelStop == minor = "CANCEL_STOP" /\ \E k \in 1..7 : todo = From(CancellingStop, k) /\ CancelsStop(k)
AtCancelRemove ==
  minor = "CANCEL_REMOVE" /\ \E k \in 1..7 : todo = From(CancellingRemove, k) /\ CancelsRemove(k)
AtIgnored == minor = "CANCEL_REMOVE" /\ \E k \in 1..5 : todo = From(Ignoring, k) /\ Ignores(k)
AtSurprise == minor = "SURPRISE" /\ \E k \in 1..14 : todo = From(Surprising, k) /\ Vanishes(k)
AtOther == minor = "OTHER" /\ \E k \in 1..2 : todo = From(Passing, k) /\ Passes(k)
AtRefused == \E k \in 1..3 : todo = From(Closing, k) /\ Closes(k)

Control ==
  \/ AtNone \/ AtSend \/ AtStart \/ AtQueryStop \/ AtQueryRemove \/ AtStop \/ AtRemove
  \/ AtCancelStop \/ AtCancelRemove \/ AtIgnored \/ AtSurprise \/ AtOther \/ AtRefused

PnpInv == Types /\ Control
-----------------------------------------------------------------------------
(***************************************************************************)
(* Sequences of calls.                                                     *)
(***************************************************************************)
Part(P, i, j) == SubSeq(P, i + 1, j)
Cat(s, t) == s \o t

(* The first of the calls that are left, and those after it.               *)
LEMMA FromFirst ==
  ASSUME NEW P \in Calls, NEW k \in 1..Len(P)
  PROVE  From(P, k) # <<>> /\ Head(From(P, k)) = P[k] /\ Tail(From(P, k)) = From(P, k + 1)
<1>1. Len(P) \in k..Len(P) /\ \A i \in 1..Len(P) : P[i] \in Steps
  BY DEF Calls
<1>2. Head(From(P, k)) = P[k] /\ Tail(From(P, k)) = From(P, k + 1)
  BY <1>1, HeadTailOfSubSeq DEF From, Calls
<1>3. Len(From(P, k)) > 0
  BY <1>1, SubSeqProperties DEF From
<1> QED BY <1>2, <1>3

LEMMA FromAll ==
  ASSUME NEW P \in Calls
  PROVE  From(P, 1) = P /\ From(P, Len(P) + 1) = <<>> /\ Part(P, 0, Len(P)) = P
BY SubSeqFull, SubSeqEmpty DEF From, Part, Calls

LEMMA PartOne ==
  ASSUME NEW P \in Calls
  PROVE  \A i, j \in 0..Len(P) : j = i + 1 => Part(P, i, j) = <<P[j]>>
<1> SUFFICES ASSUME NEW i \in 0..Len(P), i + 1 \in 0..Len(P)
             PROVE  Part(P, i, i + 1) = <<P[i + 1]>>
  OBVIOUS
<1>1. \A m \in 1..Len(P) : P[m] \in Steps
  BY DEF Calls
<1>2. /\ Part(P, i, i + 1) \in Seq(Steps) /\ Len(Part(P, i, i + 1)) = 1
      /\ Part(P, i, i + 1)[1] = P[i + 1]
  BY <1>1, SubSeqProperties DEF Part
<1> QED BY <1>2

LEMMA PartTwo ==
  ASSUME NEW P \in Calls
  PROVE  \A i, m, j \in 0..Len(P) : m = i + 1 /\ j = m + 1 => Part(P, i, j) = <<P[m], P[j]>>
<1> SUFFICES ASSUME NEW i \in 0..Len(P), i + 2 \in 0..Len(P)
             PROVE  Part(P, i, i + 2) = <<P[i + 1], P[i + 2]>>
  OBVIOUS
<1>1. \A m \in 1..Len(P) : P[m] \in Steps
  BY DEF Calls
<1>2. /\ Part(P, i, i + 2) \in Seq(Steps) /\ Len(Part(P, i, i + 2)) = 2
      /\ Part(P, i, i + 2)[1] = P[i + 1] /\ Part(P, i, i + 2)[2] = P[i + 2]
  BY <1>1, SubSeqProperties DEF Part
<1> QED BY <1>2

LEMMA Join ==
  ASSUME NEW P \in Calls
  PROVE  \A i, m, j \in 0..Len(P) :
           i <= m /\ m <= j => Cat(Part(P, i, m), Part(P, m, j)) = Part(P, i, j)
<1> SUFFICES ASSUME NEW i \in 0..Len(P), NEW m \in 0..Len(P), NEW j \in 0..Len(P), i <= m, m <= j
             PROVE  Cat(Part(P, i, m), Part(P, m, j)) = Part(P, i, j)
  OBVIOUS
<1>1. i + 1 \in 1..Len(P) + 1 /\ m \in (i + 1) - 1..Len(P) /\ j \in m..Len(P)
  OBVIOUS
<1> QED BY <1>1, ConcatAdjacentSubSeq DEF Part, Cat, Calls

Parted(P, len) ==
  /\ \A i, j \in 0..len : j = i + 1 => Part(P, i, j) = <<P[j]>>
  /\ \A i, m, j \in 0..len : m = i + 1 /\ j = m + 1 => Part(P, i, j) = <<P[m], P[j]>>
  /\ \A i, m, j \in 0..len : i <= m /\ m <= j => Cat(Part(P, i, m), Part(P, m, j)) = Part(P, i, j)
  /\ P = Part(P, 0, len)

LEMMA InParts == ASSUME NEW P \in Calls PROVE Parted(P, Len(P))
BY PartOne, PartTwo, Join, FromAll DEF Parted

LEMMA StartingCalls ==
  /\ Starting \in Calls /\ Len(Starting) = 10
  /\ Starting[1] = <<"adapters">> /\ Starting[2] = <<"connect">> /\ Starting[3] = <<"enable">>
  /\ Starting[4] = <<"state", "Started">> /\ Starting[5] = <<"allow">>
  /\ Starting[6] = <<"restart", "read">> /\ Starting[7] = <<"restart", "write">>
  /\ Starting[8] = <<"release">> /\ Starting[9] = <<"complete">> /\ Starting[10] = <<"return">>
BY DEF Starting, Calls, Steps, Words

LEMMA StartingIs ==
  PnPStartDevice = Starting
<1>1. Parted(Starting, 10)
  BY StartingCalls, InParts
<1>2. /\ Do("adapters") = Part(Starting, 0, 1) /\ Do("connect") = Part(Starting, 1, 2)
      /\ Do("enable") = Part(Starting, 2, 3) /\ Enter("Started") = Part(Starting, 3, 4)
      /\ Do("allow") = Part(Starting, 4, 5) /\ Do("release") = Part(Starting, 7, 8)
      /\ Do("complete") = Part(Starting, 8, 9) /\ Do("return") = Part(Starting, 9, 10)
  BY <1>1, StartingCalls DEF Parted, Do, Enter
<1>3. /\ Both("restart") = Part(Starting, 5, 7)
  BY <1>1, StartingCalls DEF Parted, Both
<1>4. PnPStartDevice =
        Cat(Cat(Cat(Cat(Cat(Cat(Do("adapters"), Do("connect")), Do("enable")), Enter("Started")),
        Do("allow")), Both("restart")), Cat(Do("release"), Cat(Do("complete"), Do("return"))))
  BY DEF Cat, DispatchClose, PnPStartDevice, ReleaseAndClose
<1> QED BY <1>1, <1>2, <1>3, <1>4 DEF Parted

LEMMA QueryingStopCalls ==
  /\ QueryingStop \in Calls /\ Len(QueryingStop) = 12
  /\ QueryingStop[1] = <<"stall", "read">> /\ QueryingStop[2] = <<"stall", "write">>
  /\ QueryingStop[3] = <<"clear", "read">> /\ QueryingStop[4] = <<"check", "read">>
  /\ QueryingStop[5] = <<"clear", "write">> /\ QueryingStop[6] = <<"check", "write">>
  /\ QueryingStop[7] = <<"state", "StopPending">> /\ QueryingStop[8] = <<"acquire">>
  /\ QueryingStop[9] = <<"complete">> /\ QueryingStop[10] = <<"release">>
  /\ QueryingStop[11] = <<"complete">> /\ QueryingStop[12] = <<"return">>
BY DEF QueryingStop, Calls, Steps, Words

LEMMA QueryingStopIs ==
  DevicePnPState = "Started" => PnPQueryStopDevice = QueryingStop
<1>1. Parted(QueryingStop, 12)
  BY QueryingStopCalls, InParts
<1>2. /\ Enter("StopPending") = Part(QueryingStop, 6, 7)
      /\ Do("acquire") = Part(QueryingStop, 7, 8) /\ Do("complete") = Part(QueryingStop, 8, 9)
      /\ Do("release") = Part(QueryingStop, 9, 10)
      /\ Do("complete") = Part(QueryingStop, 10, 11)
      /\ Do("return") = Part(QueryingStop, 11, 12)
  BY <1>1, QueryingStopCalls, SMTT(30) DEF Parted, Do, Enter
<1>3. /\ Both("stall") = Part(QueryingStop, 0, 2)
      /\ WaitForCurrentIrp("read") = Part(QueryingStop, 2, 4)
      /\ WaitForCurrentIrp("write") = Part(QueryingStop, 4, 6)
  BY <1>1, QueryingStopCalls, SMTT(30) DEF Parted, Both, WaitForCurrentIrp
<1>4. DevicePnPState = "Started" => PnPQueryStopDevice =
        Cat(Cat(Cat(Cat(Both("stall"), Cat(WaitForCurrentIrp("read"),
        WaitForCurrentIrp("write"))), Enter("StopPending")), Cat(Do("acquire"), Do("complete"))),
        Cat(Do("release"), Cat(Do("complete"), Do("return"))))
  BY DEF Cat, DispatchClose, PassDown, PnPQueryStopDevice, ReleaseAndClose, WaitBoth
<1> QED BY <1>1, <1>2, <1>3, <1>4 DEF Parted

LEMMA QueryingRemoveCalls ==
  /\ QueryingRemove \in Calls /\ Len(QueryingRemove) = 10
  /\ QueryingRemove[1] = <<"stall", "read">> /\ QueryingRemove[2] = <<"stall", "write">>
  /\ QueryingRemove[3] = <<"clear", "read">> /\ QueryingRemove[4] = <<"check", "read">>
  /\ QueryingRemove[5] = <<"clear", "write">> /\ QueryingRemove[6] = <<"check", "write">>
  /\ QueryingRemove[7] = <<"state", "RemovePending">> /\ QueryingRemove[8] = <<"acquire">>
  /\ QueryingRemove[9] = <<"complete">> /\ QueryingRemove[10] = <<"return">>
BY DEF QueryingRemove, Calls, Steps, Words

LEMMA QueryingRemoveIs ==
  DevicePnPState = "Started" => PnPQueryRemoveDevice = QueryingRemove
<1>1. Parted(QueryingRemove, 10)
  BY QueryingRemoveCalls, InParts
<1>2. /\ Enter("RemovePending") = Part(QueryingRemove, 6, 7)
      /\ Do("acquire") = Part(QueryingRemove, 7, 8)
      /\ Do("complete") = Part(QueryingRemove, 8, 9)
      /\ Do("return") = Part(QueryingRemove, 9, 10)
  BY <1>1, QueryingRemoveCalls, SMTT(30) DEF Parted, Do, Enter
<1>3. /\ Both("stall") = Part(QueryingRemove, 0, 2)
      /\ WaitForCurrentIrp("read") = Part(QueryingRemove, 2, 4)
      /\ WaitForCurrentIrp("write") = Part(QueryingRemove, 4, 6)
  BY <1>1, QueryingRemoveCalls, SMTT(30) DEF Parted, Both, WaitForCurrentIrp
<1>4. DevicePnPState = "Started" => PnPQueryRemoveDevice =
        Cat(Cat(Cat(Cat(Both("stall"), Cat(WaitForCurrentIrp("read"),
        WaitForCurrentIrp("write"))), Enter("RemovePending")), Cat(Do("acquire"),
        Do("complete"))), Do("return"))
  BY DEF Cat, PassDown, PnPQueryRemoveDevice, WaitBoth
<1> QED BY <1>1, <1>2, <1>3, <1>4 DEF Parted

LEMMA StoppingCalls ==
  /\ Stopping \in Calls /\ Len(Stopping) = 12
  /\ Stopping[1] = <<"clear", "read">> /\ Stopping[2] = <<"check", "read">>
  /\ Stopping[3] = <<"clear", "write">> /\ Stopping[4] = <<"check", "write">>
  /\ Stopping[5] = <<"disconnect">> /\ Stopping[6] = <<"put", "read">>
  /\ Stopping[7] = <<"put", "write">> /\ Stopping[8] = <<"disable">>
  /\ Stopping[9] = <<"state", "Stopped">> /\ Stopping[10] = <<"release">>
  /\ Stopping[11] = <<"complete">> /\ Stopping[12] = <<"return">>
BY DEF Stopping, Calls, Steps, Words

LEMMA StoppingIs ==
  PnPStopDevice = Stopping
<1>1. Parted(Stopping, 12)
  BY StoppingCalls, InParts
<1>2. /\ Do("disconnect") = Part(Stopping, 4, 5) /\ Do("disable") = Part(Stopping, 7, 8)
      /\ Enter("Stopped") = Part(Stopping, 8, 9) /\ Do("release") = Part(Stopping, 9, 10)
      /\ Do("complete") = Part(Stopping, 10, 11) /\ Do("return") = Part(Stopping, 11, 12)
  BY <1>1, StoppingCalls, SMTT(30) DEF Parted, Do, Enter
<1>3. /\ WaitForCurrentIrp("read") = Part(Stopping, 0, 2)
      /\ WaitForCurrentIrp("write") = Part(Stopping, 2, 4) /\ Both("put") = Part(Stopping, 5, 7)
  BY <1>1, StoppingCalls, SMTT(30) DEF Parted, Both, WaitForCurrentIrp
<1>4. PnPStopDevice =
        Cat(Cat(Cat(Cat(Cat(Cat(WaitForCurrentIrp("read"), WaitForCurrentIrp("write")),
        Do("disconnect")), Both("put")), Do("disable")), Enter("Stopped")), Cat(Do("release"),
        Cat(Do("complete"), Do("return"))))
  BY DEF Cat, DispatchClose, PnPStopDevice, ReleaseAndClose, StopDevice, WaitBoth
<1> QED BY <1>1, <1>2, <1>3, <1>4 DEF Parted

LEMMA RemovingCalls ==
  /\ Removing \in Calls /\ Len(Removing) = 13
  /\ Removing[1] = <<"clear", "read">> /\ Removing[2] = <<"check", "read">>
  /\ Removing[3] = <<"clear", "write">> /\ Removing[4] = <<"check", "write">>
  /\ Removing[5] = <<"disconnect">> /\ Removing[6] = <<"put", "read">>
  /\ Removing[7] = <<"put", "write">> /\ Removing[8] = <<"disable">>
  /\ Removing[9] = <<"state", "Stopped">> /\ Removing[10] = <<"state", "Deleted">>
  /\ Removing[11] = <<"complete">> /\ Removing[12] = <<"drain">> /\ Removing[13] = <<"return">>
BY DEF Removing, Calls, Steps, Words

LEMMA RemovingIs ==
  PnPRemoveDevice = Removing
<1>1. Parted(Removing, 13)
  BY RemovingCalls, InParts
<1>2. /\ \A i, j \in 0..13 : j = i + 1 => Part(Removing, i, j) = <<Removing[j]>>
      /\ \A i, m, j \in 0..13 :
           m = i + 1 /\ j = m + 1 => Part(Removing, i, j) = <<Removing[m], Removing[j]>>
  BY <1>1 DEF Parted
<1>3. /\ Do("disconnect") = Part(Removing, 4, 5) /\ Do("disable") = Part(Removing, 7, 8)
      /\ Enter("Stopped") = Part(Removing, 8, 9) /\ Enter("Deleted") = Part(Removing, 9, 10)
  BY <1>2, RemovingCalls, SMTT(30) DEF Do, Enter
<1>4. /\ Do("complete") = Part(Removing, 10, 11) /\ Do("drain") = Part(Removing, 11, 12)
      /\ Do("return") = Part(Removing, 12, 13)
  BY <1>2, RemovingCalls, SMTT(30) DEF Do
<1>5. /\ WaitForCurrentIrp("read") = Part(Removing, 0, 2)
      /\ WaitForCurrentIrp("write") = Part(Removing, 2, 4) /\ Both("put") = Part(Removing, 5, 7)
  BY <1>2, RemovingCalls, SMTT(30) DEF Both, WaitForCurrentIrp
<1>6. PnPRemoveDevice =
        Cat(Cat(Cat(Cat(Cat(Cat(Cat(Cat(Cat(WaitForCurrentIrp("read"),
        WaitForCurrentIrp("write")), Do("disconnect")), Both("put")), Do("disable")),
        Enter("Stopped")), Enter("Deleted")), Do("complete")), Do("drain")), Do("return"))
  BY DEF Cat, PnPRemoveDevice, StopDevice, WaitBoth
<1> QED BY <1>1, <1>3, <1>4, <1>5, <1>6 DEF Parted

LEMMA CancellingStopCalls ==
  /\ CancellingStop \in Calls /\ Len(CancellingStop) = 7
  /\ CancellingStop[1] = <<"send">> /\ CancellingStop[2] = <<"started">>
  /\ CancellingStop[3] = <<"restartPhysical", "read">> /\ CancellingStop[4] = <<"restartPhysical", "write">>
  /\ CancellingStop[5] = <<"release">> /\ CancellingStop[6] = <<"complete">>
  /\ CancellingStop[7] = <<"return">>
BY DEF CancellingStop, Calls, Steps, Words

LEMMA CancellingStopIs ==
  DevicePnPState = "StopPending" => PnPCancelStopDevice = CancellingStop
<1>1. Parted(CancellingStop, 7)
  BY CancellingStopCalls, InParts
<1>2. /\ Do("send") = Part(CancellingStop, 0, 1) /\ Do("started") = Part(CancellingStop, 1, 2)
      /\ Do("release") = Part(CancellingStop, 4, 5)
      /\ Do("complete") = Part(CancellingStop, 5, 6)
      /\ Do("return") = Part(CancellingStop, 6, 7)
  BY <1>1, CancellingStopCalls DEF Parted, Do
<1>3. /\ Both("restartPhysical") = Part(CancellingStop, 2, 4)
  BY <1>1, CancellingStopCalls DEF Parted, Both
<1>4. DevicePnPState = "StopPending" => PnPCancelStopDevice =
        Cat(Cat(Cat(Do("send"), Do("started")), Both("restartPhysical")), Cat(Do("release"),
        Cat(Do("complete"), Do("return"))))
  BY DEF Cat, DispatchClose, PnPCancelStopDevice, ReleaseAndClose
<1> QED BY <1>1, <1>2, <1>3, <1>4 DEF Parted

LEMMA CancellingRemoveCalls ==
  /\ CancellingRemove \in Calls /\ Len(CancellingRemove) = 7
  /\ CancellingRemove[1] = <<"send">> /\ CancellingRemove[2] = <<"restart", "read">>
  /\ CancellingRemove[3] = <<"restart", "write">> /\ CancellingRemove[4] = <<"restore">>
  /\ CancellingRemove[5] = <<"release">> /\ CancellingRemove[6] = <<"complete">>
  /\ CancellingRemove[7] = <<"return">>
BY DEF CancellingRemove, Calls, Steps, Words

LEMMA CancellingRemoveIs ==
  DevicePnPState = "RemovePending" => PnPCancelRemoveDevice = CancellingRemove
<1>1. Parted(CancellingRemove, 7)
  BY CancellingRemoveCalls, InParts
<1>2. /\ Do("send") = Part(CancellingRemove, 0, 1)
      /\ Do("restore") = Part(CancellingRemove, 3, 4)
      /\ Do("release") = Part(CancellingRemove, 4, 5)
      /\ Do("complete") = Part(CancellingRemove, 5, 6)
      /\ Do("return") = Part(CancellingRemove, 6, 7)
  BY <1>1, CancellingRemoveCalls DEF Parted, Do
<1>3. /\ Both("restart") = Part(CancellingRemove, 1, 3)
  BY <1>1, CancellingRemoveCalls DEF Parted, Both
<1>4. DevicePnPState = "RemovePending" => PnPCancelRemoveDevice =
        Cat(Cat(Cat(Do("send"), Both("restart")), Do("restore")), Cat(Do("release"),
        Cat(Do("complete"), Do("return"))))
  BY DEF Cat, DispatchClose, PnPCancelRemoveDevice, ReleaseAndClose
<1> QED BY <1>1, <1>2, <1>3, <1>4 DEF Parted

LEMMA IgnoringCalls ==
  /\ Ignoring \in Calls /\ Len(Ignoring) = 5
  /\ Ignoring[1] = <<"acquire">> /\ Ignoring[2] = <<"complete">> /\ Ignoring[3] = <<"release">>
  /\ Ignoring[4] = <<"complete">> /\ Ignoring[5] = <<"return">>
BY DEF Ignoring, Calls, Steps, Words

LEMMA IgnoringIs ==
  PassDown \o ReleaseAndClose = Ignoring
<1>1. Parted(Ignoring, 5)
  BY IgnoringCalls, InParts
<1>2. /\ Do("acquire") = Part(Ignoring, 0, 1) /\ Do("complete") = Part(Ignoring, 1, 2)
      /\ Do("release") = Part(Ignoring, 2, 3) /\ Do("complete") = Part(Ignoring, 3, 4)
      /\ Do("return") = Part(Ignoring, 4, 5)
  BY <1>1, IgnoringCalls DEF Parted, Do
<1>3. PassDown \o ReleaseAndClose =
        Cat(Cat(Do("acquire"), Do("complete")), Cat(Do("release"), Cat(Do("complete"),
        Do("return"))))
  BY DEF Cat, DispatchClose, PassDown, ReleaseAndClose
<1> QED BY <1>1, <1>2, <1>3 DEF Parted

LEMMA SurprisingCalls ==
  /\ Surprising \in Calls /\ Len(Surprising) = 14
  /\ Surprising[1] = <<"abort", "read">> /\ Surprising[2] = <<"cleanup", "read">>
  /\ Surprising[3] = <<"abort", "write">> /\ Surprising[4] = <<"cleanup", "write">>
  /\ Surprising[5] = <<"state", "SurpriseRemoved">> /\ Surprising[6] = <<"disable">>
  /\ Surprising[7] = <<"disconnect">> /\ Surprising[8] = <<"put", "read">>
  /\ Surprising[9] = <<"put", "write">> /\ Surprising[10] = <<"acquire">>
  /\ Surprising[11] = <<"complete">> /\ Surprising[12] = <<"release">>
  /\ Surprising[13] = <<"complete">> /\ Surprising[14] = <<"return">>
BY DEF Surprising, Calls, Steps, Words

LEMMA SurprisingIs ==
  PnPSurpriseRemoval = Surprising
<1>1. Parted(Surprising, 14)
  BY SurprisingCalls, InParts
<1>2. /\ \A i, j \in 0..14 : j = i + 1 => Part(Surprising, i, j) = <<Surprising[j]>>
      /\ \A i, m, j \in 0..14 :
           m = i + 1 /\ j = m + 1 => Part(Surprising, i, j) = <<Surprising[m], Surprising[j]>>
  BY <1>1 DEF Parted
<1>3. /\ Enter("SurpriseRemoved") = Part(Surprising, 4, 5)
      /\ Do("disable") = Part(Surprising, 5, 6) /\ Do("disconnect") = Part(Surprising, 6, 7)
  BY <1>2, SurprisingCalls, SMTT(30) DEF Do, Enter
<1>4. /\ Do("acquire") = Part(Surprising, 9, 10) /\ Do("complete") = Part(Surprising, 10, 11)
      /\ Do("release") = Part(Surprising, 11, 12)
  BY <1>2, SurprisingCalls, SMTT(30) DEF Do
<1>5. Do("complete") = Part(Surprising, 12, 13) /\ Do("return") = Part(Surprising, 13, 14)
  BY <1>2, SurprisingCalls, SMTT(30) DEF Do
<1>6. AbortRequests("read") = Part(Surprising, 0, 2)
  BY <1>2, SurprisingCalls, SMTT(30) DEF AbortRequests
<1>7. AbortRequests("write") = Part(Surprising, 2, 4)
  BY <1>2, SurprisingCalls, SMTT(30) DEF AbortRequests
<1>8. Both("put") = Part(Surprising, 7, 9)
  BY <1>2, SurprisingCalls, SMTT(30) DEF Both
<1>9. PnPSurpriseRemoval =
        Cat(Cat(Cat(Cat(Cat(Cat(Cat(AbortRequests("read"), AbortRequests("write")),
        Enter("SurpriseRemoved")), Do("disable")), Do("disconnect")), Both("put")),
        Cat(Do("acquire"), Do("complete"))), Cat(Do("release"), Cat(Do("complete"),
        Do("return"))))
  BY DEF Cat, DispatchClose, PassDown, PnPSurpriseRemoval, ReleaseAndClose
<1> QED BY <1>1, <1>3, <1>4, <1>5, <1>6, <1>7, <1>8, <1>9 DEF Parted

LEMMA PassingCalls ==
  /\ Passing \in Calls /\ Len(Passing) = 2
  /\ Passing[1] = <<"complete">> /\ Passing[2] = <<"return">>
BY DEF Passing, Calls, Steps, Words

LEMMA PassingIs ==
  DispatchClose = Passing
<1>1. Parted(Passing, 2)
  BY PassingCalls, InParts
<1>2. /\ Do("complete") = Part(Passing, 0, 1) /\ Do("return") = Part(Passing, 1, 2)
  BY <1>1, PassingCalls DEF Parted, Do
<1>3. DispatchClose =
        Cat(Do("complete"), Do("return"))
  BY DEF Cat, DispatchClose
<1> QED BY <1>1, <1>2, <1>3 DEF Parted

LEMMA ClosingCalls ==
  /\ Closing \in Calls /\ Len(Closing) = 3
  /\ Closing[1] = <<"release">> /\ Closing[2] = <<"complete">> /\ Closing[3] = <<"return">>
BY DEF Closing, Calls, Steps, Words

LEMMA ClosingIs ==
  ReleaseAndClose = Closing
<1>1. Parted(Closing, 3)
  BY ClosingCalls, InParts
<1>2. /\ Do("release") = Part(Closing, 0, 1) /\ Do("complete") = Part(Closing, 1, 2)
      /\ Do("return") = Part(Closing, 2, 3)
  BY <1>1, ClosingCalls DEF Parted, Do
<1>3. ReleaseAndClose =
        Cat(Do("release"), Cat(Do("complete"), Do("return")))
  BY DEF Cat, DispatchClose, ReleaseAndClose
<1> QED BY <1>1, <1>2, <1>3 DEF Parted

-----------------------------------------------------------------------------
(***************************************************************************)
(* The steps of the application and the types.                             *)
(***************************************************************************)
Application == Create \/ CloseHandle \/ \E d \in Dirs : Dispatch(d) \/ Finish(d)

(* The call that comes next says which action it is.                       *)
LEMMA ServeCall ==
  ASSUME Serve
  PROVE  /\ todo # <<>>
         /\ Head(todo)[1] = "sendfirst" => SendIrpSync
         /\ Head(todo)[1] = "adapters" => GetDMAInfo
         /\ Head(todo)[1] = "connect" => IoConnectInterrupt
         /\ Head(todo)[1] \in {"enable", "disable"} => IoSetDeviceInterfaceState
         /\ Head(todo)[1] \in {"state", "started", "restore"} => SetPnPState
         /\ Head(todo)[1] = "disconnect" => IoDisconnectInterrupt
         /\ Head(todo)[1] = "put" => PutDmaAdapter
         /\ Head(todo)[1] = "stall" => StallRequests
         /\ Head(todo)[1] \in {"restart", "restartPhysical"} => RestartRequests
         /\ Head(todo)[1] = "allow" => AllowRequests
         /\ Head(todo)[1] = "abort" => SetAbortStatus
         /\ Head(todo)[1] = "cleanup" => CleanupRequests
         /\ Head(todo)[1] = "clear" => ClearStopEvent
         /\ Head(todo)[1] = "check" => CheckCurrent
         /\ Head(todo)[1] = "wait" => WaitStopEvent
         /\ Head(todo)[1] \in {"acquire", "release", "send", "drain"} => CountRemoveLock
         /\ Head(todo)[1] = "complete" => IoCompleteRequest
         /\ Head(todo)[1] = "return" => Return
<1> DEFINE call == Head(todo)[1]
<1>1. SendIrpSync => todo # <<>> /\ call = "sendfirst"
  BY DEF SendIrpSync, Call
<1>2. GetDMAInfo => todo # <<>> /\ call = "adapters"
  BY DEF GetDMAInfo, Call
<1>3. IoConnectInterrupt => todo # <<>> /\ call = "connect"
  BY DEF IoConnectInterrupt, Call
<1>4. IoSetDeviceInterfaceState => todo # <<>> /\ call \in {"enable", "disable"}
  BY DEF IoSetDeviceInterfaceState, Call
<1>5. SetPnPState => todo # <<>> /\ call \in {"state", "started", "restore"}
  BY DEF SetPnPState, Call
<1>6. IoDisconnectInterrupt => todo # <<>> /\ call = "disconnect"
  BY DEF IoDisconnectInterrupt, Call
<1>7. PutDmaAdapter => todo # <<>> /\ call = "put"
  BY DEF PutDmaAdapter, Call
<1>8. StallRequests => todo # <<>> /\ call = "stall"
  BY DEF StallRequests, Call
<1>9. RestartRequests => todo # <<>> /\ call \in {"restart", "restartPhysical"}
  BY DEF RestartRequests, Call
<1>10. AllowRequests => todo # <<>> /\ call = "allow"
  BY DEF AllowRequests, Call
<1>11. SetAbortStatus => todo # <<>> /\ call = "abort"
  BY DEF SetAbortStatus, Call
<1>12. CleanupRequests => todo # <<>> /\ call = "cleanup"
  BY DEF CleanupRequests, Call
<1>13. ClearStopEvent => todo # <<>> /\ call = "clear"
  BY DEF ClearStopEvent, Call
<1>14. CheckCurrent => todo # <<>> /\ call = "check"
  BY DEF CheckCurrent, Call
<1>15. WaitStopEvent => todo # <<>> /\ call = "wait"
  BY DEF WaitStopEvent, Call
<1>16. CountRemoveLock => todo # <<>> /\ call \in {"acquire", "release", "send", "drain"}
  BY DEF CountRemoveLock, Call
<1>17. IoCompleteRequest => todo # <<>> /\ call = "complete"
  BY DEF IoCompleteRequest, Call
<1>18. Return => todo # <<>> /\ call = "return"
  BY DEF Return, Call
<1> HIDE DEF call
<1>19. /\ todo # <<>>
       /\ call = "sendfirst" => SendIrpSync
       /\ call = "adapters" => GetDMAInfo
       /\ call = "connect" => IoConnectInterrupt
       /\ call \in {"enable", "disable"} => IoSetDeviceInterfaceState
       /\ call \in {"state", "started", "restore"} => SetPnPState
       /\ call = "disconnect" => IoDisconnectInterrupt
       /\ call = "put" => PutDmaAdapter
       /\ call = "stall" => StallRequests
       /\ call \in {"restart", "restartPhysical"} => RestartRequests
       /\ call = "allow" => AllowRequests
       /\ call = "abort" => SetAbortStatus
       /\ call = "cleanup" => CleanupRequests
       /\ call = "clear" => ClearStopEvent
       /\ call = "check" => CheckCurrent
       /\ call = "wait" => WaitStopEvent
       /\ call \in {"acquire", "release", "send", "drain"} => CountRemoveLock
       /\ call = "complete" => IoCompleteRequest
       /\ call = "return" => Return
  BY <1>1, <1>2, <1>3, <1>4, <1>5, <1>6, <1>7, <1>8, <1>9, <1>10, <1>11, <1>12, <1>13, <1>14,
     <1>15, <1>16, <1>17, <1>18 DEF Serve
<1> QED BY <1>19 DEF call

(* The calls that are left when a wait is under way.                       *)
LEMMA WaitingFirst ==
  ASSUME NEW P \in Calls, NEW k \in 1..Len(P), NEW d
  PROVE  /\ Waiting(d, P, k) # <<>> /\ Head(Waiting(d, P, k)) = <<"wait", d>>
         /\ Tail(Waiting(d, P, k)) = From(P, k)
<1> DEFINE s == From(P, k)
<1>1. s \in Seq(Steps)
  BY SubSeqProperties DEF From, Calls
<1> HIDE DEF s
<1> DEFINE e == <<"wait", d>>
<1> HIDE DEF e
<1>2. <<e>> \o s # <<>> /\ Head(<<e>> \o s) = e /\ Tail(<<e>> \o s) = s
  BY <1>1
<1> QED BY <1>2 DEF Waiting, s, e

(* What the application does to a direction.                               *)
LEMMA AppFacts ==
  ASSUME Types, Application
  PROVE  /\ UNCHANGED pnp
         /\ open' \in BOOLEAN /\ evStop' \in [Dirs -> BOOLEAN]
         /\ req' \in [Dirs -> {"free", "queued", "current"}]
         /\ ~open' => \A d \in Dirs : req'[d] = "free"
         /\ ~open /\ ~interface => ~open'
         /\ \A d \in Dirs : abortstatus[d] \/ stallcount[d] # 0 =>
              (req'[d] = "current" => req[d] = "current")
         /\ \A d \in Dirs : abortstatus[d] \/ stallcount[d] = 0 =>
              (req'[d] = "queued" => req[d] = "queued")
         /\ minor = "CANCEL_STOP" /\ "unstop" \notin Env /\ Unqueued => Unqueued'
         /\ \A d \in Dirs : abortstatus[d] => (req[d] = "free" => req'[d] = "free")
         /\ \A d \in Dirs : evStop'[d] => evStop[d] \/ req'[d] = "free"
<1> DEFINE Effect ==
       /\ UNCHANGED pnp
       /\ open' \in BOOLEAN /\ evStop' \in [Dirs -> BOOLEAN]
       /\ req' \in [Dirs -> {"free", "queued", "current"}]
       /\ ~open' => \A d \in Dirs : req'[d] = "free"
       /\ ~open /\ ~interface => ~open'
       /\ \A d \in Dirs : abortstatus[d] \/ stallcount[d] # 0 =>
            (req'[d] = "current" => req[d] = "current")
       /\ \A d \in Dirs : abortstatus[d] \/ stallcount[d] = 0 =>
            (req'[d] = "queued" => req[d] = "queued")
       /\ minor = "CANCEL_STOP" /\ "unstop" \notin Env /\ Unqueued => Unqueued'
       /\ \A d \in Dirs : abortstatus[d] => (req[d] = "free" => req'[d] = "free")
       /\ \A d \in Dirs : evStop'[d] => evStop[d] \/ req'[d] = "free"
<1>1. ASSUME Create PROVE Effect
  BY <1>1 DEF Types, Create, pnp, Unqueued
<1>2. ASSUME CloseHandle PROVE Effect
  BY <1>2 DEF Types, CloseHandle, pnp, Unqueued
<1>3. ASSUME NEW d \in Dirs, Dispatch(d) PROVE Effect
  BY <1>3 DEF Types, Dispatch, pnp, Unqueued
<1>4. ASSUME NEW d \in Dirs, Finish(d) PROVE Effect
  BY <1>4 DEF Types, Finish, pnp, Unqueued
<1>5. Effect
  <2> HIDE DEF Effect
  <2> QED BY <1>1, <1>2, <1>3, <1>4 DEF Application
<1> QED BY <1>5
-----------------------------------------------------------------------------
(* A step that leaves the device, its queues and its hardware alone.       *)
Kept == UNCHANGED <<device, held, gate, req, open, misuse>>

LEMMA ShapesKept ==
  ASSUME Kept
  PROVE  /\ Working' = Working /\ Idle' = Idle /\ Unstarted' = Unstarted /\ Gone' = Gone
         /\ Closed' = Closed /\ Deleted' = Deleted /\ Present' = Present
         /\ Connected' = Connected /\ Quiet' = Quiet /\ Unqueued' = Unqueued
         /\ \A s : Held(s)' = Held(s)
BY DEF Kept, device, held, gate, Working, Idle, Unstarted, Gone, Closed, Deleted, Present,
       Connected, Quiet, Unqueued, Held, Fresh, Stalls

LEMMA ShapesStay ==
  ASSUME Types, Application
  PROVE  /\ Present' = Present /\ Connected' = Connected
         /\ \A r, w : Stalls(r, w)' = Stalls(r, w)
         /\ Working => Working'
         /\ Stalls(1, 1) /\ Quiet => Quiet'
         /\ \A s : Held(s) => Held(s)'
         /\ Idle => Idle'
         /\ Unstarted => Unstarted'
         /\ Gone => Gone'
         /\ Closed => Closed'
         /\ Deleted => Deleted'
<1>1. /\ Present' = Present /\ Connected' = Connected /\ Fresh' = Fresh
      /\ \A r, w : Stalls(r, w)' = Stalls(r, w)
      /\ DevicePnPState' = DevicePnPState /\ PreviousPnPState' = PreviousPnPState
      /\ interface' = interface /\ abortstatus' = abortstatus
  BY AppFacts DEF pnp, device, held, Present, Connected, Fresh, Stalls
<1>2. Stalls(1, 1) /\ Quiet => Quiet'
  BY AppFacts DEF Stalls, Quiet, Dirs
<1>3. Working => Working'
  BY <1>1 DEF Working
<1>4. \A s : Held(s) => Held(s)'
  BY <1>1, <1>2 DEF Held
<1>5. Idle => Idle'
  BY <1>1, <1>2 DEF Idle
<1>6. Unstarted => Unstarted'
  BY <1>1, <1>2, AppFacts DEF Unstarted
<1>7. Gone => Gone'
  BY <1>1, AppFacts DEF Gone
<1>8. Closed => Closed'
  BY <1>1, AppFacts DEF Closed, Types
<1>9. Deleted => Deleted'
  BY <1>1, <1>2, <1>8 DEF Deleted
<1> QED BY <1>1, <1>2, <1>3, <1>4, <1>5, <1>6, <1>7, <1>8, <1>9

LEMMA TypesStay == ASSUME Types, Application PROVE Types'
BY AppFacts DEF Types, pnp, device, held, pnpIrp

(* The application changes nothing that an assertion speaks of.            *)
LEMMA PartsStay ==
  ASSUME Types, Usual, Control, Application
  PROVE  Control'
<1>1. /\ minor' = minor /\ todo' = todo /\ status' = status /\ manager' = manager
      /\ completions' = completions /\ DevicePnPState' = DevicePnPState
      /\ PreviousPnPState' = PreviousPnPState /\ interface' = interface
      /\ InterruptObject' = InterruptObject /\ adapter' = adapter
      /\ abortstatus' = abortstatus /\ misuse' = misuse
  BY AppFacts DEF pnp, device, held, pnpIrp
<1>2. AtNone => AtNone'
  BY <1>1, ShapesStay DEF AtNone, AtRest
<1>3. AtSend => AtSend'
  BY <1>1, AppFacts, ShapesStay DEF AtSend, Sent, Usual
<1>4. ASSUME NEW k \in 1..10, Starts(k) PROVE Starts(k)'
  BY <1>1, <1>4, ShapesStay DEF Starts
<1>5. ASSUME NEW k \in 1..12, NEW s, Queries(k, s) PROVE Queries(k, s)'
  <2>1. \A d \in Dirs : stallcount[d] # 0 /\ req[d] # "current" => req'[d] # "current"
    BY AppFacts
  <2>2. \A d \in Dirs : evStop'[d] => evStop[d] \/ req'[d] = "free"
    BY AppFacts
  <2> QED BY <1>1, <1>5, <2>1, <2>2, ShapesStay DEF Queries, Stalls, Dirs
<1>6. ASSUME NEW k \in 1..12, QueriesStop(k) PROVE QueriesStop(k)'
  BY <1>1, <1>5, <1>6 DEF QueriesStop
<1>7. ASSUME NEW k \in 1..10, QueriesRemove(k) PROVE QueriesRemove(k)'
  BY <1>1, <1>5, <1>7 DEF QueriesRemove
<1>8. ASSUME NEW k \in 1..13, GivesBack(k) PROVE GivesBack(k)'
  BY <1>1, <1>8, ShapesStay DEF GivesBack
<1>9. ASSUME NEW k \in 1..12, Stops(k) PROVE Stops(k)'
  BY <1>1, <1>8, <1>9 DEF Stops
<1>10. ASSUME NEW k \in 1..13, Removes(k) PROVE Removes(k)'
  BY <1>1, <1>8, <1>10, ShapesStay DEF Removes
<1>11. ASSUME NEW k \in 1..7, CancelsStop(k), minor = "CANCEL_STOP" PROVE CancelsStop(k)'
  BY <1>1, <1>11, AppFacts, ShapesStay DEF CancelsStop, Usual
<1>12. ASSUME NEW k \in 1..7, CancelsRemove(k) PROVE CancelsRemove(k)'
  BY <1>1, <1>12, ShapesStay DEF CancelsRemove
<1>13. ASSUME NEW k \in 1..5, Ignores(k) PROVE Ignores(k)'
  BY <1>1, <1>13, ShapesStay DEF Ignores
<1>14. ASSUME NEW k \in 1..14, Vanishes(k) PROVE Vanishes(k)'
  <2>1. \A d \in Dirs : abortstatus[d] /\ req[d] # "queued" => req'[d] # "queued"
    BY AppFacts
  <2> QED BY <1>1, <1>14, <2>1, ShapesStay DEF Vanishes, Dirs
<1>15. ASSUME NEW k \in 1..2, Passes(k) PROVE Passes(k)'
  BY <1>1, <1>15, ShapesStay DEF Passes
<1>16. ASSUME NEW k \in 1..3, Closes(k) PROVE Closes(k)'
  BY <1>1, <1>16, ShapesStay DEF Closes
<1>17. /\ AtStart => AtStart'
       /\ AtQueryStop => AtQueryStop'
       /\ AtQueryRemove => AtQueryRemove'
       /\ AtStop => AtStop'
       /\ AtRemove => AtRemove'
  BY <1>1, <1>4, <1>6, <1>7, <1>9, <1>10 DEF AtStart, AtQueryStop, AtQueryRemove, AtStop, AtRemove
<1>18. /\ AtCancelStop => AtCancelStop'
       /\ AtCancelRemove => AtCancelRemove'
       /\ AtIgnored => AtIgnored'
       /\ AtSurprise => AtSurprise'
       /\ AtOther => AtOther'
       /\ AtRefused => AtRefused'
  BY <1>1, <1>11, <1>12, <1>13, <1>14, <1>15, <1>16
     DEF AtCancelStop, AtCancelRemove, AtIgnored, AtSurprise, AtOther, AtRefused
<1> QED BY <1>2, <1>3, <1>17, <1>18 DEF Control
-----------------------------------------------------------------------------
(* What a call needs, to leave the variables in their types.               *)
Fits(h) ==
  /\ h[1] = "state" => h[2] \in States
  /\ h[1] \in {"put", "stall", "restart", "restartPhysical", "abort", "cleanup", "clear",
               "check", "wait"} => h[2] \in Dirs
  /\ h[1] = "stall" => stallcount[h[2]] = 0
  /\ h[1] \in {"restart", "restartPhysical"} => stallcount[h[2]] = 1
  /\ h[1] = "restartPhysical" => req[h[2]] # "queued"
  /\ h[1] = "complete" => completions \in 0..1

LEMMA ServeTypes ==
  ASSUME Types, Serve, Fits(Head(todo))
  PROVE  Types'
<1>1. CASE SendIrpSync
  BY <1>1 DEF Types, SendIrpSync, device, held, gate
<1>2. CASE GetDMAInfo
  BY <1>2 DEF Types, GetDMAInfo, device, gate, pnpIrp, Ownership
<1>3. CASE IoConnectInterrupt
  BY <1>3 DEF Types, IoConnectInterrupt, device, gate, Ownership
<1>4. CASE IoSetDeviceInterfaceState
  BY <1>4 DEF Types, IoSetDeviceInterfaceState, device, gate, pnpIrp, Call
<1>5. CASE SetPnPState
  BY <1>5 DEF Types, SetPnPState, held, gate, pnpIrp, Call, Arg, Fits, States
<1>6. CASE IoDisconnectInterrupt
  BY <1>6 DEF Types, IoDisconnectInterrupt, device, gate, pnpIrp, GiveBack, Ownership
<1>7. CASE PutDmaAdapter
  BY <1>7 DEF Types, PutDmaAdapter, device, gate, pnpIrp, GiveBack, Ownership, Call, Arg, Fits
<1>8. CASE StallRequests
  BY <1>8 DEF Types, StallRequests, device, held, pnpIrp, Call, Arg, Fits
<1>9. CASE RestartRequests
  <2>1. /\ Arg \in Dirs /\ stallcount[Arg] = 1
        /\ req[Arg] = "queued" => Call("restart")
    BY <1>9 DEF RestartRequests, Call, Arg, Fits
  <2>2. /\ stallcount' = [stallcount EXCEPT ![Arg] = @ - 1]
        /\ req' = [req EXCEPT ![Arg] =
             IF @ = "queued" /\ stallcount'[Arg] = 0 /\ ~abortstatus[Arg] THEN "current" ELSE @]
        /\ UNCHANGED <<device, RemoveLock, held, abortstatus, evStop, open, pnpIrp, misuse>>
    BY <1>9, <2>1 DEF RestartRequests
  <2>3. stallcount' \in [Dirs -> 0..1] /\ req' \in [Dirs -> {"free", "queued", "current"}]
    BY <2>1, <2>2 DEF Types
  <2>4. ~open => \A d \in Dirs : req'[d] = "free"
    BY <2>1, <2>2 DEF Types
  <2> QED BY <2>2, <2>3, <2>4 DEF Types, device, held, pnpIrp
<1>10. CASE AllowRequests
  BY <1>10 DEF Types, AllowRequests, device, held, pnpIrp
<1>11. CASE SetAbortStatus
  BY <1>11 DEF Types, SetAbortStatus, device, held, pnpIrp, Call, Arg, Fits
<1>12. CASE CleanupRequests
  BY <1>12 DEF Types, CleanupRequests, device, held, gate, pnpIrp, Call, Arg, Fits
<1>13. CASE ClearStopEvent
  BY <1>13 DEF Types, ClearStopEvent, device, held, pnpIrp, Call, Arg, Fits
<1>14. CASE CheckCurrent
  BY <1>14 DEF Types, CheckCurrent, device, held, gate, pnpIrp
<1>15. CASE WaitStopEvent
  BY <1>15 DEF Types, WaitStopEvent, device, held, gate, pnpIrp
<1>16. CASE CountRemoveLock
  BY <1>16 DEF Types, CountRemoveLock, device, held, gate, pnpIrp
<1>17. CASE IoCompleteRequest
  BY <1>17 DEF Types, IoCompleteRequest, device, held, gate, Call, Fits
<1>18. CASE Return
  <2>1. Answered(minor) \in {"down", "up", "stopPending", "stopped", "removePending",
                             "failed", "gone", "deleted"}
    BY DEF Types, Answered, Minors
  <2> QED BY <1>18, <2>1 DEF Types, Return, device, held, gate
<1> QED BY <1>1, <1>2, <1>3, <1>4, <1>5, <1>6, <1>7, <1>8, <1>9, <1>10, <1>11, <1>12, <1>13,
           <1>14, <1>15, <1>16, <1>17, <1>18 DEF Serve
(* An outcome is a success, or a failure that the environment has.         *)
LEMMA Outcomes ==
  ASSUME NEW e, NEW ok \in May(e)
  PROVE  ok \in BOOLEAN /\ (ok \/ e \in Env)
<1>1. CASE ok = TRUE
  BY <1>1
<1>2. CASE ok = (e \notin Env)
  BY <1>2
<1> QED BY <1>1, <1>2 DEF May

LEMMA AdaptersHeld ==
  ASSUME Usual, GetDMAInfo
  PROVE  /\ adapter' = [d \in Dirs |-> "held"] /\ todo' = Tail(todo)
         /\ UNCHANGED <<device, RemoveLock, InterruptObject, interface, gate, req, open,
                        pnpIrp, misuse>>
<1>1. PICK ok \in May("adapterfail") :
        /\ adapter' \in IF ok THEN {[d \in Dirs |-> "held"]}
                        ELSE {[adapter EXCEPT !["read"] = "null"],
                              [d \in Dirs |-> IF d = "read" THEN "stale" ELSE "null"]}
        /\ todo' = IF ok THEN Tail(todo) ELSE ReleaseAndClose
  BY DEF GetDMAInfo
<1>2. ok
  BY Outcomes DEF Usual
<1> QED BY <1>1, <1>2 DEF GetDMAInfo

LEMMA InterruptConnected ==
  ASSUME Usual, IoConnectInterrupt
  PROVE  /\ \/ InterruptObject' = "held" /\ status' = "SUCCESS" /\ todo' = Tail(todo)
            \/ /\ manager = "down" \/ ~Restarts
               /\ UNCHANGED InterruptObject
               /\ status' = "FAILURE" /\ todo' = ReleaseAndClose
         /\ UNCHANGED <<device, RemoveLock, adapter, interface, gate, req, open, minor,
                        manager, completions, misuse>>
<1>1. PICK ok \in May(StartFailure) :
        /\ InterruptObject' = IF ok THEN "held" ELSE InterruptObject
        /\ status' = IF ok THEN "SUCCESS" ELSE "FAILURE"
        /\ todo' = IF ok THEN Tail(todo) ELSE ReleaseAndClose
  BY DEF IoConnectInterrupt
<1>2. ok \/ (ok = FALSE /\ (manager = "down" \/ ~Restarts))
  BY Outcomes DEF Restarts, StartFailure
<1> QED BY <1>1, <1>2 DEF IoConnectInterrupt

LEMMA InterfaceDisabled ==
  ASSUME IoSetDeviceInterfaceState, Head(todo)[1] = "disable"
  PROVE  ~interface'
<1>1. ~Call("enable")
  BY DEF Call
<1> QED BY <1>1, Zenon DEF IoSetDeviceInterfaceState

(* StallRequests waits for the request that is under way.                  *)
LEMMA WaitEntered ==
  ASSUME CheckCurrent, NEW P, NEW k, NEW d,
         Head(todo)[2] = d, Tail(todo) = From(P, k), req[d] = "current"
  PROVE  todo' = Waiting(d, P, k)
<1>1. todo' = <<<<"wait", d>>>> \o Tail(todo)
  BY Zenon DEF CheckCurrent, Arg
<1> QED BY <1>1, Zenon DEF Waiting
-----------------------------------------------------------------------------
(* One call of each handler.                                               *)

LEMMA StartStep ==
  ASSUME Types, Usual, NEW k \in 1..10, minor = "START", todo = From(Starting, k),
         Starts(k), Serve
  PROVE  Types' /\ Control'
<1>1. todo # <<>> /\ Head(todo) = Starting[k] /\ Tail(todo) = From(Starting, k + 1)
  BY FromFirst, StartingCalls
<1>2. Types'
  <2>1. Fits(Head(todo))
    BY <1>1, StartingCalls, SMTT(30) DEF Connected, Dirs, Fits, Fresh, Idle, Present, Quiet,
       Stalls, Starts, States, Unstarted
  <2> QED BY <2>1, ServeTypes
<1>3. CASE k = 1
  <2>1. GetDMAInfo
    BY <1>1, <1>3, StartingCalls, ServeCall
  <2>2. /\ adapter' = [d \in Dirs |-> "held"] /\ todo' = Tail(todo) /\ minor' = minor
        /\ manager' = manager /\ status' = status /\ completions' = completions
        /\ DevicePnPState' = DevicePnPState /\ InterruptObject' = InterruptObject
        /\ interface' = interface /\ open' = open /\ req' = req /\ misuse' = misuse
        /\ stallcount' = stallcount /\ abortstatus' = abortstatus
    BY <2>1, AdaptersHeld DEF device, gate, pnpIrp
  <2>3. /\ Unstarted => Unstarted'
        /\ Idle => Idle'
    BY <2>2 DEF Unstarted, Idle, Present, Fresh, Stalls, Quiet
  <2>4. todo' = From(Starting, 2) /\ minor' = minor /\ Starts(2)'
    BY <1>1, <1>3, <2>2, <2>3 DEF Starts, Present, Stalls, Quiet
  <2> QED BY <1>2, <2>4 DEF AtStart, Control
<1>4. CASE k = 2
  <2>1. IoConnectInterrupt
    BY <1>1, <1>4, StartingCalls, ServeCall
  <2>2. /\ adapter' = adapter /\ minor' = minor
        /\ manager' = manager /\ completions' = completions
        /\ DevicePnPState' = DevicePnPState /\ interface' = interface /\ open' = open
        /\ req' = req /\ misuse' = misuse /\ stallcount' = stallcount
        /\ abortstatus' = abortstatus
    BY <2>1, InterruptConnected DEF device, gate
  <2>3. CASE InterruptObject' = "held" /\ status' = "SUCCESS" /\ todo' = Tail(todo)
    <3>1. todo' = From(Starting, 3) /\ minor' = minor /\ Starts(3)'
      BY <1>1, <1>4, <2>2, <2>3 DEF Starts, Present, Stalls, Quiet
    <3> QED BY <1>2, <3>1 DEF AtStart, Control
  <2>4. CASE /\ manager = "down" \/ ~Restarts
             /\ UNCHANGED InterruptObject /\ status' = "FAILURE" /\ todo' = ReleaseAndClose
    <3>1. /\ Unstarted => Unstarted'
          /\ Idle => Idle'
      BY <2>2, <2>4 DEF Unstarted, Idle, Present, Fresh, Stalls, Quiet
    <3>2. Closes(1)'
      BY <1>4, <2>2, <2>4, <3>1 DEF Closes, Starts
    <3> QED BY <1>2, <2>4, <3>2, ClosingIs, ClosingCalls, FromAll DEF AtRefused, Control
  <2> QED BY <2>1, <2>3, <2>4, InterruptConnected
<1>5. CASE k = 3
  <2>1. IoSetDeviceInterfaceState
    BY <1>1, <1>5, StartingCalls, ServeCall
  <2>2. todo' = From(Starting, 4) /\ minor' = minor /\ Starts(4)'
    BY <1>1, <1>5, StartingCalls, <2>1 DEF Call, Connected, device, Dirs, Done, Fresh, gate,
       Idle, IoSetDeviceInterfaceState, pnpIrp, Present, Quiet, Stalls, Starts, States, Types,
       Unstarted
  <2> QED BY <1>2, <2>2 DEF AtStart, Control
<1>6. CASE k = 4
  <2>1. SetPnPState
    BY <1>1, <1>6, StartingCalls, ServeCall
  <2>2. todo' = From(Starting, 5) /\ minor' = minor /\ Starts(5)'
    BY <1>1, <1>6, StartingCalls, <2>1 DEF Arg, Call, Connected, Dirs, Done, Fresh, gate, held,
       Idle, pnpIrp, Present, Quiet, SetPnPState, Stalls, Starts, States, Types, Unstarted
  <2> QED BY <1>2, <2>2 DEF AtStart, Control
<1>7. CASE k = 5
  <2>1. AllowRequests
    BY <1>1, <1>7, StartingCalls, ServeCall
  <2>2. todo' = From(Starting, 6) /\ minor' = minor /\ Starts(6)'
    BY <1>1, <1>7, <2>1 DEF AllowRequests, Connected, device, Dirs, Done, Fresh, held, Idle,
       pnpIrp, Present, Quiet, Stalls, Starts, States, Types, Unstarted
  <2> QED BY <1>2, <2>2 DEF AtStart, Control
<1>8. CASE k = 6
  <2>1. RestartRequests
    BY <1>1, <1>8, StartingCalls, ServeCall
  <2>2. todo' = From(Starting, 7) /\ minor' = minor /\ Starts(7)'
    BY <1>1, <1>8, StartingCalls, <2>1 DEF Arg, Connected, device, Dirs, Done, Fresh, held,
       Idle, pnpIrp, Present, Quiet, RestartRequests, Stalls, Starts, States, Types, Unstarted
  <2> QED BY <1>2, <2>2 DEF AtStart, Control
<1>9. CASE k = 7
  <2>1. RestartRequests
    BY <1>1, <1>9, StartingCalls, ServeCall
  <2>2. todo' = From(Starting, 8) /\ minor' = minor /\ Starts(8)'
    BY <1>1, <1>9, StartingCalls, <2>1 DEF Arg, Connected, device, Dirs, Done, Fresh, held,
       Idle, pnpIrp, Present, Quiet, RestartRequests, Stalls, Starts, States, Types, Unstarted
  <2> QED BY <1>2, <2>2 DEF AtStart, Control
<1>10. CASE k = 8
  <2>1. CountRemoveLock
    BY <1>1, <1>10, StartingCalls, ServeCall
  <2>2. todo' = From(Starting, 9) /\ minor' = minor /\ Starts(9)'
    BY <1>1, <1>10, <2>1 DEF Connected, CountRemoveLock, device, Dirs, Done, Fresh, gate, held,
       Idle, pnpIrp, Present, Quiet, Stalls, Starts, States, Types, Unstarted
  <2> QED BY <1>2, <2>2 DEF AtStart, Control
<1>11. CASE k = 9
  <2>1. IoCompleteRequest
    BY <1>1, <1>11, StartingCalls, ServeCall
  <2>2. todo' = From(Starting, 10) /\ minor' = minor /\ Starts(10)'
    BY <1>1, <1>11, <2>1 DEF Connected, device, Dirs, Done, Fresh, gate, held, Idle,
       IoCompleteRequest, Present, Quiet, Stalls, Starts, States, Types, Unstarted
  <2> QED BY <1>2, <2>2 DEF AtStart, Control
<1>12. CASE k = 10
  <2>1. Return
    BY <1>1, <1>12, StartingCalls, ServeCall
  <2>2. todo' = <<>> /\ minor' = "NONE" /\ AtRest'
    <3>1. todo' = <<>>
      BY <1>1, <1>12, <2>1, StartingCalls, FromAll DEF Done, Return
    <3> QED
      BY <1>1, <1>12, <2>1, <3>1 DEF Answered, AtRest, Connected, device, Dirs, Done, Fresh,
         gate, held, Idle, Present, Quiet, Return, Stalls, Starts, States, Types, Unstarted,
         Usual, Working
  <2> QED BY <1>2, <2>2 DEF AtNone, Control
<1> QED BY <1>3, <1>4, <1>5, <1>6, <1>7, <1>8, <1>9, <1>10, <1>11, <1>12

LEMMA StopStep ==
  ASSUME Types, Usual, NEW k \in 1..12, minor = "STOP", todo = From(Stopping, k),
         Stops(k), Serve
  PROVE  Types' /\ Control'
<1>1. todo # <<>> /\ Head(todo) = Stopping[k] /\ Tail(todo) = From(Stopping, k + 1)
  BY FromFirst, StoppingCalls
<1>2. Types'
  <2>1. Fits(Head(todo))
    BY <1>1, StoppingCalls, SMTT(30) DEF Dirs, Fits, GivesBack, Present, Quiet, Stalls, States,
       Stops
  <2> QED BY <2>1, ServeTypes
<1>3. CASE k = 1
  <2>1. ClearStopEvent
    BY <1>1, <1>3, StoppingCalls, ServeCall
  <2>2. todo' = From(Stopping, 2) /\ minor' = minor /\ Stops(2)'
    BY <1>1, <1>3, StoppingCalls, <2>1 DEF Arg, ClearStopEvent, device, Dirs, Done, GivesBack,
       held, pnpIrp, Present, Quiet, Stalls, States, Stops, Types
  <2> QED BY <1>2, <2>2 DEF AtStop, Control
<1>4. CASE k = 2
  <2>1. CheckCurrent
    BY <1>1, <1>4, StoppingCalls, ServeCall
  <2>2. todo' = From(Stopping, 3) /\ minor' = minor /\ Stops(3)'
    BY <1>1, <1>4, StoppingCalls, <2>1 DEF Arg, CheckCurrent, device, Dirs, gate, GivesBack,
       held, pnpIrp, Present, Quiet, Stalls, States, Stops, Types
  <2> QED BY <1>2, <2>2 DEF AtStop, Control
<1>5. CASE k = 3
  <2>1. ClearStopEvent
    BY <1>1, <1>5, StoppingCalls, ServeCall
  <2>2. todo' = From(Stopping, 4) /\ minor' = minor /\ Stops(4)'
    BY <1>1, <1>5, StoppingCalls, <2>1 DEF Arg, ClearStopEvent, device, Dirs, Done, GivesBack,
       held, pnpIrp, Present, Quiet, Stalls, States, Stops, Types
  <2> QED BY <1>2, <2>2 DEF AtStop, Control
<1>6. CASE k = 4
  <2>1. CheckCurrent
    BY <1>1, <1>6, StoppingCalls, ServeCall
  <2>2. todo' = From(Stopping, 5) /\ minor' = minor /\ Stops(5)'
    BY <1>1, <1>6, StoppingCalls, <2>1 DEF Arg, CheckCurrent, device, Dirs, gate, GivesBack,
       held, pnpIrp, Present, Quiet, Stalls, States, Stops, Types
  <2> QED BY <1>2, <2>2 DEF AtStop, Control
<1>7. CASE k = 5
  <2>1. IoDisconnectInterrupt
    BY <1>1, <1>7, StoppingCalls, ServeCall
  <2>2. todo' = From(Stopping, 6) /\ minor' = minor /\ Stops(6)'
    BY <1>1, <1>7, <2>1 DEF device, Dirs, Done, gate, GiveBack, GivesBack,
       IoDisconnectInterrupt, pnpIrp, Present, Quiet, Stalls, States, Stops, Types
  <2> QED BY <1>2, <2>2 DEF AtStop, Control
<1>8. CASE k = 6
  <2>1. PutDmaAdapter
    BY <1>1, <1>8, StoppingCalls, ServeCall
  <2>2. todo' = From(Stopping, 7) /\ minor' = minor /\ Stops(7)'
    BY <1>1, <1>8, StoppingCalls, <2>1 DEF Arg, device, Dirs, Done, gate, GiveBack, GivesBack,
       pnpIrp, Present, PutDmaAdapter, Quiet, Stalls, States, Stops, Types
  <2> QED BY <1>2, <2>2 DEF AtStop, Control
<1>9. CASE k = 7
  <2>1. PutDmaAdapter
    BY <1>1, <1>9, StoppingCalls, ServeCall
  <2>2. todo' = From(Stopping, 8) /\ minor' = minor /\ Stops(8)'
    BY <1>1, <1>9, StoppingCalls, <2>1 DEF Arg, device, Dirs, Done, gate, GiveBack, GivesBack,
       pnpIrp, Present, PutDmaAdapter, Quiet, Stalls, States, Stops, Types
  <2> QED BY <1>2, <2>2 DEF AtStop, Control
<1>10. CASE k = 8
  <2>1. IoSetDeviceInterfaceState
    BY <1>1, <1>10, StoppingCalls, ServeCall
  <2>2. todo' = From(Stopping, 9) /\ minor' = minor /\ Stops(9)'
    BY <1>1, <1>10, StoppingCalls, <2>1 DEF Call, device, Dirs, Done, gate, GivesBack,
       IoSetDeviceInterfaceState, pnpIrp, Present, Quiet, Stalls, States, Stops, Types
  <2> QED BY <1>2, <2>2 DEF AtStop, Control
<1>11. CASE k = 9
  <2>1. SetPnPState
    BY <1>1, <1>11, StoppingCalls, ServeCall
  <2>2. todo' = From(Stopping, 10) /\ minor' = minor /\ Stops(10)'
    BY <1>1, <1>11, StoppingCalls, <2>1 DEF Arg, Call, Dirs, Done, gate, GivesBack, held,
       pnpIrp, Present, Quiet, SetPnPState, Stalls, States, Stops, Types
  <2> QED BY <1>2, <2>2 DEF AtStop, Control
<1>12. CASE k = 10
  <2>1. CountRemoveLock
    BY <1>1, <1>12, StoppingCalls, ServeCall
  <2>2. todo' = From(Stopping, 11) /\ minor' = minor /\ Stops(11)'
    BY <1>1, <1>12, <2>1 DEF CountRemoveLock, device, Dirs, Done, gate, GivesBack, held, pnpIrp,
       Present, Quiet, Stalls, States, Stops, Types
  <2> QED BY <1>2, <2>2 DEF AtStop, Control
<1>13. CASE k = 11
  <2>1. IoCompleteRequest
    BY <1>1, <1>13, StoppingCalls, ServeCall
  <2>2. todo' = From(Stopping, 12) /\ minor' = minor /\ Stops(12)'
    BY <1>1, <1>13, <2>1 DEF device, Dirs, Done, gate, GivesBack, held, IoCompleteRequest,
       Present, Quiet, Stalls, States, Stops, Types
  <2> QED BY <1>2, <2>2 DEF AtStop, Control
<1>14. CASE k = 12
  <2>1. Return
    BY <1>1, <1>14, StoppingCalls, ServeCall
  <2>2. todo' = <<>> /\ minor' = "NONE" /\ AtRest'
    <3>1. todo' = <<>>
      BY <1>1, <1>14, <2>1, StoppingCalls, FromAll DEF Done, Return
    <3> QED
      BY <1>1, <1>14, <2>1, <3>1 DEF Answered, AtRest, device, Dirs, Done, gate, GivesBack,
         held, Idle, Present, Quiet, Return, Stalls, States, Stops, Types, Usual
  <2> QED BY <1>2, <2>2 DEF AtNone, Control
<1> QED BY <1>3, <1>4, <1>5, <1>6, <1>7, <1>8, <1>9, <1>10, <1>11, <1>12, <1>13, <1>14

LEMMA RemoveStep ==
  ASSUME Types, Usual, NEW k \in 1..13, minor = "REMOVE", todo = From(Removing, k),
         Removes(k), Serve
  PROVE  Types' /\ Control'
<1>1. todo # <<>> /\ Head(todo) = Removing[k] /\ Tail(todo) = From(Removing, k + 1)
  BY FromFirst, RemovingCalls
<1>2. Types'
  <2>1. Fits(Head(todo))
    BY <1>1, RemovingCalls, SMTT(30) DEF Closed, Dirs, Fits, GivesBack, Present, Quiet, Removes,
       Stalls, States
  <2> QED BY <2>1, ServeTypes
<1>3. CASE k = 1
  <2>1. ClearStopEvent
    BY <1>1, <1>3, RemovingCalls, ServeCall
  <2>2. todo' = From(Removing, 2) /\ minor' = minor /\ Removes(2)'
    BY <1>1, <1>3, RemovingCalls, <2>1 DEF Arg, ClearStopEvent, Closed, device, Dirs, Done,
       GivesBack, held, pnpIrp, Present, Quiet, Removes, Stalls, States, Types
  <2> QED BY <1>2, <2>2 DEF AtRemove, Control
<1>4. CASE k = 2
  <2>1. CheckCurrent
    BY <1>1, <1>4, RemovingCalls, ServeCall
  <2>2. todo' = From(Removing, 3) /\ minor' = minor /\ Removes(3)'
    BY <1>1, <1>4, RemovingCalls, <2>1 DEF Arg, CheckCurrent, Closed, device, Dirs, gate,
       GivesBack, held, pnpIrp, Present, Quiet, Removes, Stalls, States, Types
  <2> QED BY <1>2, <2>2 DEF AtRemove, Control
<1>5. CASE k = 3
  <2>1. ClearStopEvent
    BY <1>1, <1>5, RemovingCalls, ServeCall
  <2>2. todo' = From(Removing, 4) /\ minor' = minor /\ Removes(4)'
    BY <1>1, <1>5, RemovingCalls, <2>1 DEF Arg, ClearStopEvent, Closed, device, Dirs, Done,
       GivesBack, held, pnpIrp, Present, Quiet, Removes, Stalls, States, Types
  <2> QED BY <1>2, <2>2 DEF AtRemove, Control
<1>6. CASE k = 4
  <2>1. CheckCurrent
    BY <1>1, <1>6, RemovingCalls, ServeCall
  <2>2. todo' = From(Removing, 5) /\ minor' = minor /\ Removes(5)'
    BY <1>1, <1>6, RemovingCalls, <2>1 DEF Arg, CheckCurrent, Closed, device, Dirs, gate,
       GivesBack, held, pnpIrp, Present, Quiet, Removes, Stalls, States, Types
  <2> QED BY <1>2, <2>2 DEF AtRemove, Control
<1>7. CASE k = 5
  <2>1. IoDisconnectInterrupt
    BY <1>1, <1>7, RemovingCalls, ServeCall
  <2>2. todo' = From(Removing, 6) /\ minor' = minor /\ Removes(6)'
    BY <1>1, <1>7, <2>1 DEF Closed, device, Dirs, Done, gate, GiveBack, GivesBack,
       IoDisconnectInterrupt, pnpIrp, Present, Quiet, Removes, Stalls, States, Types
  <2> QED BY <1>2, <2>2 DEF AtRemove, Control
<1>8. CASE k = 6
  <2>1. PutDmaAdapter
    BY <1>1, <1>8, RemovingCalls, ServeCall
  <2>2. todo' = From(Removing, 7) /\ minor' = minor /\ Removes(7)'
    BY <1>1, <1>8, RemovingCalls, <2>1 DEF Arg, Closed, device, Dirs, Done, gate, GiveBack,
       GivesBack, pnpIrp, Present, PutDmaAdapter, Quiet, Removes, Stalls, States, Types
  <2> QED BY <1>2, <2>2 DEF AtRemove, Control
<1>9. CASE k = 7
  <2>1. PutDmaAdapter
    BY <1>1, <1>9, RemovingCalls, ServeCall
  <2>2. todo' = From(Removing, 8) /\ minor' = minor /\ Removes(8)'
    BY <1>1, <1>9, RemovingCalls, <2>1 DEF Arg, Closed, device, Dirs, Done, gate, GiveBack,
       GivesBack, pnpIrp, Present, PutDmaAdapter, Quiet, Removes, Stalls, States, Types
  <2> QED BY <1>2, <2>2 DEF AtRemove, Control
<1>10. CASE k = 8
  <2>1. IoSetDeviceInterfaceState
    BY <1>1, <1>10, RemovingCalls, ServeCall
  <2>2. todo' = From(Removing, 9) /\ minor' = minor /\ Removes(9)'
    BY <1>1, <1>10, RemovingCalls, <2>1 DEF Call, Closed, device, Dirs, Done, gate, GivesBack,
       IoSetDeviceInterfaceState, pnpIrp, Present, Quiet, Removes, Stalls, States, Types
  <2> QED BY <1>2, <2>2 DEF AtRemove, Control
<1>11. CASE k = 9
  <2>1. SetPnPState
    BY <1>1, <1>11, RemovingCalls, ServeCall
  <2>2. todo' = From(Removing, 10) /\ minor' = minor /\ Removes(10)'
    BY <1>1, <1>11, RemovingCalls, <2>1 DEF Arg, Call, Closed, Dirs, Done, gate, GivesBack,
       held, pnpIrp, Present, Quiet, Removes, SetPnPState, Stalls, States, Types
  <2> QED BY <1>2, <2>2 DEF AtRemove, Control
<1>12. CASE k = 10
  <2>1. SetPnPState
    BY <1>1, <1>12, RemovingCalls, ServeCall
  <2>2. todo' = From(Removing, 11) /\ minor' = minor /\ Removes(11)'
    BY <1>1, <1>12, RemovingCalls, <2>1 DEF Arg, Call, Closed, Dirs, Done, gate, GivesBack,
       held, pnpIrp, Present, Quiet, Removes, SetPnPState, Stalls, States, Types
  <2> QED BY <1>2, <2>2 DEF AtRemove, Control
<1>13. CASE k = 11
  <2>1. IoCompleteRequest
    BY <1>1, <1>13, RemovingCalls, ServeCall
  <2>2. todo' = From(Removing, 12) /\ minor' = minor /\ Removes(12)'
    BY <1>1, <1>13, <2>1 DEF Closed, device, Dirs, Done, gate, GivesBack, held,
       IoCompleteRequest, Present, Quiet, Removes, Stalls, States, Types
  <2> QED BY <1>2, <2>2 DEF AtRemove, Control
<1>14. CASE k = 12
  <2>1. CountRemoveLock
    BY <1>1, <1>14, RemovingCalls, ServeCall
  <2>2. todo' = From(Removing, 13) /\ minor' = minor /\ Removes(13)'
    BY <1>1, <1>14, <2>1 DEF Closed, CountRemoveLock, device, Dirs, Done, gate, GivesBack, held,
       pnpIrp, Present, Quiet, Removes, Stalls, States, Types
  <2> QED BY <1>2, <2>2 DEF AtRemove, Control
<1>15. CASE k = 13
  <2>1. Return
    BY <1>1, <1>15, RemovingCalls, ServeCall
  <2>2. todo' = <<>> /\ minor' = "NONE" /\ AtRest'
    <3>1. todo' = <<>>
      BY <1>1, <1>15, <2>1, RemovingCalls, FromAll DEF Done, Return
    <3> QED
      BY <1>1, <1>15, <2>1, <3>1 DEF Answered, AtRest, Closed, Deleted, device, Dirs, Done,
         gate, GivesBack, held, Present, Quiet, Removes, Return, Stalls, States, Types, Usual
  <2> QED BY <1>2, <2>2 DEF AtNone, Control
<1> QED BY <1>3, <1>4, <1>5, <1>6, <1>7, <1>8, <1>9, <1>10, <1>11, <1>12, <1>13, <1>14, <1>15

LEMMA CancelStopStep ==
  ASSUME Types, Usual, NEW k \in 1..7, minor = "CANCEL_STOP", todo = From(CancellingStop, k),
         CancelsStop(k), Serve
  PROVE  Types' /\ Control'
<1>1. todo # <<>> /\ Head(todo) = CancellingStop[k] /\ Tail(todo) = From(CancellingStop, k + 1)
  BY FromFirst, CancellingStopCalls
<1>2. Types'
  <2>1. Fits(Head(todo))
    BY <1>1, CancellingStopCalls, SMTT(30) DEF CancelsStop, Connected, Dirs, Fits, Present,
       Unqueued, Quiet, Stalls, States
  <2> QED BY <2>1, ServeTypes
<1>3. CASE k = 1
  <2>1. CountRemoveLock
    BY <1>1, <1>3, CancellingStopCalls, ServeCall
  <2>2. todo' = From(CancellingStop, 2) /\ minor' = minor /\ CancelsStop(2)'
    BY <1>1, <1>3, <2>1 DEF CancelsStop, Connected, CountRemoveLock, device, Dirs, Done, gate,
       held, pnpIrp, Present, Unqueued, Quiet, Stalls, States, Types
  <2> QED BY <1>2, <2>2 DEF AtCancelStop, Control
<1>4. CASE k = 2
  <2>1. SetPnPState
    BY <1>1, <1>4, CancellingStopCalls, ServeCall
  <2>2. todo' = From(CancellingStop, 3) /\ minor' = minor /\ CancelsStop(3)'
    BY <1>1, <1>4, CancellingStopCalls, <2>1 DEF Call, CancelsStop, Connected, Dirs, Done, gate,
       held, pnpIrp, Present, Unqueued, Quiet, SetPnPState, Stalls, States, Types
  <2> QED BY <1>2, <2>2 DEF AtCancelStop, Control
<1>5. CASE k = 3
  <2>1. RestartRequests
    BY <1>1, <1>5, CancellingStopCalls, ServeCall
  <2>2. todo' = From(CancellingStop, 4) /\ minor' = minor /\ CancelsStop(4)'
    BY <1>1, <1>5, CancellingStopCalls, <2>1 DEF Arg, CancelsStop, Connected, device, Dirs,
       Done, held, pnpIrp, Present, Unqueued, Quiet, RestartRequests, Stalls, States, Types
  <2> QED BY <1>2, <2>2 DEF AtCancelStop, Control
<1>6. CASE k = 4
  <2>1. RestartRequests
    BY <1>1, <1>6, CancellingStopCalls, ServeCall
  <2>2. todo' = From(CancellingStop, 5) /\ minor' = minor /\ CancelsStop(5)'
    BY <1>1, <1>6, CancellingStopCalls, <2>1 DEF Arg, CancelsStop, Connected, device, Dirs,
       Done, held, pnpIrp, Present, Unqueued, Quiet, RestartRequests, Stalls, States, Types
  <2> QED BY <1>2, <2>2 DEF AtCancelStop, Control
<1>7. CASE k = 5
  <2>1. CountRemoveLock
    BY <1>1, <1>7, CancellingStopCalls, ServeCall
  <2>2. todo' = From(CancellingStop, 6) /\ minor' = minor /\ CancelsStop(6)'
    BY <1>1, <1>7, <2>1 DEF CancelsStop, Connected, CountRemoveLock, device, Dirs, Done, gate,
       held, pnpIrp, Present, Unqueued, Quiet, Stalls, States, Types
  <2> QED BY <1>2, <2>2 DEF AtCancelStop, Control
<1>8. CASE k = 6
  <2>1. IoCompleteRequest
    BY <1>1, <1>8, CancellingStopCalls, ServeCall
  <2>2. todo' = From(CancellingStop, 7) /\ minor' = minor /\ CancelsStop(7)'
    BY <1>1, <1>8, <2>1 DEF CancelsStop, Connected, device, Dirs, Done, gate, held,
       IoCompleteRequest, Present, Unqueued, Quiet, Stalls, States, Types
  <2> QED BY <1>2, <2>2 DEF AtCancelStop, Control
<1>9. CASE k = 7
  <2>1. Return
    BY <1>1, <1>9, CancellingStopCalls, ServeCall
  <2>2. todo' = <<>> /\ minor' = "NONE" /\ AtRest'
    <3>1. todo' = <<>>
      BY <1>1, <1>9, <2>1, CancellingStopCalls, FromAll DEF Done, Return
    <3> QED
      BY <1>1, <1>9, <2>1, <3>1 DEF Answered, AtRest, CancelsStop, Connected, device, Dirs,
         Done, gate, held, Present, Unqueued, Quiet, Return, Stalls, States, Types, Usual, Working
  <2> QED BY <1>2, <2>2 DEF AtNone, Control
<1> QED BY <1>3, <1>4, <1>5, <1>6, <1>7, <1>8, <1>9

LEMMA CancelRemoveStep ==
  ASSUME Types, Usual, NEW k \in 1..7, minor = "CANCEL_REMOVE", todo = From(CancellingRemove, k),
         CancelsRemove(k), Serve
  PROVE  Types' /\ Control'
<1>1. todo # <<>> /\ Head(todo) = CancellingRemove[k] /\ Tail(todo) = From(CancellingRemove, k + 1)
  BY FromFirst, CancellingRemoveCalls
<1>2. Types'
  <2>1. Fits(Head(todo))
    BY <1>1, CancellingRemoveCalls, SMTT(30) DEF CancelsRemove, Connected, Dirs, Fits, Present,
       Quiet, Stalls, States
  <2> QED BY <2>1, ServeTypes
<1>3. CASE k = 1
  <2>1. CountRemoveLock
    BY <1>1, <1>3, CancellingRemoveCalls, ServeCall
  <2>2. todo' = From(CancellingRemove, 2) /\ minor' = minor /\ CancelsRemove(2)'
    BY <1>1, <1>3, <2>1 DEF CancelsRemove, Connected, CountRemoveLock, device, Dirs, Done, gate,
       held, pnpIrp, Present, Quiet, Stalls, States, Types
  <2> QED BY <1>2, <2>2 DEF AtCancelRemove, Control
<1>4. CASE k = 2
  <2>1. RestartRequests
    BY <1>1, <1>4, CancellingRemoveCalls, ServeCall
  <2>2. todo' = From(CancellingRemove, 3) /\ minor' = minor /\ CancelsRemove(3)'
    BY <1>1, <1>4, CancellingRemoveCalls, <2>1 DEF Arg, CancelsRemove, Connected, device, Dirs,
       Done, held, pnpIrp, Present, Quiet, RestartRequests, Stalls, States, Types
  <2> QED BY <1>2, <2>2 DEF AtCancelRemove, Control
<1>5. CASE k = 3
  <2>1. RestartRequests
    BY <1>1, <1>5, CancellingRemoveCalls, ServeCall
  <2>2. todo' = From(CancellingRemove, 4) /\ minor' = minor /\ CancelsRemove(4)'
    BY <1>1, <1>5, CancellingRemoveCalls, <2>1 DEF Arg, CancelsRemove, Connected, device, Dirs,
       Done, held, pnpIrp, Present, Quiet, RestartRequests, Stalls, States, Types
  <2> QED BY <1>2, <2>2 DEF AtCancelRemove, Control
<1>6. CASE k = 4
  <2>1. SetPnPState
    BY <1>1, <1>6, CancellingRemoveCalls, ServeCall
  <2>2. todo' = From(CancellingRemove, 5) /\ minor' = minor /\ CancelsRemove(5)'
    BY <1>1, <1>6, CancellingRemoveCalls, <2>1 DEF Call, CancelsRemove, Connected, Dirs, Done,
       gate, held, pnpIrp, Present, Quiet, SetPnPState, Stalls, States, Types
  <2> QED BY <1>2, <2>2 DEF AtCancelRemove, Control
<1>7. CASE k = 5
  <2>1. CountRemoveLock
    BY <1>1, <1>7, CancellingRemoveCalls, ServeCall
  <2>2. todo' = From(CancellingRemove, 6) /\ minor' = minor /\ CancelsRemove(6)'
    BY <1>1, <1>7, <2>1 DEF CancelsRemove, Connected, CountRemoveLock, device, Dirs, Done, gate,
       held, pnpIrp, Present, Quiet, Stalls, States, Types
  <2> QED BY <1>2, <2>2 DEF AtCancelRemove, Control
<1>8. CASE k = 6
  <2>1. IoCompleteRequest
    BY <1>1, <1>8, CancellingRemoveCalls, ServeCall
  <2>2. todo' = From(CancellingRemove, 7) /\ minor' = minor /\ CancelsRemove(7)'
    BY <1>1, <1>8, <2>1 DEF CancelsRemove, Connected, device, Dirs, Done, gate, held,
       IoCompleteRequest, Present, Quiet, Stalls, States, Types
  <2> QED BY <1>2, <2>2 DEF AtCancelRemove, Control
<1>9. CASE k = 7
  <2>1. Return
    BY <1>1, <1>9, CancellingRemoveCalls, ServeCall
  <2>2. todo' = <<>> /\ minor' = "NONE" /\ AtRest'
    <3>1. todo' = <<>>
      BY <1>1, <1>9, <2>1, CancellingRemoveCalls, FromAll DEF Done, Return
    <3> QED
      BY <1>1, <1>9, <2>1, <3>1 DEF Answered, AtRest, CancelsRemove, Connected, device, Dirs,
         Done, gate, held, Present, Quiet, Return, Stalls, States, Types, Usual, Working
  <2> QED BY <1>2, <2>2 DEF AtNone, Control
<1> QED BY <1>3, <1>4, <1>5, <1>6, <1>7, <1>8, <1>9

LEMMA IgnoreStep ==
  ASSUME Types, Usual, NEW k \in 1..5, minor = "CANCEL_REMOVE", todo = From(Ignoring, k),
         Ignores(k), Serve
  PROVE  Types' /\ Control'
<1>1. todo # <<>> /\ Head(todo) = Ignoring[k] /\ Tail(todo) = From(Ignoring, k + 1)
  BY FromFirst, IgnoringCalls
<1>2. Types'
  <2>1. Fits(Head(todo))
    BY <1>1, IgnoringCalls, SMTT(30) DEF Connected, Dirs, Fits, Ignores, Present, Stalls,
       States, Working
  <2> QED BY <2>1, ServeTypes
<1>3. CASE k = 1
  <2>1. CountRemoveLock
    BY <1>1, <1>3, IgnoringCalls, ServeCall
  <2>2. todo' = From(Ignoring, 2) /\ minor' = minor /\ Ignores(2)'
    BY <1>1, <1>3, <2>1 DEF Connected, CountRemoveLock, device, Dirs, Done, gate, held, Ignores,
       pnpIrp, Present, Stalls, States, Types, Working
  <2> QED BY <1>2, <2>2 DEF AtIgnored, Control
<1>4. CASE k = 2
  <2>1. IoCompleteRequest
    BY <1>1, <1>4, IgnoringCalls, ServeCall
  <2>2. todo' = From(Ignoring, 3) /\ minor' = minor /\ Ignores(3)'
    BY <1>1, <1>4, <2>1 DEF Connected, device, Dirs, Done, gate, held, Ignores,
       IoCompleteRequest, Present, Stalls, States, Types, Working
  <2> QED BY <1>2, <2>2 DEF AtIgnored, Control
<1>5. CASE k = 3
  <2>1. CountRemoveLock
    BY <1>1, <1>5, IgnoringCalls, ServeCall
  <2>2. todo' = From(Ignoring, 4) /\ minor' = minor /\ Ignores(4)'
    BY <1>1, <1>5, <2>1 DEF Connected, CountRemoveLock, device, Dirs, Done, gate, held, Ignores,
       pnpIrp, Present, Stalls, States, Types, Working
  <2> QED BY <1>2, <2>2 DEF AtIgnored, Control
<1>6. CASE k = 4
  <2>1. IoCompleteRequest
    BY <1>1, <1>6, IgnoringCalls, ServeCall
  <2>2. todo' = From(Ignoring, 5) /\ minor' = minor /\ Ignores(5)'
    BY <1>1, <1>6, <2>1 DEF Connected, device, Dirs, Done, gate, held, Ignores,
       IoCompleteRequest, Present, Stalls, States, Types, Working
  <2> QED BY <1>2, <2>2 DEF AtIgnored, Control
<1>7. CASE k = 5
  <2>1. Return
    BY <1>1, <1>7, IgnoringCalls, ServeCall
  <2>2. todo' = <<>> /\ minor' = "NONE" /\ AtRest'
    <3>1. todo' = <<>>
      BY <1>1, <1>7, <2>1, IgnoringCalls, FromAll DEF Done, Return
    <3> QED
      BY <1>1, <1>7, <2>1, <3>1 DEF Answered, AtRest, Connected, device, Dirs, Done, gate, held,
         Ignores, Present, Return, Stalls, States, Types, Usual, Working
  <2> QED BY <1>2, <2>2 DEF AtNone, Control
<1> QED BY <1>3, <1>4, <1>5, <1>6, <1>7

LEMMA SurpriseStep ==
  ASSUME Types, Usual, NEW k \in 1..14, minor = "SURPRISE", todo = From(Surprising, k),
         Vanishes(k), Serve
  PROVE  Types' /\ Control'
<1>1. todo # <<>> /\ Head(todo) = Surprising[k] /\ Tail(todo) = From(Surprising, k + 1)
  BY FromFirst, SurprisingCalls
<1>2. Types'
  <2>1. Fits(Head(todo))
    <3>1. CASE k <= 5
      BY <1>1, <3>1, SurprisingCalls, SMTT(30) DEF Dirs, Fits, States
    <3>2. CASE k > 5 /\ k <= 9
      BY <1>1, <3>2, SurprisingCalls, SMTT(30) DEF Dirs, Fits, States
    <3>3. CASE k > 9
      BY <1>1, <3>3, SurprisingCalls DEF Fits, Vanishes
    <3> QED BY <3>1, <3>2, <3>3
  <2> QED BY <2>1, ServeTypes
<1>3. CASE k = 1
  <2>1. SetAbortStatus
    BY <1>1, <1>3, SurprisingCalls, ServeCall
  <2>2. todo' = From(Surprising, 2) /\ minor' = minor /\ Vanishes(2)'
    BY <1>1, <1>3, SurprisingCalls, <2>1 DEF Arg, Connected, device, Dirs, Done, held, pnpIrp,
       Present, Quiet, SetAbortStatus, Stalls, States, Types, Vanishes
  <2> QED BY <1>2, <2>2 DEF AtSurprise, Control
<1>4. CASE k = 2
  <2>1. CleanupRequests
    BY <1>1, <1>4, SurprisingCalls, ServeCall
  <2>2. todo' = From(Surprising, 3) /\ minor' = minor /\ Vanishes(3)'
    BY <1>1, <1>4, SurprisingCalls, <2>1 DEF Arg, CleanupRequests, Connected, device, Dirs,
       Done, gate, held, pnpIrp, Present, Quiet, Stalls, States, Types, Vanishes
  <2> QED BY <1>2, <2>2 DEF AtSurprise, Control
<1>5. CASE k = 3
  <2>1. SetAbortStatus
    BY <1>1, <1>5, SurprisingCalls, ServeCall
  <2>2. todo' = From(Surprising, 4) /\ minor' = minor /\ Vanishes(4)'
    BY <1>1, <1>5, SurprisingCalls, <2>1 DEF Arg, Connected, device, Dirs, Done, held, pnpIrp,
       Present, Quiet, SetAbortStatus, Stalls, States, Types, Vanishes
  <2> QED BY <1>2, <2>2 DEF AtSurprise, Control
<1>6. CASE k = 4
  <2>1. CleanupRequests
    BY <1>1, <1>6, SurprisingCalls, ServeCall
  <2>2. todo' = From(Surprising, 5) /\ minor' = minor /\ Vanishes(5)'
    BY <1>1, <1>6, SurprisingCalls, <2>1 DEF Arg, CleanupRequests, Connected, device, Dirs,
       Done, gate, held, pnpIrp, Present, Quiet, Stalls, States, Types, Vanishes
  <2> QED BY <1>2, <2>2 DEF AtSurprise, Control
<1>7. CASE k = 5
  <2>1. SetPnPState
    BY <1>1, <1>7, SurprisingCalls, ServeCall
  <2>2. todo' = From(Surprising, 6) /\ minor' = minor /\ Vanishes(6)'
    BY <1>1, <1>7, SurprisingCalls, <2>1 DEF Arg, Call, Connected, Dirs, Done, gate, held,
       pnpIrp, Present, Quiet, SetPnPState, Stalls, States, Types, Vanishes
  <2> QED BY <1>2, <2>2 DEF AtSurprise, Control
<1>8. CASE k = 6
  <2>1. IoSetDeviceInterfaceState
    BY <1>1, <1>8, SurprisingCalls, ServeCall
  <2>2. ~interface'
    BY <1>1, <1>8, SurprisingCalls, <2>1, InterfaceDisabled
  <2>3. todo' = From(Surprising, 7) /\ minor' = minor /\ Vanishes(7)'
    BY <1>1, <1>8, SurprisingCalls, <2>1, <2>2 DEF Call, Connected, device, Dirs, Done, gate,
       IoSetDeviceInterfaceState, pnpIrp, Present, Quiet, Stalls, States, Types, Vanishes
  <2> QED BY <1>2, <2>3 DEF AtSurprise, Control
<1>9. CASE k = 7
  <2>1. IoDisconnectInterrupt
    BY <1>1, <1>9, SurprisingCalls, ServeCall
  <2>2. todo' = From(Surprising, 8) /\ minor' = minor /\ Vanishes(8)'
    BY <1>1, <1>9, <2>1 DEF Connected, device, Dirs, Done, gate, GiveBack,
       IoDisconnectInterrupt, pnpIrp, Present, Quiet, Stalls, States, Types, Vanishes
  <2> QED BY <1>2, <2>2 DEF AtSurprise, Control
<1>10. CASE k = 8
  <2>1. PutDmaAdapter
    BY <1>1, <1>10, SurprisingCalls, ServeCall
  <2>2. todo' = From(Surprising, 9) /\ minor' = minor /\ Vanishes(9)'
    BY <1>1, <1>10, SurprisingCalls, <2>1 DEF Arg, Connected, device, Dirs, Done, gate,
       GiveBack, pnpIrp, Present, PutDmaAdapter, Quiet, Stalls, States, Types, Vanishes
  <2> QED BY <1>2, <2>2 DEF AtSurprise, Control
<1>11. CASE k = 9
  <2>1. PutDmaAdapter
    BY <1>1, <1>11, SurprisingCalls, ServeCall
  <2>2. todo' = From(Surprising, 10) /\ minor' = minor /\ Vanishes(10)'
    BY <1>1, <1>11, SurprisingCalls, <2>1 DEF Arg, Connected, device, Dirs, Done, gate,
       GiveBack, pnpIrp, Present, PutDmaAdapter, Quiet, Stalls, States, Types, Vanishes
  <2> QED BY <1>2, <2>2 DEF AtSurprise, Control
<1>12. CASE k = 10
  <2>1. CountRemoveLock
    BY <1>1, <1>12, SurprisingCalls, ServeCall
  <2>2. todo' = From(Surprising, 11) /\ minor' = minor /\ Vanishes(11)'
    BY <1>1, <1>12, <2>1 DEF Connected, CountRemoveLock, device, Dirs, Done, gate, held, pnpIrp,
       Present, Quiet, Stalls, States, Types, Vanishes
  <2> QED BY <1>2, <2>2 DEF AtSurprise, Control
<1>13. CASE k = 11
  <2>1. IoCompleteRequest
    BY <1>1, <1>13, SurprisingCalls, ServeCall
  <2>2. todo' = From(Surprising, 12) /\ minor' = minor /\ Vanishes(12)'
    BY <1>1, <1>13, <2>1 DEF Connected, device, Dirs, Done, gate, held, IoCompleteRequest,
       Present, Quiet, Stalls, States, Types, Vanishes
  <2> QED BY <1>2, <2>2 DEF AtSurprise, Control
<1>14. CASE k = 12
  <2>1. CountRemoveLock
    BY <1>1, <1>14, SurprisingCalls, ServeCall
  <2>2. todo' = From(Surprising, 13) /\ minor' = minor /\ Vanishes(13)'
    BY <1>1, <1>14, <2>1 DEF Connected, CountRemoveLock, device, Dirs, Done, gate, held, pnpIrp,
       Present, Quiet, Stalls, States, Types, Vanishes
  <2> QED BY <1>2, <2>2 DEF AtSurprise, Control
<1>15. CASE k = 13
  <2>1. IoCompleteRequest
    BY <1>1, <1>15, SurprisingCalls, ServeCall
  <2>2. todo' = From(Surprising, 14) /\ minor' = minor /\ Vanishes(14)'
    BY <1>1, <1>15, <2>1 DEF Connected, device, Dirs, Done, gate, held, IoCompleteRequest,
       Present, Quiet, Stalls, States, Types, Vanishes
  <2> QED BY <1>2, <2>2 DEF AtSurprise, Control
<1>16. CASE k = 14
  <2>1. Return
    BY <1>1, <1>16, SurprisingCalls, ServeCall
  <2>2. todo' = <<>> /\ minor' = "NONE" /\ AtRest'
    <3>1. todo' = <<>>
      BY <1>1, <1>16, <2>1, SurprisingCalls, FromAll DEF Done, Return
    <3> QED
      BY <1>1, <1>16, <2>1, <3>1 DEF Answered, AtRest, Connected, device, Dirs, Done, gate,
         Gone, held, Present, Quiet, Return, Stalls, States, Types, Usual, Vanishes
  <2> QED BY <1>2, <2>2 DEF AtNone, Control
<1> QED BY <1>3, <1>4, <1>5, <1>6, <1>7, <1>8, <1>9, <1>10, <1>11, <1>12, <1>13, <1>14, <1>15,
           <1>16

LEMMA OtherStep ==
  ASSUME Types, Usual, NEW k \in 1..2, minor = "OTHER", todo = From(Passing, k),
         Passes(k), Serve
  PROVE  Types' /\ Control'
<1>1. todo # <<>> /\ Head(todo) = Passing[k] /\ Tail(todo) = From(Passing, k + 1)
  BY FromFirst, PassingCalls
<1>2. Types'
  <2>1. Fits(Head(todo))
    BY <1>1, PassingCalls, SMTT(30) DEF Connected, Dirs, Fits, Passes, Present, Stalls, States,
       Working
  <2> QED BY <2>1, ServeTypes
<1>3. CASE k = 1
  <2>1. IoCompleteRequest
    BY <1>1, <1>3, PassingCalls, ServeCall
  <2>2. todo' = From(Passing, 2) /\ minor' = minor /\ Passes(2)'
    BY <1>1, <1>3, <2>1 DEF Connected, device, Dirs, Done, gate, held, IoCompleteRequest,
       Passes, Present, Stalls, States, Types, Working
  <2> QED BY <1>2, <2>2 DEF AtOther, Control
<1>4. CASE k = 2
  <2>1. Return
    BY <1>1, <1>4, PassingCalls, ServeCall
  <2>2. todo' = <<>> /\ minor' = "NONE" /\ AtRest'
    <3>1. todo' = <<>>
      BY <1>1, <1>4, <2>1, PassingCalls, FromAll DEF Done, Return
    <3> QED
      BY <1>1, <1>4, <2>1, <3>1 DEF Answered, AtRest, Connected, device, Dirs, Done, gate, held,
         Passes, Present, Return, Stalls, States, Types, Usual, Working
  <2> QED BY <1>2, <2>2 DEF AtNone, Control
<1> QED BY <1>3, <1>4

LEMMA RefusedStep ==
  ASSUME Types, Usual, NEW k \in 1..3, todo = From(Closing, k), Closes(k), Serve
  PROVE  Types' /\ Control'
<1>1. todo # <<>> /\ Head(todo) = Closing[k] /\ Tail(todo) = From(Closing, k + 1)
  BY FromFirst, ClosingCalls
<1>2. Types'
  <2>1. Fits(Head(todo))
    BY <1>1, ClosingCalls, SMTT(30) DEF Closes, Connected, Dirs, Fits, Fresh, Idle, Present,
       Quiet, Stalls, States, Unstarted, Working
  <2> QED BY <2>1, ServeTypes
<1>3. CASE k = 1
  <2>1. CountRemoveLock
    BY <1>1, <1>3, ClosingCalls, ServeCall
  <2>2. todo' = From(Closing, 2) /\ minor' = minor /\ Closes(2)'
    BY <1>1, <1>3, <2>1 DEF Closes, Connected, CountRemoveLock, device, Dirs, Done, Fresh, gate,
       held, Idle, pnpIrp, Present, Quiet, Stalls, States, Types, Unstarted, Working
  <2> QED BY <1>2, <2>2 DEF AtRefused, Control
<1>4. CASE k = 2
  <2>1. IoCompleteRequest
    BY <1>1, <1>4, ClosingCalls, ServeCall
  <2>2. todo' = From(Closing, 3) /\ minor' = minor /\ Closes(3)'
    BY <1>1, <1>4, <2>1 DEF Closes, Connected, device, Dirs, Done, Fresh, gate, held, Idle,
       IoCompleteRequest, Present, Quiet, Stalls, States, Types, Unstarted, Working
  <2> QED BY <1>2, <2>2 DEF AtRefused, Control
<1>5. CASE k = 3
  <2>1. Return
    BY <1>1, <1>5, ClosingCalls, ServeCall
  <2>2. todo' = <<>> /\ minor' = "NONE" /\ AtRest'
    <3>1. todo' = <<>>
      BY <1>1, <1>5, <2>1, ClosingCalls, FromAll DEF Done, Return
    <3> QED
      BY <1>1, <1>5, <2>1, <3>1 DEF Answered, AtRest, Closes, Connected, device, Dirs, Done,
         Fresh, gate, held, Idle, Present, Quiet, Return, Stalls, States, Types, Unstarted,
         Usual, Working
  <2> QED BY <1>2, <2>2 DEF AtNone, Control
<1> QED BY <1>3, <1>4, <1>5

LEMMA QueryStopStep ==
  ASSUME Types, Usual, NEW k \in 1..12, minor = "QUERY_STOP", todo = From(QueryingStop, k),
         QueriesStop(k), Serve
  PROVE  Types' /\ Control'
<1>1. todo # <<>> /\ Head(todo) = QueryingStop[k] /\ Tail(todo) = From(QueryingStop, k + 1)
  BY FromFirst, QueryingStopCalls
<1>2. Types'
  <2>1. Fits(Head(todo))
    BY <1>1, QueryingStopCalls, SMTT(30) DEF Connected, Dirs, Fits, Present, Queries,
       QueriesStop, Stalls, States
  <2> QED BY <2>1, ServeTypes
<1>3. CASE k = 1
  <2>1. StallRequests
    BY <1>1, <1>3, QueryingStopCalls, ServeCall
  <2>2. todo' = From(QueryingStop, 2) /\ minor' = minor /\ QueriesStop(2)'
    BY <1>1, <1>3, QueryingStopCalls, <2>1 DEF Arg, Connected, device, Dirs, Done, held, pnpIrp,
       Present, Queries, QueriesStop, StallRequests, Stalls, States, Types
  <2> QED BY <1>2, <2>2 DEF AtQueryStop, Control
<1>4. CASE k = 2
  <2>1. StallRequests
    BY <1>1, <1>4, QueryingStopCalls, ServeCall
  <2>2. todo' = From(QueryingStop, 3) /\ minor' = minor /\ QueriesStop(3)'
    BY <1>1, <1>4, QueryingStopCalls, <2>1 DEF Arg, Connected, device, Dirs, Done, held, pnpIrp,
       Present, Queries, QueriesStop, StallRequests, Stalls, States, Types
  <2> QED BY <1>2, <2>2 DEF AtQueryStop, Control
<1>5. CASE k = 3
  <2>1. ClearStopEvent
    BY <1>1, <1>5, QueryingStopCalls, ServeCall
  <2>2. todo' = From(QueryingStop, 4) /\ minor' = minor /\ QueriesStop(4)'
    BY <1>1, <1>5, QueryingStopCalls, <2>1 DEF Arg, ClearStopEvent, Connected, device, Dirs,
       Done, held, pnpIrp, Present, Queries, QueriesStop, Stalls, States, Types
  <2> QED BY <1>2, <2>2 DEF AtQueryStop, Control
<1>6. CASE k = 4
  <2>1. CheckCurrent
    BY <1>1, <1>6, QueryingStopCalls, ServeCall
  <2>2. CASE req["read"] = "current"
    <3>1. minor' = minor /\ QueriesStop(4)'
      BY <1>1, <1>6, QueryingStopCalls, <2>1, <2>2 DEF Arg, CheckCurrent, Connected, device,
         Dirs, gate, held, pnpIrp, Present, Queries, QueriesStop, Stalls, States, Types
    <3>2. Head(todo)[2] = "read" /\ Tail(todo) = From(QueryingStop, 5)
      BY <1>1, <1>6, QueryingStopCalls
    <3>3. todo' = Waiting("read", QueryingStop, 5)
      BY <2>1, <2>2, <3>2, WaitEntered
    <3> QED BY <1>2, <3>1, <3>3 DEF AtQueryStop, Control
  <2>3. CASE req["read"] # "current"
    <3>1. todo' = From(QueryingStop, 5) /\ minor' = minor /\ QueriesStop(5)'
      BY <1>1, <1>6, QueryingStopCalls, <2>1, <2>3 DEF Arg, CheckCurrent, Connected, device,
         Dirs, gate, held, pnpIrp, Present, Queries, QueriesStop, Stalls, States, Types
    <3> QED BY <1>2, <3>1 DEF AtQueryStop, Control
  <2> QED BY <2>2, <2>3
<1>7. CASE k = 5
  <2>1. ClearStopEvent
    BY <1>1, <1>7, QueryingStopCalls, ServeCall
  <2>2. todo' = From(QueryingStop, 6) /\ minor' = minor /\ QueriesStop(6)'
    BY <1>1, <1>7, QueryingStopCalls, <2>1 DEF Arg, ClearStopEvent, Connected, device, Dirs,
       Done, held, pnpIrp, Present, Queries, QueriesStop, Stalls, States, Types
  <2> QED BY <1>2, <2>2 DEF AtQueryStop, Control
<1>8. CASE k = 6
  <2>1. CheckCurrent
    BY <1>1, <1>8, QueryingStopCalls, ServeCall
  <2>2. CASE req["write"] = "current"
    <3>1. minor' = minor /\ QueriesStop(6)'
      BY <1>1, <1>8, QueryingStopCalls, <2>1, <2>2 DEF Arg, CheckCurrent, Connected, device,
         Dirs, gate, held, pnpIrp, Present, Queries, QueriesStop, Stalls, States, Types
    <3>2. Head(todo)[2] = "write" /\ Tail(todo) = From(QueryingStop, 7)
      BY <1>1, <1>8, QueryingStopCalls
    <3>3. todo' = Waiting("write", QueryingStop, 7)
      BY <2>1, <2>2, <3>2, WaitEntered
    <3> QED BY <1>2, <3>1, <3>3 DEF AtQueryStop, Control
  <2>3. CASE req["write"] # "current"
    <3>1. todo' = From(QueryingStop, 7) /\ minor' = minor /\ QueriesStop(7)'
      BY <1>1, <1>8, QueryingStopCalls, <2>1, <2>3 DEF Arg, CheckCurrent, Connected, device,
         Dirs, gate, held, pnpIrp, Present, Queries, QueriesStop, Stalls, States, Types
    <3> QED BY <1>2, <3>1 DEF AtQueryStop, Control
  <2> QED BY <2>2, <2>3
<1>9. CASE k = 7
  <2>1. SetPnPState
    BY <1>1, <1>9, QueryingStopCalls, ServeCall
  <2>2. todo' = From(QueryingStop, 8) /\ minor' = minor /\ QueriesStop(8)'
    BY <1>1, <1>9, QueryingStopCalls, <2>1 DEF Arg, Call, Connected, Dirs, Done, gate, held,
       pnpIrp, Present, Queries, QueriesStop, SetPnPState, Stalls, States, Types
  <2> QED BY <1>2, <2>2 DEF AtQueryStop, Control
<1>10. CASE k = 8
  <2>1. CountRemoveLock
    BY <1>1, <1>10, QueryingStopCalls, ServeCall
  <2>2. todo' = From(QueryingStop, 9) /\ minor' = minor /\ QueriesStop(9)'
    BY <1>1, <1>10, <2>1 DEF Connected, CountRemoveLock, device, Dirs, Done, gate, held, pnpIrp,
       Present, Queries, QueriesStop, Stalls, States, Types
  <2> QED BY <1>2, <2>2 DEF AtQueryStop, Control
<1>11. CASE k = 9
  <2>1. IoCompleteRequest
    BY <1>1, <1>11, QueryingStopCalls, ServeCall
  <2>2. todo' = From(QueryingStop, 10) /\ minor' = minor /\ QueriesStop(10)'
    BY <1>1, <1>11, <2>1 DEF Connected, device, Dirs, Done, gate, held, IoCompleteRequest,
       Present, Queries, QueriesStop, Stalls, States, Types
  <2> QED BY <1>2, <2>2 DEF AtQueryStop, Control
<1>12. CASE k = 10
  <2>1. CountRemoveLock
    BY <1>1, <1>12, QueryingStopCalls, ServeCall
  <2>2. todo' = From(QueryingStop, 11) /\ minor' = minor /\ QueriesStop(11)'
    BY <1>1, <1>12, <2>1 DEF Connected, CountRemoveLock, device, Dirs, Done, gate, held, pnpIrp,
       Present, Queries, QueriesStop, Stalls, States, Types
  <2> QED BY <1>2, <2>2 DEF AtQueryStop, Control
<1>13. CASE k = 11
  <2>1. IoCompleteRequest
    BY <1>1, <1>13, QueryingStopCalls, ServeCall
  <2>2. todo' = From(QueryingStop, 12) /\ minor' = minor /\ QueriesStop(12)'
    BY <1>1, <1>13, <2>1 DEF Connected, device, Dirs, Done, gate, held, IoCompleteRequest,
       Present, Queries, QueriesStop, Stalls, States, Types
  <2> QED BY <1>2, <2>2 DEF AtQueryStop, Control
<1>14. CASE k = 12
  <2>1. Return
    BY <1>1, <1>14, QueryingStopCalls, ServeCall
  <2>2. todo' = <<>> /\ minor' = "NONE" /\ AtRest'
    <3>1. todo' = <<>>
      BY <1>1, <1>14, <2>1, QueryingStopCalls, FromAll DEF Done, Return
    <3> QED
      BY <1>1, <1>14, <2>1, <3>1 DEF Answered, AtRest, Connected, device, Dirs, Done, gate,
         Held, held, Present, Queries, QueriesStop, Quiet, Return, Stalls, States, Types, Usual
  <2> QED BY <1>2, <2>2 DEF AtNone, Control
<1> QED BY <1>3, <1>4, <1>5, <1>6, <1>7, <1>8, <1>9, <1>10, <1>11, <1>12, <1>13, <1>14

LEMMA QueryRemoveStep ==
  ASSUME Types, Usual, NEW k \in 1..10, minor = "QUERY_REMOVE", todo = From(QueryingRemove, k),
         QueriesRemove(k), Serve
  PROVE  Types' /\ Control'
<1>1. todo # <<>> /\ Head(todo) = QueryingRemove[k] /\ Tail(todo) = From(QueryingRemove, k + 1)
  BY FromFirst, QueryingRemoveCalls
<1>2. Types'
  <2>1. Fits(Head(todo))
    BY <1>1, QueryingRemoveCalls, SMTT(30) DEF Connected, Dirs, Fits, Present, Queries,
       QueriesRemove, Stalls, States
  <2> QED BY <2>1, ServeTypes
<1>3. CASE k = 1
  <2>1. StallRequests
    BY <1>1, <1>3, QueryingRemoveCalls, ServeCall
  <2>2. todo' = From(QueryingRemove, 2) /\ minor' = minor /\ QueriesRemove(2)'
    BY <1>1, <1>3, QueryingRemoveCalls, <2>1 DEF Arg, Connected, device, Dirs, Done, held,
       pnpIrp, Present, Queries, QueriesRemove, StallRequests, Stalls, States, Types
  <2> QED BY <1>2, <2>2 DEF AtQueryRemove, Control
<1>4. CASE k = 2
  <2>1. StallRequests
    BY <1>1, <1>4, QueryingRemoveCalls, ServeCall
  <2>2. todo' = From(QueryingRemove, 3) /\ minor' = minor /\ QueriesRemove(3)'
    BY <1>1, <1>4, QueryingRemoveCalls, <2>1 DEF Arg, Connected, device, Dirs, Done, held,
       pnpIrp, Present, Queries, QueriesRemove, StallRequests, Stalls, States, Types
  <2> QED BY <1>2, <2>2 DEF AtQueryRemove, Control
<1>5. CASE k = 3
  <2>1. ClearStopEvent
    BY <1>1, <1>5, QueryingRemoveCalls, ServeCall
  <2>2. todo' = From(QueryingRemove, 4) /\ minor' = minor /\ QueriesRemove(4)'
    BY <1>1, <1>5, QueryingRemoveCalls, <2>1 DEF Arg, ClearStopEvent, Connected, device, Dirs,
       Done, held, pnpIrp, Present, Queries, QueriesRemove, Stalls, States, Types
  <2> QED BY <1>2, <2>2 DEF AtQueryRemove, Control
<1>6. CASE k = 4
  <2>1. CheckCurrent
    BY <1>1, <1>6, QueryingRemoveCalls, ServeCall
  <2>2. CASE req["read"] = "current"
    <3>1. minor' = minor /\ QueriesRemove(4)'
      BY <1>1, <1>6, QueryingRemoveCalls, <2>1, <2>2 DEF Arg, CheckCurrent, Connected, device,
         Dirs, gate, held, pnpIrp, Present, Queries, QueriesRemove, Stalls, States, Types
    <3>2. Head(todo)[2] = "read" /\ Tail(todo) = From(QueryingRemove, 5)
      BY <1>1, <1>6, QueryingRemoveCalls
    <3>3. todo' = Waiting("read", QueryingRemove, 5)
      BY <2>1, <2>2, <3>2, WaitEntered
    <3> QED BY <1>2, <3>1, <3>3 DEF AtQueryRemove, Control
  <2>3. CASE req["read"] # "current"
    <3>1. todo' = From(QueryingRemove, 5) /\ minor' = minor /\ QueriesRemove(5)'
      BY <1>1, <1>6, QueryingRemoveCalls, <2>1, <2>3 DEF Arg, CheckCurrent, Connected, device,
         Dirs, gate, held, pnpIrp, Present, Queries, QueriesRemove, Stalls, States, Types
    <3> QED BY <1>2, <3>1 DEF AtQueryRemove, Control
  <2> QED BY <2>2, <2>3
<1>7. CASE k = 5
  <2>1. ClearStopEvent
    BY <1>1, <1>7, QueryingRemoveCalls, ServeCall
  <2>2. todo' = From(QueryingRemove, 6) /\ minor' = minor /\ QueriesRemove(6)'
    BY <1>1, <1>7, QueryingRemoveCalls, <2>1 DEF Arg, ClearStopEvent, Connected, device, Dirs,
       Done, held, pnpIrp, Present, Queries, QueriesRemove, Stalls, States, Types
  <2> QED BY <1>2, <2>2 DEF AtQueryRemove, Control
<1>8. CASE k = 6
  <2>1. CheckCurrent
    BY <1>1, <1>8, QueryingRemoveCalls, ServeCall
  <2>2. CASE req["write"] = "current"
    <3>1. minor' = minor /\ QueriesRemove(6)'
      BY <1>1, <1>8, QueryingRemoveCalls, <2>1, <2>2 DEF Arg, CheckCurrent, Connected, device,
         Dirs, gate, held, pnpIrp, Present, Queries, QueriesRemove, Stalls, States, Types
    <3>2. Head(todo)[2] = "write" /\ Tail(todo) = From(QueryingRemove, 7)
      BY <1>1, <1>8, QueryingRemoveCalls
    <3>3. todo' = Waiting("write", QueryingRemove, 7)
      BY <2>1, <2>2, <3>2, WaitEntered
    <3> QED BY <1>2, <3>1, <3>3 DEF AtQueryRemove, Control
  <2>3. CASE req["write"] # "current"
    <3>1. todo' = From(QueryingRemove, 7) /\ minor' = minor /\ QueriesRemove(7)'
      BY <1>1, <1>8, QueryingRemoveCalls, <2>1, <2>3 DEF Arg, CheckCurrent, Connected, device,
         Dirs, gate, held, pnpIrp, Present, Queries, QueriesRemove, Stalls, States, Types
    <3> QED BY <1>2, <3>1 DEF AtQueryRemove, Control
  <2> QED BY <2>2, <2>3
<1>9. CASE k = 7
  <2>1. SetPnPState
    BY <1>1, <1>9, QueryingRemoveCalls, ServeCall
  <2>2. todo' = From(QueryingRemove, 8) /\ minor' = minor /\ QueriesRemove(8)'
    BY <1>1, <1>9, QueryingRemoveCalls, <2>1 DEF Arg, Call, Connected, Dirs, Done, gate, held,
       pnpIrp, Present, Queries, QueriesRemove, SetPnPState, Stalls, States, Types
  <2> QED BY <1>2, <2>2 DEF AtQueryRemove, Control
<1>10. CASE k = 8
  <2>1. CountRemoveLock
    BY <1>1, <1>10, QueryingRemoveCalls, ServeCall
  <2>2. todo' = From(QueryingRemove, 9) /\ minor' = minor /\ QueriesRemove(9)'
    BY <1>1, <1>10, <2>1 DEF Connected, CountRemoveLock, device, Dirs, Done, gate, held, pnpIrp,
       Present, Queries, QueriesRemove, Stalls, States, Types
  <2> QED BY <1>2, <2>2 DEF AtQueryRemove, Control
<1>11. CASE k = 9
  <2>1. IoCompleteRequest
    BY <1>1, <1>11, QueryingRemoveCalls, ServeCall
  <2>2. todo' = From(QueryingRemove, 10) /\ minor' = minor /\ QueriesRemove(10)'
    BY <1>1, <1>11, <2>1 DEF Connected, device, Dirs, Done, gate, held, IoCompleteRequest,
       Present, Queries, QueriesRemove, Stalls, States, Types
  <2> QED BY <1>2, <2>2 DEF AtQueryRemove, Control
<1>12. CASE k = 10
  <2>1. Return
    BY <1>1, <1>12, QueryingRemoveCalls, ServeCall
  <2>2. todo' = <<>> /\ minor' = "NONE" /\ AtRest'
    <3>1. todo' = <<>>
      BY <1>1, <1>12, <2>1, QueryingRemoveCalls, FromAll DEF Done, Return
    <3> QED
      BY <1>1, <1>12, <2>1, <3>1 DEF Answered, AtRest, Connected, device, Dirs, Done, gate,
         Held, held, Present, Queries, QueriesRemove, Quiet, Return, Stalls, States, Types,
         Usual
  <2> QED BY <1>2, <2>2 DEF AtNone, Control
<1> QED BY <1>3, <1>4, <1>5, <1>6, <1>7, <1>8, <1>9, <1>10, <1>11, <1>12

-----------------------------------------------------------------------------
(* The request goes down to the lower driver and comes back.               *)
LEMMA SentDown ==
  ASSUME Usual, SendIrpSync
  PROVE  /\ \/ status' = "SUCCESS" /\ todo' = Handler
            \/ /\ status' = "FAILURE" /\ todo' = ReleaseAndClose
               /\ minor = "QUERY_REMOVE" \/ (minor = "START" /\ (manager = "down" \/ ~Restarts))
         /\ UNCHANGED <<device, held, gate, req, open, minor, manager, completions, misuse>>
<1>1. PICK ok \in Refusals : /\ status' = IF ok THEN "SUCCESS" ELSE "FAILURE"
                             /\ todo' = IF ok THEN Handler ELSE ReleaseAndClose
  BY DEF SendIrpSync
<1>2. CASE minor = "QUERY_STOP"
  <2>1. ok
    BY <1>2, Outcomes DEF Refusals, Usual
  <2> QED BY <1>1, <2>1 DEF SendIrpSync
<1>3. CASE minor = "QUERY_REMOVE"
  <2>1. ok \in BOOLEAN
    BY <1>3, Outcomes DEF Refusals
  <2> QED BY <1>1, <1>3, <2>1 DEF SendIrpSync
<1>4. CASE minor = "START"
  <2>1. ok \in BOOLEAN /\ (ok \/ StartFailure \in Env)
    BY <1>4, Outcomes DEF Refusals
  <2>2. ok \/ manager = "down" \/ ~Restarts
    BY <2>1 DEF StartFailure, Restarts
  <2> QED BY <1>1, <1>4, <2>1, <2>2 DEF SendIrpSync
<1>5. CASE minor \notin {"QUERY_STOP", "QUERY_REMOVE", "START"}
  <2>1. Refusals = {TRUE}
    BY <1>5 DEF Refusals
  <2>2. ok = TRUE
    BY <2>1
  <2> QED BY <1>1, <2>2 DEF SendIrpSync
<1> QED BY <1>2, <1>3, <1>4, <1>5

LEMMA SendStep ==
  ASSUME Types, Usual, AtSend, Serve
  PROVE  Types' /\ Control'
<1>1. Head(todo) = <<"sendfirst">>
  BY DEF AtSend, Do
<1>2. Types'
  <2>1. Fits(Head(todo))
    BY <1>1 DEF Fits
  <2> QED BY <2>1, ServeTypes
<1>3. SendIrpSync
  BY <1>1, ServeCall
<1>4. /\ minor' = minor /\ manager' = manager /\ completions' = 0
      /\ DevicePnPState' = DevicePnPState /\ minor \in Minors /\ Sent
      /\ Kept
  BY <1>3, SentDown DEF AtSend, Types, device, Kept
<1>5. CASE status' = "FAILURE"
  <2>1. /\ todo' = ReleaseAndClose
        /\ minor = "QUERY_REMOVE" \/ (minor = "START" /\ (manager = "down" \/ ~Restarts))
    BY <1>3, <1>5, SentDown
  <2>2. Closes(1)'
    BY <1>4, <1>5, <2>1, ShapesKept DEF Closes, Sent
  <2> QED BY <1>2, <2>1, <2>2, ClosingIs, ClosingCalls, FromAll DEF AtRefused, Control
<1>6. CASE status' # "FAILURE"
  <2>1. status' = "SUCCESS" /\ todo' = Handler
    BY <1>3, <1>6, SentDown
  <2>2. CASE minor = "START"
    <3>1. todo' = From(Starting, 1)
      BY <2>1, <2>2, StartingIs, StartingCalls, FromAll DEF Handler
    <3>2. Starts(1)'
      <4>1. (Unstarted \/ Idle)' /\ (minor = "START")' /\ ((manager = "down" /\ Unstarted) \/ (manager = "stopped" /\ Idle))'
        BY <1>4, <2>2, ShapesKept DEF Sent
      <4> QED BY <1>4, <2>1, <4>1 DEF Starts, Unstarted, Idle
    <3> QED BY <1>2, <1>4, <2>2, <3>1, <3>2 DEF AtStart, Control
  <2>3. CASE minor = "QUERY_STOP"
    <3>1. Working /\ Working'
      BY <1>4, <2>3, ShapesKept DEF Sent
    <3>2. todo' = From(QueryingStop, 1)
      BY <2>1, <2>3, <3>1, QueryingStopIs, QueryingStopCalls, FromAll DEF Handler, Working
    <3>3. QueriesStop(1)'
      BY <1>4, <2>1, <3>1 DEF QueriesStop, Queries, Working
    <3> QED BY <1>2, <1>4, <2>3, <3>2, <3>3 DEF AtQueryStop, Control
  <2>4. CASE minor = "QUERY_REMOVE"
    <3>1. Working /\ Working'
      BY <1>4, <2>4, ShapesKept DEF Sent
    <3>2. todo' = From(QueryingRemove, 1)
      BY <2>1, <2>4, <3>1, QueryingRemoveIs, QueryingRemoveCalls, FromAll DEF Handler, Working
    <3>3. QueriesRemove(1)'
      BY <1>4, <2>1, <3>1 DEF QueriesRemove, Queries, Working
    <3> QED BY <1>2, <1>4, <2>4, <3>2, <3>3 DEF AtQueryRemove, Control
  <2>5. CASE minor = "STOP"
    <3>1. Held("StopPending")'
      BY <1>4, <2>5, ShapesKept DEF Sent
    <3>2. todo' = From(Stopping, 1)
      BY <2>1, <2>5, StoppingIs, StoppingCalls, FromAll DEF Handler
    <3>3. Stops(1)'
      BY <1>4, <3>1 DEF Stops, GivesBack, Held, Connected, Dirs
    <3> QED BY <1>2, <1>4, <2>5, <3>2, <3>3 DEF AtStop, Control
  <2>6. CASE minor = "REMOVE"
    <3>1. \/ Unstarted' \/ Held("RemovePending")' \/ (Idle' /\ ~Restarts)
          \/ Closed' /\ (DevicePnPState = "SurpriseRemoved")'
      BY <1>4, <2>6, ShapesKept DEF Sent
    <3>2. todo' = From(Removing, 1)
      BY <2>1, <2>6, RemovingIs, RemovingCalls, FromAll DEF Handler
    <3>3. Removes(1)'
      BY <1>4, <3>1 DEF Removes, GivesBack, Held, Unstarted, Idle, Connected, Fresh, Dirs
    <3> QED BY <1>2, <1>4, <2>6, <3>2, <3>3 DEF AtRemove, Control
  <2>7. CASE minor = "CANCEL_STOP"
    <3>1. Held("StopPending") /\ Held("StopPending")' /\ Unqueued'
      BY <1>4, <2>7, ShapesKept DEF Sent
    <3>2. todo' = From(CancellingStop, 1)
      BY <2>1, <2>7, <3>1, CancellingStopIs, CancellingStopCalls, FromAll DEF Handler, Held
    <3>3. CancelsStop(1)'
      BY <1>4, <3>1 DEF CancelsStop, Held
    <3> QED BY <1>2, <1>4, <2>7, <3>2, <3>3 DEF AtCancelStop, Control
  <2>8. CASE minor = "CANCEL_REMOVE" /\ Held("RemovePending")
    <3>1. Held("RemovePending")'
      BY <1>4, <2>8, ShapesKept
    <3>2. todo' = From(CancellingRemove, 1)
      BY <2>1, <2>8, CancellingRemoveIs, CancellingRemoveCalls, FromAll DEF Handler, Held
    <3>3. CancelsRemove(1)'
      BY <1>4, <3>1 DEF CancelsRemove, Held
    <3> QED BY <1>2, <1>4, <2>8, <3>2, <3>3 DEF AtCancelRemove, Control
  <2>9. CASE minor = "CANCEL_REMOVE" /\ Working
    <3>1. Working'
      BY <1>4, <2>9, ShapesKept
    <3>2. todo' = From(Ignoring, 1)
      <4>1. Handler = PnPCancelRemoveDevice
        BY <2>9 DEF Handler
      <4>2. PnPCancelRemoveDevice = PassDown \o ReleaseAndClose
        BY <2>9 DEF PnPCancelRemoveDevice, Working
      <4> QED BY <2>1, <4>1, <4>2, IgnoringIs, IgnoringCalls, FromAll
    <3>3. Ignores(1)'
      BY <1>4, <3>1 DEF Ignores
    <3> QED BY <1>2, <1>4, <2>9, <3>2, <3>3 DEF AtIgnored, Control
  <2>10. CASE minor = "SURPRISE"
    <3>1. Working' \/ Held("StopPending")' \/ Held("RemovePending")' \/ Idle'
      BY <1>4, <2>10, ShapesKept DEF Sent
    <3>2. todo' = From(Surprising, 1)
      BY <2>1, <2>10, SurprisingIs, SurprisingCalls, FromAll DEF Handler
    <3>3. Vanishes(1)'
      BY <1>4, <3>1 DEF Vanishes, Working, Held, Idle, Present, Dirs
    <3> QED BY <1>2, <1>4, <2>10, <3>2, <3>3 DEF AtSurprise, Control
  <2>11. CASE minor = "OTHER"
    <3>1. Working' /\ manager' = "up"
      BY <1>4, <2>11, ShapesKept DEF Sent
    <3>2. todo' = From(Passing, 1)
      BY <2>1, <2>11, PassingIs, PassingCalls, FromAll DEF Handler, DispatchClose
    <3>3. Passes(1)'
      BY <1>4, <3>1 DEF Passes
    <3> QED BY <1>2, <1>4, <2>11, <3>2, <3>3 DEF AtOther, Control
  <2>12. minor = "CANCEL_REMOVE" => Held("RemovePending") \/ Working
    BY <1>4 DEF Sent
  <2> QED BY <1>4, <2>2, <2>3, <2>4, <2>5, <2>6, <2>7, <2>8, <2>9, <2>10, <2>11, <2>12
          DEF Minors
<1> QED BY <1>5, <1>6

(* The end of the wait for the transfer under way: s is left to do.        *)
Resume(d, s) ==
  /\ todo' = s /\ evStop[d]
  /\ UNCHANGED <<device, held, gate, req, open, minor, status, manager, completions, misuse>>

LEMMA WaitStep ==
  ASSUME Types, NEW P \in Calls, NEW d \in Dirs, NEW k \in 1..Len(P), Serve,
         todo = Waiting(d, P, k)
  PROVE  Types' /\ Resume(d, From(P, k))
<1>1. Head(todo) = <<"wait", d>> /\ Tail(todo) = From(P, k)
  BY WaitingFirst
<1>2. WaitStopEvent
  BY <1>1, ServeCall
<1>3. Fits(Head(todo))
  BY <1>1 DEF Fits
<1> QED BY <1>1, <1>2, <1>3, ServeTypes DEF WaitStopEvent, Arg, Done, Resume, pnpIrp

LEMMA QueryStopWaits ==
  ASSUME Types, Usual, AtQueryStop, Serve
  PROVE  Types' /\ Control'
<1>1. CASE \E k \in 1..12 : todo = From(QueryingStop, k) /\ QueriesStop(k)
  BY <1>1, QueryStopStep DEF AtQueryStop
<1>2. CASE todo = Waiting("read", QueryingStop, 5) /\ QueriesStop(4)
  <2>1. QueryingStop \in Calls /\ 5 \in 1..Len(QueryingStop) /\ "read" \in Dirs
    BY QueryingStopCalls DEF Dirs
  <2>2. Types' /\ Resume("read", From(QueryingStop, 5))
    BY <1>2, <2>1, WaitStep
  <2>3. QueriesStop(5)'
    BY <1>2, <2>2 DEF Resume, QueriesStop, Queries, Present, Connected, Stalls, device, held, gate
  <2> QED BY <2>2, <2>3 DEF Resume, AtQueryStop, Control
<1>3. CASE todo = Waiting("write", QueryingStop, 7) /\ QueriesStop(6)
  <2>1. QueryingStop \in Calls /\ 7 \in 1..Len(QueryingStop) /\ "write" \in Dirs
    BY QueryingStopCalls DEF Dirs
  <2>2. Types' /\ Resume("write", From(QueryingStop, 7))
    BY <1>3, <2>1, WaitStep
  <2>3. QueriesStop(7)'
    BY <1>3, <2>2 DEF Resume, QueriesStop, Queries, Present, Connected, Stalls, device, held, gate
  <2> QED BY <2>2, <2>3 DEF Resume, AtQueryStop, Control
<1> QED BY <1>1, <1>2, <1>3 DEF AtQueryStop

LEMMA QueryRemoveWaits ==
  ASSUME Types, Usual, AtQueryRemove, Serve
  PROVE  Types' /\ Control'
<1>1. CASE \E k \in 1..10 : todo = From(QueryingRemove, k) /\ QueriesRemove(k)
  BY <1>1, QueryRemoveStep DEF AtQueryRemove
<1>2. CASE todo = Waiting("read", QueryingRemove, 5) /\ QueriesRemove(4)
  <2>1. QueryingRemove \in Calls /\ 5 \in 1..Len(QueryingRemove) /\ "read" \in Dirs
    BY QueryingRemoveCalls DEF Dirs
  <2>2. Types' /\ Resume("read", From(QueryingRemove, 5))
    BY <1>2, <2>1, WaitStep
  <2>3. QueriesRemove(5)'
    BY <1>2, <2>2 DEF Resume, QueriesRemove, Queries, Present, Connected, Stalls, device, held, gate
  <2> QED BY <2>2, <2>3 DEF Resume, AtQueryRemove, Control
<1>3. CASE todo = Waiting("write", QueryingRemove, 7) /\ QueriesRemove(6)
  <2>1. QueryingRemove \in Calls /\ 7 \in 1..Len(QueryingRemove) /\ "write" \in Dirs
    BY QueryingRemoveCalls DEF Dirs
  <2>2. Types' /\ Resume("write", From(QueryingRemove, 7))
    BY <1>3, <2>1, WaitStep
  <2>3. QueriesRemove(7)'
    BY <1>3, <2>2 DEF Resume, QueriesRemove, Queries, Present, Connected, Stalls, device, held, gate
  <2> QED BY <2>2, <2>3 DEF Resume, AtQueryRemove, Control
<1> QED BY <1>1, <1>2, <1>3 DEF AtQueryRemove
-----------------------------------------------------------------------------
(* The manager sends a request to a device in the state it assumes.        *)
LEMMA ReceiveStep ==
  ASSUME Types, Usual, Control, ReceivePnp \/ ReceiveFollowUp
  PROVE  Types' /\ Control'
<1>1. PICK m \in NewRequests \cup Surprises \cup FollowUps : DispatchPnP(m)
  BY DEF ReceivePnp, ReceiveFollowUp
<1>2. AtNone
  <2>1. minor = "NONE"
    BY <1>1 DEF DispatchPnP
  <2> QED BY <2>1 DEF Control, AtSend, AtStart, AtQueryStop, AtQueryRemove, AtStop, AtRemove,
                      AtCancelStop, AtCancelRemove, AtIgnored, AtSurprise, AtOther, AtRefused,
                      Closes
<1>3. /\ minor' = m /\ todo' = Do("sendfirst") /\ completions' = 0 /\ status' = "SUCCESS"
      /\ RemoveLock' = RemoveLock + 1 /\ manager' = manager /\ Kept
  BY <1>1 DEF DispatchPnP, Kept
<1>4. m \in Minors
  BY <1>1 DEF NewRequests, Surprises, FollowUps, Minors
<1>5. Types'
  BY <1>3, <1>4 DEF Types, Kept, device, held, gate
<1>6. Sent'
  <2>1. DevicePnPState' = DevicePnPState
    BY <1>3 DEF Kept, device
  <2>2. AtRest
    BY <1>2 DEF AtNone
  <2>3. CASE manager = "down"
    <3>1. m \in {"START", "REMOVE"} /\ Unstarted'
      BY <1>1, <1>3, <2>2, <2>3, ShapesKept DEF NewRequests, Surprises, FollowUps, AtRest
    <3> QED BY <1>3, <2>3, <3>1 DEF Sent
  <2>4. CASE manager = "up"
    <3>1. m \in {"QUERY_STOP", "OTHER", "QUERY_REMOVE", "SURPRISE"} /\ Working'
      BY <1>1, <1>3, <2>2, <2>4, ShapesKept DEF NewRequests, Surprises, FollowUps, AtRest
    <3> QED BY <1>3, <2>4, <3>1 DEF Sent
  <2>5. CASE manager = "stopPending"
    <3>1. m \in {"CANCEL_STOP", "STOP", "SURPRISE"} /\ Held("StopPending")'
      BY <1>1, <1>3, <2>2, <2>5, ShapesKept DEF NewRequests, Surprises, FollowUps, AtRest
    <3>2. m = "CANCEL_STOP" => Unqueued'
      BY <1>1, <1>3, <2>5, ShapesKept DEF NewRequests, Surprises, FollowUps, Unqueued, Usual
    <3> QED BY <1>3, <2>5, <3>1, <3>2 DEF Sent
  <2>6. CASE manager = "removePending"
    <3>1. /\ m \in {"CANCEL_REMOVE", "REMOVE", "SURPRISE"}
          /\ m = "REMOVE" => status = "SUCCESS"
      BY <1>1, <2>6 DEF NewRequests, Surprises, FollowUps
    <3>2. IF status = "SUCCESS" THEN Held("RemovePending") ELSE Working
      BY <2>2, <2>6 DEF AtRest
    <3>3. Held("RemovePending")' = Held("RemovePending") /\ Working' = Working
      BY <1>3, ShapesKept
    <3> QED BY <1>3, <2>6, <3>1, <3>2, <3>3 DEF Sent
  <2>7. CASE manager = "stopped"
    <3>1. m \in {"START", "SURPRISE"} /\ Idle'
      BY <1>1, <1>3, <2>2, <2>7, ShapesKept DEF NewRequests, Surprises, FollowUps, AtRest
    <3> QED BY <1>3, <2>7, <3>1 DEF Sent
  <2>8. CASE manager = "failed"
    <3>1. m = "REMOVE" /\ (Unstarted' \/ (Idle' /\ ~Restarts))
      BY <1>1, <1>3, <2>2, <2>8, ShapesKept DEF NewRequests, Surprises, FollowUps, AtRest
    <3> QED BY <1>3, <2>8, <3>1 DEF Sent
  <2>9. CASE manager = "gone"
    <3>1. m = "REMOVE" /\ ~open
      BY <1>1, <2>9 DEF NewRequests, Surprises, FollowUps
    <3>2. Gone /\ ~interface
      BY <2>2, <2>9 DEF AtRest, Gone
    <3>3. Closed /\ DevicePnPState = "SurpriseRemoved"
      BY <3>1, <3>2 DEF Closed, Gone, Types
    <3>4. Closed' /\ (DevicePnPState = "SurpriseRemoved")'
      BY <1>3, <2>1, <3>3, ShapesKept
    <3> QED BY <1>3, <3>1, <3>4 DEF Sent
  <2>10. CASE manager = "deleted"
    BY <1>1, <2>10 DEF NewRequests, Surprises, FollowUps
  <2> QED BY <2>3, <2>4, <2>5, <2>6, <2>7, <2>8, <2>9, <2>10 DEF Types
<1>7. AtSend'
  BY <1>3, <1>4, <1>6 DEF AtSend, Minors
<1> QED BY <1>5, <1>7 DEF Control

(***************************************************************************)
(* The invariant is one.                                                   *)
(***************************************************************************)
LEMMA PnpInit == Init => PnpInv
<1> SUFFICES ASSUME Init PROVE PnpInv
  OBVIOUS
<1>1. Types
  <2>1. /\ adapter \in [Dirs -> Ownership] /\ stallcount \in [Dirs -> 0..1]
        /\ abortstatus \in [Dirs -> BOOLEAN] /\ evStop \in [Dirs -> BOOLEAN]
        /\ req \in [Dirs -> {"free", "queued", "current"}]
    BY DEF Init, Ownership
  <2>2. \A d \in Dirs : req[d] = "free"
    BY DEF Init
  <2>3. DevicePnPState \in States /\ PreviousPnPState \in States /\ RemoveLock \in Int
    BY DEF Init, States
  <2>4. interface \in BOOLEAN /\ open \in BOOLEAN
    BY DEF Init
  <2>5. /\ InterruptObject \in Ownership /\ minor \in Minors \cup {"NONE"}
        /\ status \in {"SUCCESS", "FAILURE"} /\ manager = "down" /\ completions \in 0..2
        /\ misuse \subseteq {"interrupt", "adapter"}
    BY DEF Init, Ownership
  <2> QED BY <2>1, <2>2, <2>3, <2>4, <2>5 DEF Types
<1>2. Unstarted
  BY DEF Init, Unstarted, Present, Fresh, Stalls, Quiet, Dirs
<1>3. AtNone
  BY <1>2 DEF Init, AtNone, AtRest
<1> QED BY <1>1, <1>3 DEF PnpInv, Control

LEMMA PnpServe ==
  ASSUME Types, Usual, Control, Serve
  PROVE  Types' /\ Control'
<1>1. ~AtNone
  BY ServeCall DEF AtNone
<1>2. CASE AtSend
  BY <1>2, SendStep
<1>3. CASE AtStart
  BY <1>3, StartStep DEF AtStart
<1>4. CASE AtQueryStop
  BY <1>4, QueryStopWaits
<1>5. CASE AtQueryRemove
  BY <1>5, QueryRemoveWaits
<1>6. CASE AtStop
  BY <1>6, StopStep DEF AtStop
<1>7. CASE AtRemove
  BY <1>7, RemoveStep DEF AtRemove
<1>8. CASE AtCancelStop
  BY <1>8, CancelStopStep DEF AtCancelStop
<1>9. CASE AtCancelRemove
  BY <1>9, CancelRemoveStep DEF AtCancelRemove
<1>10. CASE AtIgnored
  BY <1>10, IgnoreStep DEF AtIgnored
<1>11. CASE AtSurprise
  BY <1>11, SurpriseStep DEF AtSurprise
<1>12. CASE AtOther
  BY <1>12, OtherStep DEF AtOther
<1>13. CASE AtRefused
  BY <1>13, RefusedStep DEF AtRefused
<1> QED BY <1>1, <1>2, <1>3, <1>4, <1>5, <1>6, <1>7, <1>8, <1>9, <1>10, <1>11, <1>12, <1>13
        DEF Control

LEMMA PnpNext == Usual => (PnpInv /\ [Next]_vars => PnpInv')
<1> SUFFICES ASSUME Usual, PnpInv, [Next]_vars PROVE PnpInv'
  OBVIOUS
<1>1. Types /\ Control
  BY DEF PnpInv
<1>2. CASE ReceivePnp \/ ReceiveFollowUp
  BY <1>1, <1>2, ReceiveStep DEF PnpInv
<1>3. CASE Serve
  BY <1>1, <1>3, PnpServe DEF PnpInv
<1>4. CASE Application
  BY <1>1, <1>4, TypesStay, PartsStay DEF PnpInv
<1>5. CASE UNCHANGED vars
  <2>1. Types'
    BY <1>1, <1>5 DEF Types, vars, device, held, gate, pnpIrp
  <2>2. Control'
    <3>1. /\ minor' = minor /\ todo' = todo /\ status' = status /\ manager' = manager
          /\ completions' = completions /\ req' = req /\ open' = open /\ misuse' = misuse
          /\ DevicePnPState' = DevicePnPState /\ PreviousPnPState' = PreviousPnPState
          /\ InterruptObject' = InterruptObject /\ adapter' = adapter
          /\ interface' = interface /\ stallcount' = stallcount
          /\ abortstatus' = abortstatus /\ evStop' = evStop
      BY <1>5 DEF vars, device, held, gate, pnpIrp
    <3>2. /\ Working' = Working /\ Idle' = Idle /\ Unstarted' = Unstarted /\ Gone' = Gone
          /\ Closed' = Closed /\ Deleted' = Deleted /\ Present' = Present
          /\ Connected' = Connected /\ Quiet' = Quiet /\ Unqueued' = Unqueued
          /\ Held("StopPending")' = Held("StopPending")
          /\ Held("RemovePending")' = Held("RemovePending")
          /\ \A r, w : Stalls(r, w)' = Stalls(r, w)
      BY <3>1 DEF Working, Idle, Unstarted, Gone, Closed, Deleted, Present, Connected, Quiet,
                  Unqueued, Held, Fresh, Stalls
    <3>3. AtNone' = AtNone /\ AtSend' = AtSend
      BY <3>1, <3>2 DEF AtNone, AtSend, AtRest, Sent
    <3>4. \A k \in 1..14 : /\ Starts(k)' = Starts(k) /\ Stops(k)' = Stops(k)
                          /\ Removes(k)' = Removes(k)
      BY <3>1, <3>2 DEF Starts, Stops, Removes, GivesBack
    <3>5. \A k \in 1..14 : /\ QueriesStop(k)' = QueriesStop(k)
                          /\ QueriesRemove(k)' = QueriesRemove(k)
      BY <3>1, <3>2 DEF QueriesStop, QueriesRemove, Queries
    <3>6. \A k \in 1..14 : /\ CancelsStop(k)' = CancelsStop(k)
                          /\ CancelsRemove(k)' = CancelsRemove(k) /\ Ignores(k)' = Ignores(k)
      BY <3>1, <3>2 DEF CancelsStop, CancelsRemove, Ignores
    <3>7. \A k \in 1..14 : /\ Vanishes(k)' = Vanishes(k) /\ Passes(k)' = Passes(k)
                          /\ Closes(k)' = Closes(k)
      BY <3>1, <3>2 DEF Vanishes, Passes, Closes
    <3>8. /\ AtStart' = AtStart /\ AtStop' = AtStop /\ AtRemove' = AtRemove
          /\ AtQueryStop' = AtQueryStop /\ AtQueryRemove' = AtQueryRemove
      BY <3>1, <3>4, <3>5 DEF AtStart, AtStop, AtRemove, AtQueryStop, AtQueryRemove
    <3>9. /\ AtCancelStop' = AtCancelStop /\ AtCancelRemove' = AtCancelRemove
          /\ AtIgnored' = AtIgnored /\ AtSurprise' = AtSurprise /\ AtOther' = AtOther
          /\ AtRefused' = AtRefused
      BY <3>1, <3>6, <3>7 DEF AtCancelStop, AtCancelRemove, AtIgnored, AtSurprise, AtOther, AtRefused
    <3> QED BY <1>1, <3>3, <3>8, <3>9 DEF Control
  <2> QED BY <2>1, <2>2 DEF PnpInv
<1> QED BY <1>2, <1>3, <1>4, <1>5 DEF Next, Application

LEMMA PnpAlways == Usual /\ Spec => []PnpInv
<1> SUFFICES ASSUME Usual PROVE Spec => []PnpInv
  OBVIOUS
<1> QED BY PnpInit, PnpNext, PTL DEF Spec

-----------------------------------------------------------------------------
(***************************************************************************)
(* What the invariant says of the hardware, the queues and the answers.    *)
(***************************************************************************)
(* HardwareInv and QueueInv, but for what depends on the request under way. *)
QuietWhenPending ==
  DevicePnPState \in {"StopPending", "Stopped", "RemovePending", "Deleted"} => Quiet
Follows == HardwareIsConnected /\ (Restarts => ReleasedOnce) /\ AbortedIsEmpty

LEMMA ShapesFollow ==
  ASSUME Types
  PROVE  /\ Unstarted => Follows /\ QuietWhenPending
         /\ Working => Follows /\ QuietWhenPending
         /\ \A s \in {"StopPending", "RemovePending"} : Held(s) => Follows /\ QuietWhenPending
         /\ Idle => Follows /\ QuietWhenPending
         /\ Gone => Follows /\ QuietWhenPending
         /\ Closed => Follows /\ QuietWhenPending
         /\ Deleted => Follows /\ QuietWhenPending
<1> USE DEF Follows, QuietWhenPending, HardwareIsConnected, ReleasedOnce, AbortedIsEmpty
<1>1. Unstarted => Follows /\ QuietWhenPending
  BY DEF Unstarted, Present, Quiet
<1>2. Working => Follows /\ QuietWhenPending
  BY DEF Working, Present, Connected
<1>3. \A s \in {"StopPending", "RemovePending"} : Held(s) => Follows /\ QuietWhenPending
  BY DEF Held, Present, Quiet
<1>4. Idle => Follows /\ QuietWhenPending
  BY DEF Idle, Present, Quiet
<1>5. Gone => Follows /\ QuietWhenPending
  BY DEF Gone, Dirs
<1>6. Closed => Follows /\ QuietWhenPending
  BY DEF Closed, Quiet, Dirs
<1>7. Deleted => Follows /\ QuietWhenPending
  BY <1>6 DEF Deleted, Present, Quiet
<1> QED BY <1>1, <1>2, <1>3, <1>4, <1>5, <1>6, <1>7

(* Between two requests.                                                   *)
LEMMA SafeAtNone ==
  ASSUME Types, AtNone
  PROVE  Follows /\ PendingIsQuiet /\ StallMatchesState /\ CompletedOnce
<1>1. \/ Unstarted \/ Working \/ Held("StopPending") \/ Held("RemovePending")
      \/ Idle \/ Gone \/ Deleted
  BY DEF AtNone, AtRest, Types
<1>2. Follows /\ QuietWhenPending
  BY <1>1, ShapesFollow
<1>3. \A d \in Dirs : ~abortstatus[d] => stallcount[d] = IF DevicePnPState = "Started" THEN 0 ELSE 1
  BY <1>1 DEF Unstarted, Working, Held, Idle, Gone, Deleted, Closed, Stalls, Dirs
<1> QED BY <1>2, <1>3 DEF AtNone, QuietWhenPending, Quiet, PendingIsQuiet, StallMatchesState,
           CompletedOnce, Call

LEMMA SafeAtSend ==
  ASSUME Types, AtSend
  PROVE  Follows /\ PendingIsQuiet /\ StallMatchesState /\ CompletedOnce
<1>1. \/ Unstarted \/ Working \/ Held("StopPending") \/ Held("RemovePending")
      \/ Idle \/ Closed
  BY DEF AtSend, Sent, Types, Minors
<1>2. Follows /\ QuietWhenPending
  BY <1>1, ShapesFollow
<1>3. Head(todo)[1] = "sendfirst"
  BY DEF AtSend, Do
<1>4. ~Call("return")
  BY <1>3 DEF Call
<1> QED BY <1>2, <1>4 DEF AtSend, QuietWhenPending, Quiet, PendingIsQuiet, StallMatchesState,
           CompletedOnce

(* Within each handler.                                                    *)
LEMMA SafeAtStart ==
  ASSUME Types, NEW k \in 1..10, todo = From(Starting, k), Starts(k), minor = "START"
  PROVE  Follows /\ PendingIsQuiet /\ StallMatchesState /\ CompletedOnce
<1>1. HardwareIsConnected
  BY  DEF Dirs, HardwareIsConnected, Idle, Present, Quiet, Starts, Unstarted
<1>2. (Restarts => ReleasedOnce) /\ AbortedIsEmpty
  BY  DEF AbortedIsEmpty, Dirs, Idle, Present, Quiet, ReleasedOnce, Starts, Unstarted
<1>3. PendingIsQuiet /\ StallMatchesState
  BY  DEF Dirs, Idle, PendingIsQuiet, Present, Quiet, StallMatchesState, Starts, Unstarted
<1>4. Head(todo) = Starting[k]
  BY FromFirst, StartingCalls
<1>5. Head(todo)[1] = "return" => k = 10
  BY <1>4, StartingCalls
<1>6. CompletedOnce
  BY <1>5 DEF CompletedOnce, Call, Starts
<1> QED BY <1>1, <1>2, <1>3, <1>6 DEF Follows

LEMMA SafeAtQueryStop ==
  ASSUME Types, NEW k \in 1..12, todo = From(QueryingStop, k), QueriesStop(k), minor = "QUERY_STOP"
  PROVE  Follows /\ PendingIsQuiet /\ StallMatchesState /\ CompletedOnce
<1>1. HardwareIsConnected
  BY  DEF Connected, Dirs, HardwareIsConnected, Present, Queries, QueriesStop
<1>2. (Restarts => ReleasedOnce) /\ AbortedIsEmpty
  BY  DEF AbortedIsEmpty, Connected, Dirs, Present, Queries, QueriesStop, ReleasedOnce
<1>3. PendingIsQuiet /\ StallMatchesState
  BY  DEF Connected, Dirs, PendingIsQuiet, Present, Queries, QueriesStop, StallMatchesState
<1>4. Head(todo) = QueryingStop[k]
  BY FromFirst, QueryingStopCalls
<1>5. Head(todo)[1] = "return" => k = 12
  BY <1>4, QueryingStopCalls
<1>6. CompletedOnce
  BY <1>5 DEF CompletedOnce, Call, QueriesStop
<1> QED BY <1>1, <1>2, <1>3, <1>6 DEF Follows

LEMMA SafeAtQueryRemove ==
  ASSUME Types, NEW k \in 1..10, todo = From(QueryingRemove, k), QueriesRemove(k), minor = "QUERY_REMOVE"
  PROVE  Follows /\ PendingIsQuiet /\ StallMatchesState /\ CompletedOnce
<1>1. HardwareIsConnected
  BY  DEF Connected, Dirs, HardwareIsConnected, Present, Queries, QueriesRemove
<1>2. (Restarts => ReleasedOnce) /\ AbortedIsEmpty
  BY  DEF AbortedIsEmpty, Connected, Dirs, Present, Queries, QueriesRemove, ReleasedOnce
<1>3. PendingIsQuiet /\ StallMatchesState
  BY  DEF Connected, Dirs, PendingIsQuiet, Present, Queries, QueriesRemove, StallMatchesState
<1>4. Head(todo) = QueryingRemove[k]
  BY FromFirst, QueryingRemoveCalls
<1>5. Head(todo)[1] = "return" => k = 10
  BY <1>4, QueryingRemoveCalls
<1>6. CompletedOnce
  BY <1>5 DEF CompletedOnce, Call, QueriesRemove
<1> QED BY <1>1, <1>2, <1>3, <1>6 DEF Follows

LEMMA SafeAtStop ==
  ASSUME Types, NEW k \in 1..12, todo = From(Stopping, k), Stops(k), minor = "STOP"
  PROVE  Follows /\ PendingIsQuiet /\ StallMatchesState /\ CompletedOnce
<1>1. HardwareIsConnected
  BY  DEF Dirs, GivesBack, HardwareIsConnected, Present, Quiet, Stops
<1>2. (Restarts => ReleasedOnce) /\ AbortedIsEmpty
  BY  DEF AbortedIsEmpty, Dirs, GivesBack, Present, Quiet, ReleasedOnce, Stops
<1>3. PendingIsQuiet /\ StallMatchesState
  BY  DEF Dirs, GivesBack, PendingIsQuiet, Present, Quiet, StallMatchesState, Stops
<1>4. Head(todo) = Stopping[k]
  BY FromFirst, StoppingCalls
<1>5. Head(todo)[1] = "return" => k = 12
  BY <1>4, StoppingCalls
<1>6. CompletedOnce
  BY <1>5 DEF CompletedOnce, Call, Stops
<1> QED BY <1>1, <1>2, <1>3, <1>6 DEF Follows

LEMMA SafeAtRemove ==
  ASSUME Types, NEW k \in 1..13, todo = From(Removing, k), Removes(k), minor = "REMOVE"
  PROVE  Follows /\ PendingIsQuiet /\ StallMatchesState /\ CompletedOnce
<1>1. HardwareIsConnected
  BY  DEF Closed, Dirs, GivesBack, HardwareIsConnected, Present, Quiet, Removes
<1>2. (Restarts => ReleasedOnce) /\ AbortedIsEmpty
  BY  DEF AbortedIsEmpty, Closed, Dirs, GivesBack, Present, Quiet, ReleasedOnce, Removes
<1>3. PendingIsQuiet /\ StallMatchesState
  BY  DEF Closed, Dirs, GivesBack, PendingIsQuiet, Present, Quiet, Removes, StallMatchesState
<1>4. Head(todo) = Removing[k]
  BY FromFirst, RemovingCalls
<1>5. Head(todo)[1] = "return" => k = 13
  BY <1>4, RemovingCalls
<1>6. CompletedOnce
  BY <1>5 DEF CompletedOnce, Call, Removes
<1> QED BY <1>1, <1>2, <1>3, <1>6 DEF Follows

LEMMA SafeAtCancelStop ==
  ASSUME Types, NEW k \in 1..7, todo = From(CancellingStop, k), CancelsStop(k), minor = "CANCEL_STOP"
  PROVE  Follows /\ PendingIsQuiet /\ StallMatchesState /\ CompletedOnce
<1>1. HardwareIsConnected
  BY  DEF CancelsStop, Connected, Dirs, HardwareIsConnected, Present, Quiet
<1>2. (Restarts => ReleasedOnce) /\ AbortedIsEmpty
  BY  DEF AbortedIsEmpty, CancelsStop, Connected, Dirs, Present, Quiet, ReleasedOnce
<1>3. PendingIsQuiet /\ StallMatchesState
  BY  DEF CancelsStop, Connected, Dirs, PendingIsQuiet, Present, Quiet, StallMatchesState
<1>4. Head(todo) = CancellingStop[k]
  BY FromFirst, CancellingStopCalls
<1>5. Head(todo)[1] = "return" => k = 7
  BY <1>4, CancellingStopCalls
<1>6. CompletedOnce
  BY <1>5 DEF CompletedOnce, Call, CancelsStop
<1> QED BY <1>1, <1>2, <1>3, <1>6 DEF Follows

LEMMA SafeAtCancelRemove ==
  ASSUME Types, NEW k \in 1..7, todo = From(CancellingRemove, k), CancelsRemove(k), minor = "CANCEL_REMOVE"
  PROVE  Follows /\ PendingIsQuiet /\ StallMatchesState /\ CompletedOnce
<1>1. HardwareIsConnected
  BY  DEF CancelsRemove, Connected, Dirs, HardwareIsConnected, Present
<1>2. (Restarts => ReleasedOnce) /\ AbortedIsEmpty
  BY  DEF AbortedIsEmpty, CancelsRemove, Connected, Dirs, Present, ReleasedOnce
<1>3. PendingIsQuiet /\ StallMatchesState
  BY  DEF CancelsRemove, Connected, Dirs, PendingIsQuiet, Present, StallMatchesState
<1>4. Head(todo) = CancellingRemove[k]
  BY FromFirst, CancellingRemoveCalls
<1>5. Head(todo)[1] = "return" => k = 7
  BY <1>4, CancellingRemoveCalls
<1>6. CompletedOnce
  BY <1>5 DEF CompletedOnce, Call, CancelsRemove
<1> QED BY <1>1, <1>2, <1>3, <1>6 DEF Follows

LEMMA SafeAtIgnored ==
  ASSUME Types, NEW k \in 1..5, todo = From(Ignoring, k), Ignores(k), minor = "CANCEL_REMOVE"
  PROVE  Follows /\ PendingIsQuiet /\ StallMatchesState /\ CompletedOnce
<1>1. HardwareIsConnected
  BY  DEF Connected, Dirs, HardwareIsConnected, Ignores, Present, Working
<1>2. (Restarts => ReleasedOnce) /\ AbortedIsEmpty
  BY  DEF AbortedIsEmpty, Connected, Dirs, Ignores, Present, ReleasedOnce, Working
<1>3. PendingIsQuiet /\ StallMatchesState
  BY  DEF Connected, Dirs, Ignores, PendingIsQuiet, Present, StallMatchesState, Working
<1>4. Head(todo) = Ignoring[k]
  BY FromFirst, IgnoringCalls
<1>5. Head(todo)[1] = "return" => k = 5
  BY <1>4, IgnoringCalls
<1>6. CompletedOnce
  BY <1>5 DEF CompletedOnce, Call, Ignores
<1> QED BY <1>1, <1>2, <1>3, <1>6 DEF Follows

LEMMA SafeAtSurprise ==
  ASSUME Types, NEW k \in 1..14, todo = From(Surprising, k), Vanishes(k), minor = "SURPRISE"
  PROVE  Follows /\ PendingIsQuiet /\ StallMatchesState /\ CompletedOnce
<1>1. HardwareIsConnected
  BY  DEF Connected, Dirs, HardwareIsConnected, Present, Quiet, Vanishes
<1>2. (Restarts => ReleasedOnce) /\ AbortedIsEmpty
  BY  DEF AbortedIsEmpty, Connected, Dirs, Present, Quiet, ReleasedOnce, Vanishes
<1>3. PendingIsQuiet /\ StallMatchesState
  BY  DEF Connected, Dirs, PendingIsQuiet, Present, Quiet, StallMatchesState, Vanishes
<1>4. Head(todo) = Surprising[k]
  BY FromFirst, SurprisingCalls
<1>5. Head(todo)[1] = "return" => k = 14
  BY <1>4, SurprisingCalls
<1>6. CompletedOnce
  BY <1>5 DEF CompletedOnce, Call, Vanishes
<1> QED BY <1>1, <1>2, <1>3, <1>6 DEF Follows

LEMMA SafeAtOther ==
  ASSUME Types, NEW k \in 1..2, todo = From(Passing, k), Passes(k), minor = "OTHER"
  PROVE  Follows /\ PendingIsQuiet /\ StallMatchesState /\ CompletedOnce
<1>1. HardwareIsConnected
  BY  DEF Connected, Dirs, HardwareIsConnected, Passes, Present, Working
<1>2. (Restarts => ReleasedOnce) /\ AbortedIsEmpty
  BY  DEF AbortedIsEmpty, Connected, Dirs, Passes, Present, ReleasedOnce, Working
<1>3. PendingIsQuiet /\ StallMatchesState
  BY  DEF Connected, Dirs, Passes, PendingIsQuiet, Present, StallMatchesState, Working
<1>4. Head(todo) = Passing[k]
  BY FromFirst, PassingCalls
<1>5. Head(todo)[1] = "return" => k = 2
  BY <1>4, PassingCalls
<1>6. CompletedOnce
  BY <1>5 DEF CompletedOnce, Call, Passes
<1> QED BY <1>1, <1>2, <1>3, <1>6 DEF Follows

LEMMA SafeAtRefused ==
  ASSUME Types, NEW k \in 1..3, todo = From(Closing, k), Closes(k)
  PROVE  Follows /\ PendingIsQuiet /\ StallMatchesState /\ CompletedOnce
<1>1. HardwareIsConnected
  BY  DEF Closes, Connected, Dirs, HardwareIsConnected, Idle, Present, Quiet, Unstarted, Working
<1>2. (Restarts => ReleasedOnce) /\ AbortedIsEmpty
  BY  DEF AbortedIsEmpty, Closes, Connected, Dirs, Idle, Present, Quiet, ReleasedOnce,
     Unstarted, Working
<1>3. PendingIsQuiet /\ StallMatchesState
  BY  DEF Closes, Connected, Dirs, Idle, PendingIsQuiet, Present, Quiet, StallMatchesState,
     Unstarted, Working
<1>4. Head(todo) = Closing[k]
  BY FromFirst, ClosingCalls
<1>5. Head(todo)[1] = "return" => k = 3
  BY <1>4, ClosingCalls
<1>6. CompletedOnce
  BY <1>5 DEF CompletedOnce, Call, Closes
<1> QED BY <1>1, <1>2, <1>3, <1>6 DEF Follows

LEMMA SafeAlways ==
  ASSUME PnpInv
  PROVE  Follows /\ PendingIsQuiet /\ StallMatchesState /\ CompletedOnce
<1>1. Types /\ Control
  BY DEF PnpInv
<1>2. CASE AtNone
  BY <1>1, <1>2, SafeAtNone
<1>3. CASE AtSend
  BY <1>1, <1>3, SafeAtSend
<1>4. CASE AtStart
  BY <1>1, <1>4, SafeAtStart DEF AtStart
<1>5. CASE AtStop
  BY <1>1, <1>5, SafeAtStop DEF AtStop
<1>6. CASE AtRemove
  BY <1>1, <1>6, SafeAtRemove DEF AtRemove
<1>7. CASE AtCancelStop
  BY <1>1, <1>7, SafeAtCancelStop DEF AtCancelStop
<1>8. CASE AtCancelRemove
  BY <1>1, <1>8, SafeAtCancelRemove DEF AtCancelRemove
<1>9. CASE AtIgnored
  BY <1>1, <1>9, SafeAtIgnored DEF AtIgnored
<1>10. CASE AtSurprise
  BY <1>1, <1>10, SafeAtSurprise DEF AtSurprise
<1>11. CASE AtOther
  BY <1>1, <1>11, SafeAtOther DEF AtOther
<1>12. CASE AtRefused
  BY <1>1, <1>12, SafeAtRefused DEF AtRefused
<1>13. CASE AtQueryStop
  <2>1. CASE \E k \in 1..12 : todo = From(QueryingStop, k) /\ QueriesStop(k)
    BY <1>1, <1>13, <2>1, SafeAtQueryStop DEF AtQueryStop
  <2>2. CASE \/ todo = Waiting("read", QueryingStop, 5) /\ QueriesStop(4)
             \/ todo = Waiting("write", QueryingStop, 7) /\ QueriesStop(6)
    <3>1. Head(todo) = <<"wait", "read">> \/ Head(todo) = <<"wait", "write">>
      <4>1. 5 \in 1..Len(QueryingStop) /\ 7 \in 1..Len(QueryingStop)
        BY QueryingStopCalls
      <4> QED BY <2>2, <4>1, QueryingStopCalls, WaitingFirst
    <3>2. Head(todo)[1] # "return"
      BY <3>1
    <3>3. CompletedOnce
      BY <3>2 DEF CompletedOnce, Call
    <3>4. Present /\ Connected /\ DevicePnPState = "Started" /\ minor = "QUERY_STOP"
      BY <1>13, <2>2 DEF AtQueryStop, QueriesStop, Queries
    <3>5. Follows
      BY <3>4 DEF Follows, HardwareIsConnected, ReleasedOnce, AbortedIsEmpty, Present, Connected
    <3> QED BY <3>3, <3>4, <3>5 DEF PendingIsQuiet, StallMatchesState
  <2> QED BY <1>13, <2>1, <2>2 DEF AtQueryStop
<1>14. CASE AtQueryRemove
  <2>1. CASE \E k \in 1..10 : todo = From(QueryingRemove, k) /\ QueriesRemove(k)
    BY <1>1, <1>14, <2>1, SafeAtQueryRemove DEF AtQueryRemove
  <2>2. CASE \/ todo = Waiting("read", QueryingRemove, 5) /\ QueriesRemove(4)
             \/ todo = Waiting("write", QueryingRemove, 7) /\ QueriesRemove(6)
    <3>1. Head(todo) = <<"wait", "read">> \/ Head(todo) = <<"wait", "write">>
      <4>1. 5 \in 1..Len(QueryingRemove) /\ 7 \in 1..Len(QueryingRemove)
        BY QueryingRemoveCalls
      <4> QED BY <2>2, <4>1, QueryingRemoveCalls, WaitingFirst
    <3>2. Head(todo)[1] # "return"
      BY <3>1
    <3>3. CompletedOnce
      BY <3>2 DEF CompletedOnce, Call
    <3>4. Present /\ Connected /\ DevicePnPState = "Started" /\ minor = "QUERY_REMOVE"
      BY <1>14, <2>2 DEF AtQueryRemove, QueriesRemove, Queries
    <3>5. Follows
      BY <3>4 DEF Follows, HardwareIsConnected, ReleasedOnce, AbortedIsEmpty, Present, Connected
    <3> QED BY <3>3, <3>4, <3>5 DEF PendingIsQuiet, StallMatchesState
  <2> QED BY <1>14, <2>1, <2>2 DEF AtQueryRemove
<1> QED BY <1>1, <1>2, <1>3, <1>4, <1>5, <1>6, <1>7, <1>8, <1>9, <1>10, <1>11, <1>12, <1>13,
           <1>14 DEF Control

-----------------------------------------------------------------------------
(***************************************************************************)
(* Theorems.                                                               *)
(***************************************************************************)
(* The device, its queues and the request under way are as the invariant   *)
(* says before every call of a handler.                                    *)
THEOREM HandlersCorrect ==
  ASSUME Usual
  PROVE  Spec => []PnpInv
BY PnpAlways

(* HardwareInv: a transfer under way has its interrupt and its adapter, and *)
(* each is given back once, but for what a surprise has aborted.           *)
THEOREM HardwareCorrect ==
  ASSUME Usual, Restarts
  PROVE  Spec => []HardwareInv
<1>1. PnpInv => HardwareInv
  BY SafeAlways DEF HardwareInv, Follows
<1> QED BY <1>1, PnpAlways, PTL

(* Its first half also when the start after a stop may fail.               *)
THEOREM TransfersConnected ==
  ASSUME Usual
  PROVE  Spec => []HardwareIsConnected
<1>1. PnpInv => HardwareIsConnected
  BY SafeAlways DEF Follows
<1> QED BY <1>1, PnpAlways, PTL

(* QueueInv: stalls and restarts balance, a pending device is quiet, and an *)
(* aborted queue is empty.                                                 *)
THEOREM QueuesCorrect ==
  ASSUME Usual
  PROVE  Spec => []QueueInv
<1>1. PnpInv => TypeOK
  <2> SUFFICES ASSUME PnpInv PROVE TypeOK
    OBVIOUS
  <2>1. stallcount \in [Dirs -> -1..2]
    BY DEF PnpInv, Types
  <2> QED BY <2>1 DEF PnpInv, Types, TypeOK
<1>2. PnpInv => QueueInv
  BY <1>1, SafeAlways DEF QueueInv, Follows
<1> QED BY <1>2, PnpAlways, PTL

(* DispatchClose and the drivers below complete every request before its   *)
(* handler returns, and once unless the handler does both: the safety half *)
(* of PnpCompletes.                                                        *)
THEOREM AnswersOnce ==
  ASSUME Usual
  PROVE  Spec => []CompletedOnce
<1>1. PnpInv => CompletedOnce
  BY SafeAlways
<1> QED BY <1>1, PnpAlways, PTL
=============================================================================
