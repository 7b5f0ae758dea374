----------------------- MODULE BmdEndpointHostProofs -----------------------
(***************************************************************************)
(* What the host sees of the endpoint: the data it owes, the registers it  *)
(* reads, the interrupts and the status.                                   *)
(***************************************************************************)
EXTENDS BmdEndpointProofs

(***************************************************************************)
(* What the host is owed.  The double words of a read request are owed from*)
(* the clock the core takes it, and those of a transfer that has been reset*)
(* are still on their way in the next one: the engine cannot tell them     *)
(* apart, but there is never more of them than one transfer asks for.      *)
(***************************************************************************)

(* What has been asked for since the last reset, and what may be at once:  *)
(* what is owed is at most the rest of the transfer before (0 if nothing of*)
(* it is left) and what this one has asked for.                            *)
MayAsk     == IF tx_state = "MRD_QW1" \/ MrdPending THEN MrdLen ELSE 0
AskedSoFar == MrdLen * Len(mrd_hdrs)
OwedInv ==
  /\ ~init_rst => owed <= (IF stale THEN Total ELSE 0) + AskedSoFar
  /\ accepted = "reset" => owed <= 0 + AskedSoFar
  /\ init_rst => owed + MayAsk <= Total
  /\ asked <= 2

LEMMA OneMoreRequest ==
  ASSUME NEW n \in Nat
  PROVE  /\ MrdLen \in Nat \ {0} /\ MrdCount \in Nat /\ Total \in Nat /\ MrdLen * n \in Nat
         /\ MrdLen * (n + 1) = MrdLen * n + MrdLen
         /\ n < MrdCount => MrdLen * n + MrdLen <= Total
         /\ n <= MrdCount => MrdLen * n <= Total
<1>1. MrdLen \in Nat \ {0} /\ MrdCount \in Nat
  BY SpanAssumption, TransferAssumption
<1>2. \A x, y \in Nat : x * y \in Nat
  OBVIOUS
<1>3. MrdLen * n \in Nat /\ Total \in Nat /\ MrdLen * (n + 1) = MrdLen * n + MrdLen
  BY <1>1, <1>2 DEF Total
<1>4. ASSUME NEW m \in Nat, m <= MrdCount PROVE MrdLen * m <= Total
  <2>1. MrdLen * (MrdCount - m) \in Nat
    BY <1>1, <1>2, <1>4
  <2>2. MrdLen * (MrdCount - m) = Total - MrdLen * m
    BY <1>1, <1>4 DEF Total
  <2>3. MrdLen * m \in Nat
    BY <1>1, <1>2, <1>4
  <2> QED BY <1>3, <2>1, <2>2, <2>3
<1>5. n < MrdCount => MrdLen * (n + 1) <= Total
  <2>1. n + 1 \in Nat /\ (n < MrdCount => n + 1 <= MrdCount)
    BY <1>1
  <2> QED BY <1>4, <2>1
<1> QED BY <1>1, <1>3, <1>4, <1>5

(* The host pays what it sends and owes what a request asks for.           *)
LEMMA OwedPays ==
  ASSUME RxClock, owed \in Nat
  PROVE  owed' \in Nat /\ owed' <= owed + (IF Requested THEN MrdLen ELSE 0)
<1>0. MrdLen \in Nat
  BY SpanAssumption, TransferAssumption
<1>1. ASSUME NEW n \in Nat, n <= owed, Pay(n) \/ Refuse(n)
      PROVE  owed' \in Nat /\ owed' <= owed + (IF Requested THEN MrdLen ELSE 0)
  <2>1. \A m \in Nat : owed - n + m \in Nat /\ owed - n + m <= owed + m
    BY <1>1
  <2>2. owed' = owed - n + (IF Requested THEN MrdLen ELSE 0)
    BY <1>1 DEF Pay, Refuse, Settle
  <2>3. (IF Requested THEN MrdLen ELSE 0) \in Nat
    BY <1>0
  <2> QED BY <2>1, <2>2, <2>3
<1>2. Pay(0) => owed' \in Nat /\ owed' <= owed + (IF Requested THEN MrdLen ELSE 0)
  BY <1>1
<1>3. CASE RxIdle BY <1>2, <1>3 DEF RxIdle, Same
<1>4. CASE RxRead BY <1>2, <1>4 DEF RxRead
<1>5. CASE RxWrite BY <1>2, <1>5 DEF RxWrite, Same
<1>6. CASE RxReadAddress BY <1>2, <1>6 DEF RxReadAddress, Same
<1>7. CASE RxReadWait BY <1>2, <1>7 DEF RxReadWait, Same
<1>8. CASE RxWriteWait BY <1>2, <1>8 DEF RxWriteWait, Same
<1>9. CASE RxWriteData BY <1>2, <1>9 DEF RxWriteData, Same
<1>10. CASE RxCpldFirst BY <1>2, <1>10 DEF RxCpldFirst, Beat, Same
<1>11. CASE RxCpldNext BY <1>2, <1>11 DEF RxCpldNext, Beat, Same
<1>12. CASE RxGap BY <1>2, <1>12 DEF RxGap, Same
<1>13. ASSUME NEW n \in 1..MrdLen, n <= owed, RxCpld(n) \/ RxCpl(n)
       PROVE  owed' \in Nat /\ owed' <= owed + (IF Requested THEN MrdLen ELSE 0)
  <2>1. n \in Nat
    BY <1>0
  <2>2. Pay(n) \/ Refuse(n)
    BY <1>13 DEF RxCpld, RxCpl
  <2> QED BY <1>1, <1>13, <2>1, <2>2
<1>14. CASE RxCplEnd BY <1>2, <1>14 DEF RxCplEnd, Same
<1> QED BY <1>3, <1>4, <1>5, <1>6, <1>7, <1>8, <1>9, <1>10, <1>11, <1>12, <1>13, <1>14 DEF RxClock

(* Outside of a reset pulse a request is recorded when it is taken.        *)
LEMMA RequestIsRecorded ==
  ASSUME CountersOK, init_rst = FALSE, NEW rdy, TxBranch(rdy, FALSE, TRUE)
  PROVE  Len(mrd_hdrs') = Len(mrd_hdrs) + (IF Requested THEN 1 ELSE 0)
<1> USE DEF Kept, KeepHdrs, KeepTrace, Requested
<1>0. Len(mrd_hdrs) \in Nat
  BY DEF CountersOK
<1>1. ASSUME mrd_hdrs' = mrd_hdrs, ~Requested
      PROVE  Len(mrd_hdrs') = Len(mrd_hdrs) + (IF Requested THEN 1 ELSE 0)
  BY <1>0, <1>1
<1>2. CASE IssueCompletion(rdy, FALSE) BY <1>1, <1>2 DEF IssueCompletion
<1>3. CASE IssueWrite(rdy, FALSE, TRUE) BY <1>1, <1>3 DEF IssueWrite
<1>4. CASE IssueRead(rdy, FALSE, TRUE) BY <1>1, <1>4 DEF IssueRead
<1>5. CASE Idle(rdy, FALSE, TRUE) BY <1>1, <1>5 DEF Idle
<1>6. CASE SendCompletion(rdy, FALSE) BY <1>1, <1>6 DEF SendCompletion
<1>7. CASE LeaveCompletion(rdy, FALSE) BY <1>1, <1>7 DEF LeaveCompletion
<1>8. CASE SendWriteHeader(rdy, FALSE) BY <1>1, <1>8 DEF SendWriteHeader
<1>9. CASE SendWrite64Header(rdy, FALSE) BY <1>1, <1>9 DEF SendWrite64Header
<1>10. CASE SendWritePayload(rdy, FALSE) BY <1>1, <1>10 DEF SendWritePayload
<1>11. CASE SendReadRequest(rdy, FALSE)
  <2>1. Requested
    BY <1>11 DEF SendReadRequest
  <2>2. Len(mrd_hdrs') = Len(mrd_hdrs) + 1
    BY <1>11, MrdRecorded DEF SendReadRequest
  <2> QED BY <2>1, <2>2
<1>12. ~AbortDma(FALSE)
  BY DEF AbortDma
<1>13. CASE Stall(rdy, FALSE) BY <1>1, <1>13 DEF Stall
<1> QED BY <1>2, <1>3, <1>4, <1>5, <1>6, <1>7, <1>8, <1>9, <1>10, <1>11, <1>12, <1>13 DEF TxBranch

(* So a bound on what is owed moves with the requests.                     *)
LEMMA OwedFollows ==
  ASSUME CountersOK, owed \in Nat, init_rst = FALSE, RxClock, NEW rdy, TxBranch(rdy, FALSE, TRUE),
         NEW base \in Nat, owed <= base + AskedSoFar
  PROVE  owed' \in Nat /\ owed' <= base + AskedSoFar'
<1>1. /\ owed' \in Nat /\ owed' <= owed + (IF Requested THEN MrdLen ELSE 0)
      /\ Len(mrd_hdrs') = Len(mrd_hdrs) + (IF Requested THEN 1 ELSE 0)
      /\ Len(mrd_hdrs) \in Nat
  <2>1. owed' \in Nat /\ owed' <= owed + (IF Requested THEN MrdLen ELSE 0)
    BY OwedPays
  <2>2. Len(mrd_hdrs') = Len(mrd_hdrs) + (IF Requested THEN 1 ELSE 0)
    BY RequestIsRecorded
  <2>3. Len(mrd_hdrs) \in Nat
    BY DEF CountersOK
  <2> QED BY <2>1, <2>2, <2>3
<1> DEFINE n == Len(mrd_hdrs)
<1>2. /\ MrdLen \in Nat /\ MrdLen * n \in Nat
      /\ MrdLen * (n + 1) = MrdLen * n + MrdLen
  BY <1>1, OneMoreRequest
<1>3. \A a, o, p, m \in Int : p <= o + m /\ o <= base + a => p <= base + (a + m)
  OBVIOUS
<1>4. AskedSoFar = MrdLen * n
  BY DEF AskedSoFar
<1>5. CASE Requested
  <2>1. owed' <= owed + MrdLen /\ AskedSoFar' = MrdLen * n + MrdLen
    BY <1>1, <1>2, <1>5 DEF AskedSoFar
  <2> QED BY <1>1, <1>2, <1>3, <1>4, <2>1
<1>6. CASE ~Requested
  <2>1. owed' <= owed + 0 /\ AskedSoFar' = MrdLen * n + 0
    <3>1. Len(mrd_hdrs') = n
      BY <1>1, <1>6
    <3>2. AskedSoFar' = MrdLen * n
      BY <3>1 DEF AskedSoFar
    <3> QED BY <1>1, <1>2, <1>6, <3>2
  <2> QED BY <1>1, <1>2, <1>3, <1>4, <2>1
<1> QED BY <1>5, <1>6

LEMMA OwedOutside ==
  ASSUME EndpointCore, CountersInv, OwedInv, init_rst = FALSE,
         NEW rdy \in BOOLEAN, NEW ready \in BOOLEAN, EpClock(rdy, ready), EndpointCore'
  PROVE  /\ ~init_rst' => owed' <= (IF stale' THEN Total ELSE 0) + AskedSoFar'
         /\ accepted' = "reset" => owed' <= 0 + AskedSoFar'
         /\ init_rst' => owed' + MayAsk' <= Total
<1>1. /\ RxClock /\ TxBranch(rdy, FALSE, TRUE) /\ CountersOK /\ owed \in Nat /\ Total \in Nat
      /\ stale \in BOOLEAN /\ init_rst' \in BOOLEAN /\ ReadsAgree
      /\ AskedSoFar \in Nat /\ AskedSoFar' \in Nat
  <2>1. AskedSoFar \in Nat /\ AskedSoFar' \in Nat /\ Total \in Nat
    <3>0. mrd_hdrs \in Seq(Nat) /\ mrd_hdrs' \in Seq(Nat)
      BY DEF EndpointCore, PartsOK, TypeOK, CountersOK
    <3>1. Len(mrd_hdrs) \in Nat /\ Len(mrd_hdrs') \in Nat
      BY <3>0
    <3>2. AskedSoFar = MrdLen * Len(mrd_hdrs) /\ AskedSoFar' = MrdLen * Len(mrd_hdrs')
      BY DEF AskedSoFar
    <3> QED BY <3>1, <3>2, OneMoreRequest
  <2>2. ReadsAgree
    BY DEF CountersInv, ReadCounters, ReadsAgree
  <2>3. owed \in Nat /\ stale \in BOOLEAN /\ init_rst' \in BOOLEAN /\ CountersOK
    BY DEF EndpointCore, PartsOK, SizeTypeOK, HostTypeOK, TypeOK, FlagsOK
  <2> QED BY <2>1, <2>2, <2>3 DEF EpClock, TxClock
<1>2. ~init_rst' => owed' <= (IF stale' THEN Total ELSE 0) + AskedSoFar'
  <2>1. stale' = stale /\ (IF stale THEN Total ELSE 0) \in Nat
    BY <1>1 DEF EpClock
  <2>2. owed <= (IF stale THEN Total ELSE 0) + AskedSoFar
    BY DEF OwedInv
  <2> QED BY <1>1, <2>1, <2>2, OwedFollows
<1>3. ASSUME accepted = "reset" \/ "reset" \in HostWrites PROVE owed' <= 0 + AskedSoFar'
  <2>1. CASE accepted = "reset"
    <3>1. owed <= 0 + AskedSoFar
      BY <2>1 DEF OwedInv
    <3> QED BY <1>1, <3>1, OwedFollows
  <2>2. CASE "reset" \in HostWrites
    <3>1. ~(stale /\ owed > 0)
      BY <2>2 DEF HostWrites, HostResets, HostStarts, HostClears
    <3>2. owed <= 0 + AskedSoFar
      <4>1. CASE stale
        BY <1>1, <3>1, <4>1
      <4>2. CASE ~stale
        BY <4>2 DEF OwedInv
      <4> QED BY <4>1, <4>2
    <3> QED BY <1>1, <3>2, OwedFollows
  <2> QED BY <1>3, <2>1, <2>2
<1>4. ASSUME accepted' = "reset" PROVE owed' <= 0 + AskedSoFar'
  <2>1. accepted = "reset" \/ "reset" \in HostWrites
    BY <1>1, <1>4, ResetAccepted DEF EndpointCore, PartsOK, TypeOK, FlagsOK, RxTypeOK
  <2> QED BY <1>3, <2>1
<1>5. ASSUME init_rst'
      PROVE  owed' + MayAsk' <= Total
  <2>1. mem_write_en = TRUE /\ mem_wr_data = "reset"
    BY <1>5 DEF EpClock, RegisterClock, EndpointCore, PartsOK, MemTypeOK
  <2>2. accepted = "reset"
    BY <2>1, Landing DEF EndpointCore, PartsOK
  <2>3. owed' <= 0 + AskedSoFar' /\ owed' \in Nat
    BY <1>1, <1>3, <2>2, OwedPays
  <2>4. ReadsAgree'
    BY <1>1, ReadsAgreeClock
  <2>5. Len(mrd_hdrs') \in Nat /\ AskedSoFar' = MrdLen * Len(mrd_hdrs')
    BY DEF EndpointCore, PartsOK, TypeOK, CountersOK, AskedSoFar
  <2>6. /\ Len(mrd_hdrs') < MrdCount => AskedSoFar' + MrdLen <= Total
        /\ Len(mrd_hdrs') = MrdCount => AskedSoFar' <= Total
        /\ MrdLen \in Nat
    <3>1. \A n \in Nat : /\ n < MrdCount => MrdLen * n + MrdLen <= Total
                         /\ n = MrdCount => MrdLen * n <= Total
      BY OneMoreRequest, SpanAssumption, TransferAssumption
    <3>2. /\ Len(mrd_hdrs') < MrdCount => MrdLen * Len(mrd_hdrs') + MrdLen <= Total
          /\ Len(mrd_hdrs') = MrdCount => MrdLen * Len(mrd_hdrs') <= Total
      BY <2>5, <3>1
    <3>3. MrdLen \in Nat
      BY SpanAssumption, TransferAssumption
    <3> QED BY <2>5, <3>2, <3>3
  <2>7. CASE mrd_done'
    <3>1. Len(mrd_hdrs') = MrdCount /\ tx_state' # "MRD_QW1" /\ ~MrdPending'
      BY <2>4, <2>7 DEF ReadsAgree, MrdPending
    <3>2. \A o, a, m \in Int : o <= 0 + a /\ a <= Total /\ m = 0 => o + m <= Total
      BY <1>1
    <3>3. MayAsk' = 0
      BY <3>1 DEF MayAsk
    <3>4. AskedSoFar' <= Total
      BY <2>6, <3>1
    <3>5. owed' \in Int /\ AskedSoFar' \in Int /\ MayAsk' \in Int
      BY <1>1, <2>3, <3>3
    <3>6. owed' <= 0 + AskedSoFar'
      BY <2>3
    <3> QED BY <3>2, <3>3, <3>4, <3>5, <3>6
  <2>8. CASE ~mrd_done'
    <3>1. Len(mrd_hdrs') < MrdCount
      BY <2>4, <2>8 DEF ReadsAgree
    <3>2. \A o, a, m \in Int : o <= 0 + a /\ a + MrdLen <= Total /\ m \in {0, MrdLen} => o + m <= Total
      BY <1>1, <2>6
    <3>3. MayAsk' \in {0, MrdLen}
      BY DEF MayAsk
    <3>4. AskedSoFar' + MrdLen <= Total /\ MrdLen \in Int
      BY <2>6, <3>1
    <3>5. owed' \in Int /\ AskedSoFar' \in Int /\ MayAsk' \in Int
      BY <1>1, <2>3, <3>3, <3>4
    <3>6. owed' <= 0 + AskedSoFar'
      BY <2>3
    <3> QED BY <3>2, <3>3, <3>4, <3>5, <3>6
  <2> QED BY <2>7, <2>8
<1> QED BY <1>2, <1>4, <1>5

LEMMA OwedInPulse ==
  ASSUME EndpointCore, OwedInv, init_rst = TRUE,
         NEW rdy \in BOOLEAN, NEW ready \in BOOLEAN, EpClock(rdy, ready), EndpointCore'
  PROVE  /\ ~init_rst' => owed' <= (IF stale' THEN Total ELSE 0) + AskedSoFar'
         /\ accepted' # "reset"
         /\ init_rst' => owed' + MayAsk' <= Total
<1>1. /\ RxClock /\ TxBranch(rdy, FALSE, TRUE) /\ owed \in Nat /\ Total \in Nat /\ MrdLen \in Nat
      /\ init_rst' \in BOOLEAN /\ owed' \in Nat
      /\ owed' <= owed + (IF Requested THEN MrdLen ELSE 0)
  <2>1. Total \in Nat /\ MrdLen \in Nat
    BY OneMoreRequest, 0 \in Nat
  <2>2. RxClock /\ TxBranch(rdy, FALSE, TRUE) /\ owed \in Nat /\ init_rst' \in BOOLEAN
    BY DEF EpClock, TxClock, EndpointCore, PartsOK, SizeTypeOK, TypeOK, FlagsOK
  <2> QED BY <2>1, <2>2, OwedPays
<1>2. owed + MayAsk <= Total
  BY DEF OwedInv
<1>3. \A o, p, m, k \in Int : p <= o + m /\ o + k <= Total /\ m <= k => p <= Total /\ p <= 0 + Total
  BY <1>1
<1>4. owed' <= Total
  <2>1. (IF Requested THEN MrdLen ELSE 0) <= MayAsk
    BY <1>1 DEF Requested, MayAsk
  <2>2. MayAsk \in Nat /\ (IF Requested THEN MrdLen ELSE 0) \in Nat
    BY <1>1 DEF MayAsk
  <2> QED BY <1>1, <1>2, <1>3, <2>1, <2>2
<1>5. ASSUME ~init_rst' PROVE owed' <= (IF stale' THEN Total ELSE 0) + AskedSoFar'
  <2>1. AskedSoFar' = 0
    <3>1. mrd_hdrs' = <<>>
      BY <1>1, ResetForgets
    <3>2. MrdLen * 0 = 0
      BY <1>1
    <3> QED BY <3>1, <3>2 DEF AskedSoFar
  <2>2. stale' = (owed' > 0)
    BY DEF EpClock
  <2>3. \A o, t \in Int : o <= Total /\ t = (IF o > 0 THEN Total ELSE 0) => o <= t + 0
    BY <1>1
  <2>4. (IF stale' THEN Total ELSE 0) = (IF owed' > 0 THEN Total ELSE 0)
    BY <2>2
  <2> QED BY <1>1, <1>4, <2>1, <2>3, <2>4
<1>6. accepted' # "reset"
  BY <1>1, ResetAccepted DEF EndpointCore, PartsOK, TypeOK, FlagsOK, RxTypeOK
<1>7. ASSUME init_rst'
      PROVE  owed' + MayAsk' <= Total
  <2>1. ~MrdPending'
    <3>1. RegisterFile
      BY RegistersConform DEF EndpointCore
    <3>2. mrd_start' = FALSE
      BY <1>7, <3>1 DEF RegisterFile, StartDma, BeginReset, HoldReset, EndReset, NoAccess
    <3> QED BY <3>2 DEF MrdPending
  <2>2. CASE tx_state' = "MRD_QW1"
    <3>1. ~Requested
      BY <2>2 DEF Requested
    <3>2. IssueRead(rdy, FALSE, TRUE) \/ Stall(rdy, FALSE)
      BY <1>1, <2>2 DEF TxBranch, IssueCompletion, IssueWrite, Idle, SendCompletion,
         LeaveCompletion, SendWriteHeader, SendWrite64Header, SendWritePayload, SendReadRequest,
         AbortDma
    <3>3. tx_state = "MRD_QW1" \/ MrdPending
      BY <2>2, <3>2 DEF IssueRead, CanRead, Stall
    <3>4. owed + MrdLen <= Total /\ owed' <= owed
      BY <1>1, <1>2, <3>1, <3>3 DEF MayAsk
    <3>5. \A o, p, m \in Int : o + m <= Total /\ p <= o => p + m <= Total
      BY <1>1
    <3>6. MayAsk' = MrdLen
      BY <2>2 DEF MayAsk
    <3>7. owed \in Int /\ owed' \in Int /\ MayAsk' \in Int /\ owed + MayAsk' <= Total
      BY <1>1, <3>4, <3>6
    <3> QED BY <3>4, <3>5, <3>7
  <2>3. CASE tx_state' # "MRD_QW1"
    <3>1. \A p, m \in Int : p <= Total /\ m = 0 => p + m <= Total
      BY <1>1
    <3>2. MayAsk' = 0
      BY <2>1, <2>3 DEF MayAsk
    <3>3. owed' \in Int /\ MayAsk' \in Int
      BY <1>1, <3>2
    <3> QED BY <1>4, <3>1, <3>2, <3>3
  <2> QED BY <2>2, <2>3
<1> QED BY <1>5, <1>6, <1>7

(* Two register reads are on their way at most.                            *)
LEMMA AskedClock ==
  ASSUME RxClock, asked \in Nat, asked <= 2 PROVE asked' \in Nat /\ asked' <= 2
<1>1. Ask(0) => asked' \in Nat /\ asked' <= 2
  BY DEF Ask
<1>2. asked < 2 /\ Ask(1) => asked' \in Nat /\ asked' <= 2
  BY DEF Ask
<1>3. CASE RxIdle BY <1>1, <1>3 DEF RxIdle, Same
<1>4. CASE RxRead
  <2>1. asked < 2
    BY <1>4 DEF RxRead, CanAsk
  <2> QED BY <1>2, <1>4, <2>1 DEF RxRead
<1>5. CASE RxWrite BY <1>1, <1>5 DEF RxWrite, Same
<1>6. CASE RxReadAddress BY <1>1, <1>6 DEF RxReadAddress, Same
<1>7. CASE RxReadWait BY <1>1, <1>7 DEF RxReadWait, Same
<1>8. CASE RxWriteWait BY <1>1, <1>8 DEF RxWriteWait, Same
<1>9. CASE RxWriteData BY <1>1, <1>9 DEF RxWriteData, Same
<1>10. CASE RxCpldFirst BY <1>1, <1>10 DEF RxCpldFirst, Beat, Same
<1>11. CASE RxCpldNext BY <1>1, <1>11 DEF RxCpldNext, Beat, Same
<1>12. CASE RxGap BY <1>1, <1>12 DEF RxGap, Same
<1>13. ASSUME NEW n \in 1..MrdLen, RxCpld(n) \/ RxCpl(n) PROVE asked' \in Nat /\ asked' <= 2
  BY <1>1, <1>13 DEF RxCpld, RxCpl
<1>14. CASE RxCplEnd BY <1>1, <1>14 DEF RxCplEnd, Same
<1> QED BY <1>3, <1>4, <1>5, <1>6, <1>7, <1>8, <1>9, <1>10, <1>11, <1>12, <1>13, <1>14 DEF RxClock

(***************************************************************************)
(* The completion on the bus and the two sizes the engine keeps of it.     *)
(* Outside of a reset pulse they agree: a pulse neither begins nor ends    *)
(* within a completion, since the write that does so is waited for.        *)
(***************************************************************************)
CplInv ==
  /\ malformed => init_rst
  /\ ~init_rst /\ rx_state = "CPLD_QW1" => cpld_real_size = 0 /\ cpld_tlp_size = togo % CplSpan
  /\ ~init_rst /\ rx_state = "CPLD_QWN" => cpld_tlp_size = (cpld_real_size + togo) % CplSpan

LEMMA ModAbsorbs ==
  ASSUME NEW C \in Nat \ {0}, NEW a \in Nat, NEW b \in Nat
  PROVE  ((a % C) + b) % C = (a + b) % C
<1>1. \A q \in Int, x \in 0..(C - 1) : (q * C + x) % C = x
  OBVIOUS
<1>2. PICK p \in Int : a = p * C + (a % C)
  BY a = (a \div C) * C + (a % C), a \div C \in Int
<1> DEFINE y == (a % C) + b
<1>3. y \in Nat
  OBVIOUS
<1>4. PICK q \in Int : y = q * C + (y % C)
  BY <1>3, y = (y \div C) * C + (y % C), y \div C \in Int
<1>5. y % C \in 0..(C - 1)
  BY <1>3
<1>6. a + b = (p + q) * C + (y % C)
  <2>1. a + b = p * C + y
    BY <1>2
  <2>2. (p + q) * C = p * C + q * C
    OBVIOUS
  <2> HIDE DEF y
  <2> QED BY <1>3, <1>4, <1>5, <2>1, <2>2
<1>7. p + q \in Int
  OBVIOUS
<1> HIDE DEF y
<1>8. ((p + q) * C + (y % C)) % C = y % C
  BY <1>1, <1>5, <1>7
<1> QED BY <1>6, <1>8 DEF y

(* A clock outside of a pulse: the sizes move with the beats of the bus.   *)
LEMMA CplClock ==
  ASSUME RxClock, SizeTypeOK, RxTypeOK, CplInv, init_rst = FALSE
  PROVE  /\ malformed' = FALSE
         /\ rx_state' = "CPLD_QW1" => cpld_real_size' = 0 /\ cpld_tlp_size' = togo' % CplSpan
         /\ rx_state' = "CPLD_QWN" => cpld_tlp_size' = (cpld_real_size' + togo') % CplSpan
<1> DEFINE Agree == /\ malformed' = FALSE
                    /\ rx_state' = "CPLD_QW1" => cpld_real_size' = 0 /\ cpld_tlp_size' = togo' % CplSpan
                    /\ rx_state' = "CPLD_QWN" => cpld_tlp_size' = (cpld_real_size' + togo') % CplSpan
<1>0. /\ malformed = FALSE /\ CplSpan \in Nat /\ CplSpan > 1
      /\ cpld_real_size \in Nat /\ cpld_tlp_size \in Nat /\ togo \in Nat
      /\ rx_state \in {"CPLD_QW1", "CPLD_QWN"} => togo # 0
  BY EpSpanAssumption, SpanAssumption, TransferAssumption DEF CplInv, RxTypeOK, SizeTypeOK
<1> SUFFICES Agree
  OBVIOUS
<1> USE DEF NoCpld, KeepReal, KeepSize, Kept
<1>1. ASSUME malformed' = FALSE, rx_state' \notin {"CPLD_QW1", "CPLD_QWN"} PROVE Agree
  BY <1>1
<1>2. CASE RxCpldFirst
  <2>1. rx_state = "CPLD_QW1" /\ Beat(1)
    BY <1>2 DEF RxCpldFirst
  <2>2. cpld_real_size = 0 /\ cpld_tlp_size = togo % CplSpan
    BY <2>1 DEF CplInv
  <2>3. togo' = togo - 1 /\ cpld_tlp_size' = cpld_tlp_size
    BY <2>1 DEF Beat
  <2>4. 1 % CplSpan = 1
    BY <1>0
  <2>5. cpld_real_size' = 1
    BY <1>2, <2>2, <2>4 DEF RxCpldFirst
  <2>6. malformed' = FALSE
    BY <1>0, <1>2, <2>2, <2>4 DEF RxCpldFirst
  <2>7. cpld_tlp_size' = (cpld_real_size' + togo') % CplSpan
    <3>1. 1 + (togo - 1) = togo
      BY <1>0
    <3> QED BY <2>2, <2>3, <2>5, <3>1
  <2>8. rx_state' \in {"RST", "CPLD_QWN"}
    BY <1>2 DEF RxCpldFirst
  <2> QED BY <2>6, <2>7, <2>8
<1>3. CASE RxCpldNext
  <2>1. PICK n \in {1, 2} :
          /\ n = (IF togo = 1 THEN 1 ELSE 2) /\ Beat(n)
          /\ cpld_real_size' = (cpld_real_size + n) % CplSpan
          /\ rx_state' = (IF togo \in {1, 2} THEN "RST" ELSE "CPLD_QWN")
          /\ malformed' = (IF togo \in {1, 2} /\ ~Whole(n) THEN TRUE ELSE Kept(malformed, FALSE))
    BY <1>3 DEF RxCpldNext
  <2>2. cpld_tlp_size = (cpld_real_size + togo) % CplSpan
    BY <1>3 DEF RxCpldNext, CplInv
  <2>3. togo' = togo - n /\ cpld_tlp_size' = cpld_tlp_size /\ n <= togo
    BY <1>0, <1>3, <2>1 DEF RxCpldNext, Beat
  <2>4. togo \in {1, 2} => Whole(n)
    BY <2>1, <2>2 DEF Whole
  <2>5. malformed' = FALSE
    BY <1>0, <2>1, <2>4
  <2>6. cpld_tlp_size' = (cpld_real_size' + togo') % CplSpan
    <3>1. (cpld_real_size + n) \in Nat /\ togo - n \in Nat /\ CplSpan \in Nat \ {0}
          /\ (cpld_real_size + n) + (togo - n) = cpld_real_size + togo
      BY <1>0, <2>1, <2>3
    <3>2. (((cpld_real_size + n) % CplSpan) + (togo - n)) % CplSpan
            = ((cpld_real_size + n) + (togo - n)) % CplSpan
      BY <3>1, ModAbsorbs
    <3> QED BY <2>1, <2>2, <2>3, <3>1, <3>2
  <2>7. rx_state' \in {"RST", "CPLD_QWN"}
    BY <2>1
  <2> QED BY <2>5, <2>6, <2>7
<1>4. CASE RxIdle BY <1>0, <1>1, <1>4 DEF RxIdle
<1>5. CASE RxRead BY <1>0, <1>1, <1>5 DEF RxRead
<1>6. CASE RxWrite BY <1>0, <1>1, <1>6 DEF RxWrite
<1>7. CASE RxReadAddress BY <1>0, <1>1, <1>7 DEF RxReadAddress
<1>8. CASE RxReadWait BY <1>0, <1>1, <1>8 DEF RxReadWait
<1>9. CASE RxWriteWait BY <1>0, <1>1, <1>9 DEF RxWriteWait
<1>10. CASE RxWriteData BY <1>0, <1>1, <1>10 DEF RxWriteData
<1>11. CASE RxCplEnd BY <1>0, <1>1, <1>11 DEF RxCplEnd
<1>12. CASE RxGap BY <1>0, <1>12 DEF RxGap, CplInv
<1>13. ASSUME NEW n \in 1..MrdLen, RxCpld(n) PROVE Agree
  BY <1>0, <1>13 DEF RxCpld
<1>14. ASSUME NEW n \in 1..MrdLen, RxCpl(n) PROVE Agree
  BY <1>0, <1>1, <1>14 DEF RxCpl
<1> QED BY <1>2, <1>3, <1>4, <1>5, <1>6, <1>7, <1>8, <1>9, <1>10, <1>11, <1>12, <1>13, <1>14
        DEF RxClock

LEMMA CplInvClock ==
  ASSUME PartsOK, Pipe, CplInv, PartsOK', NEW rdy, NEW ready, EpClock(rdy, ready)
  PROVE  CplInv'
<1>1. RxClock /\ init_rst \in BOOLEAN /\ init_rst' \in BOOLEAN /\ malformed' \in BOOLEAN
  BY DEF EpClock, PartsOK, RxTypeOK, TypeOK, FlagsOK
<1>2. CASE init_rst = FALSE
  BY <1>1, <1>2, CplClock DEF PartsOK, CplInv
<1>3. CASE init_rst = TRUE /\ init_rst' = FALSE
  <2>1. mem_write_en = TRUE
    BY <1>3 DEF EpClock, RegisterClock, PartsOK, MemTypeOK
  <2>2. RxWriteWait /\ rx_state' = "RST"
    BY <2>1, LandingWaits, Landing DEF PartsOK
  <2>3. malformed' = FALSE
    BY <1>3, <2>2 DEF RxWriteWait, NoCpld, KeepReal, Kept
  <2> QED BY <2>2, <2>3 DEF CplInv
<1>4. CASE init_rst' = TRUE
  BY <1>4 DEF CplInv
<1> QED BY <1>1, <1>2, <1>3, <1>4

HostInv == EndpointCore /\ CountersInv /\ OwedInv /\ CplInv

LEMMA HostInit == EpInit => HostInv
<1> SUFFICES ASSUME EpInit PROVE HostInv
  OBVIOUS
<1>1. EndpointCore /\ CountersInv
  BY CoreInit, CountersInvInit DEF EpInit
<1>2. OwedInv
  <2>1. mrd_hdrs = <<>> /\ MrdLen * 0 = 0 /\ Len(mrd_hdrs) = 0
    BY SpanAssumption, TransferAssumption DEF EpInit, Init
  <2>2. AskedSoFar = 0
    BY <2>1 DEF AskedSoFar
  <2> QED BY <2>2 DEF EpInit, Init, OwedInv
<1>3. CplInv
  BY DEF EpInit, CplInv
<1> QED BY <1>1, <1>2, <1>3 DEF HostInv

LEMMA HostStep ==
  ASSUME MaxStall <= 4, ResetTakes = TRUE, HostInv, [EpNext]_epVars PROVE HostInv'
<1>1. EndpointCore' /\ [Next]_vars
  BY CoreStep DEF HostInv
<1>2. CountersInv'
  BY <1>1, CountersInvStep DEF HostInv
<1>3. CASE UNCHANGED epVars
  <2>1. OwedInv'
    BY <1>3 DEF HostInv, OwedInv, epVars, vars, inputs, txVars, reader, trace, cpld, host, AskedSoFar,
                MayAsk, MrdPending
  <2>2. CplInv'
    BY <1>3 DEF HostInv, CplInv, epVars, vars, inputs, rx, cpld, host
  <2> QED BY <1>1, <1>2, <2>1, <2>2 DEF HostInv
<1>4. ASSUME NEW rdy \in BOOLEAN, NEW ready \in BOOLEAN, EpClock(rdy, ready)
      PROVE  OwedInv' /\ CplInv'
  <2>1. init_rst \in BOOLEAN /\ RxClock /\ SizeTypeOK
    BY <1>4 DEF HostInv, EndpointCore, PartsOK, TypeOK, FlagsOK, RxTypeOK, EpClock
  <2>2. asked' <= 2
    BY <2>1, AskedClock DEF HostInv, OwedInv, SizeTypeOK
  <2>3. CplInv'
    BY <1>1, <1>4, CplInvClock DEF HostInv, EndpointCore
  <2>4. CASE init_rst = FALSE
    BY <1>1, <1>4, <2>2, <2>3, <2>4, OwedOutside DEF HostInv, OwedInv
  <2>5. CASE init_rst = TRUE
    BY <1>1, <1>4, <2>2, <2>3, <2>5, OwedInPulse DEF HostInv, OwedInv
  <2> QED BY <2>1, <2>4, <2>5
<1> QED BY <1>1, <1>2, <1>3, <1>4, EpClocks DEF HostInv

LEMMA HostTypes == HostInv => EpTypeOK /\ NoFalseAlarm
<1> SUFFICES ASSUME HostInv PROVE EpTypeOK /\ NoFalseAlarm
  OBVIOUS
<1>1. PartsOK /\ ReadCounters /\ OwedInv
  BY DEF HostInv, EndpointCore, CountersInv
<1>2. owed \in Nat /\ asked \in Nat /\ stale \in BOOLEAN /\ init_rst \in BOOLEAN
      /\ mrd_hdrs \in Seq(Nat) /\ mrd_done \in BOOLEAN
  BY <1>1 DEF PartsOK, SizeTypeOK, HostTypeOK, TypeOK, FlagsOK, CountersOK
<1>3. owed <= 2 * Total
  <2>1. Len(mrd_hdrs) \in Nat
    BY <1>2
  <2>2. /\ Total \in Nat /\ MrdLen \in Nat /\ AskedSoFar \in Nat /\ MayAsk \in Nat
        /\ Len(mrd_hdrs) <= MrdCount => AskedSoFar <= Total
    BY <2>1, OneMoreRequest DEF AskedSoFar, MayAsk
  <2>3. CASE init_rst
    <3>1. owed + MayAsk <= Total
      BY <1>1, <2>3 DEF OwedInv
    <3> QED BY <1>2, <2>2, <3>1
  <2>4. CASE ~init_rst
    <3>1. Len(mrd_hdrs) <= MrdCount
      BY <1>1, <2>1, <2>4, SpanAssumption, TransferAssumption DEF ReadCounters
    <3>2. owed <= (IF stale THEN Total ELSE 0) + AskedSoFar
      BY <1>1, <2>4 DEF OwedInv
    <3> QED BY <1>2, <2>2, <3>1, <3>2
  <2> QED BY <2>3, <2>4
<1>4. asked \in 0..2 /\ owed \in 0..(2 * Total)
  <2>1. Total \in Nat
    BY OneMoreRequest, 0 \in Nat
  <2> QED BY <1>1, <1>2, <1>3, <2>1 DEF OwedInv
<1>5. data_err \in BOOLEAN
  BY <1>1 DEF PartsOK, MemTypeOK
<1>6. EpTypeOK
  BY <1>1, <1>4, <1>5 DEF PartsOK, RxTypeOK, MemTypeOK, IntrTypeOK, HostTypeOK, SizeTypeOK,
     EpTypeOK
<1>7. NoFalseAlarm
  BY DEF HostInv, CplInv, NoFalseAlarm
<1> QED BY <1>6, <1>7

(* Every register of the endpoint keeps its width, at most two reads are   *)
(* unanswered and at most the data of two transfers is owed; what the      *)
(* transfer has done so far is exact at every clock, whatever the registers*)
(* and the receive engine do meanwhile; and a well-formed completion is    *)
(* taken for a malformed one (cpld_malformed_o, BMD_64_RX_ENGINE.v) in     *)
(* reset pulses only, which clear its size under it, and no longer than    *)
(* the pulse.  The end of a completion is the bus's, not the engine's.     *)
THEOREM EndpointCorrect ==
  ASSUME MaxStall <= 4, ResetTakes = TRUE, BuffersFit PROVE EpSpec => []EpInv
<1>1. EpInit => HostInv /\ TypeOK /\ TransferInv
  BY HostInit, TransferInvInit DEF EpInit
<1>2. HostInv /\ TypeOK /\ TransferInv /\ [EpNext]_epVars => (HostInv /\ TypeOK /\ TransferInv)'
  <2> SUFFICES ASSUME HostInv, TypeOK, TransferInv, [EpNext]_epVars
               PROVE  HostInv' /\ TypeOK' /\ TransferInv'
    OBVIOUS
  <2>1. HostInv'
    BY HostStep
  <2>2. [Next]_vars
    BY CoreStep DEF HostInv
  <2>3. TypeOK' /\ TransferInv'
    BY <2>2, TransferInvStep
  <2> QED BY <2>1, <2>3
<1>3. HostInv /\ TypeOK /\ TransferInv => EpInv
  BY HostTypes DEF EpInv
<1> QED BY <1>1, <1>2, <1>3, PTL DEF EpSpec
-----------------------------------------------------------------------------
(***************************************************************************)
(* Register reads and interrupts: the hand-shake of the receive and the    *)
(* transmit engine over req_compl and compl_done, which nothing resets on  *)
(* both sides, and the two interrupt state machines, which share one       *)
(* request to the core.                                                    *)
(***************************************************************************)

Completing == tx_state \in {"CPLD_QW1", "CPLD_WIT"}
Reading    == rx_state \in {"RD32_QW1", "RD32_WT"}

(* The host asks one register at a time, and not within a reset pulse.     *)
OneReadAtATime == Env \cap {"pipelined", "resetread"} = {}

Handshake ==
  /\ asked \in {0, 1}
  /\ Completing \/ Reading => asked = 1
  /\ Reading => ~init_rst
  /\ rx_state = "RD32_QW1" => ~req_compl_q
  /\ rx_state = "RD32_QW1" \/ (rx_state = "RD32_WT" /\ ~req_compl_q) => ~compl_done /\ ~Completing
  /\ rx_state = "RD32_WT" => (compl_done <=> tx_state = "CPLD_WIT")
  /\ compl_done => tx_state \in {"CPLD_WIT", "RST"}
  /\ tx_state = "CPLD_QW1" => rx_state = "RD32_WT" /\ req_compl_q /\ ~compl_done
  /\ req_compl_q /\ ~req_compl =>
       compl_done /\ rx_state = "RST" /\ ~dst_rdy /\ ~init_rst
  /\ req_compl_q /\ req_compl => trn_pending

(* Direction by direction: who has the request, and what the wire says.    *)
IntrInv ==
  /\ intr_state = "RST" => rd_intr = "RST" /\ wr_intr = "RST"
  /\ intr_state = "RD" /\ wr_intr # "RST" => rd_intr = "DUN"
  /\ intr_state = "WR" /\ rd_intr # "RST" => wr_intr = "DUN"
  /\ ~msi /\ ~orphan => (intx <=> rd_intr \in {"ACT", "ACT2"} \/ wr_intr \in {"ACT", "ACT2"})

-----------------------------------------------------------------------------
(* What a clock of the receive engine does to a register read.             *)
ReadMoves ==
  \/ /\ ~Reading /\ ~Reading' /\ ~req_compl' /\ Ask(0)
     /\ rx_state = "RST" /\ ~dst_rdy => rx_state' = "RST"
  \/ /\ rx_state = "RST" /\ dst_rdy /\ CanAsk /\ Ask(1)
     /\ rx_state' = "RD32_QW1" /\ ~req_compl'
  \/ /\ rx_state = "RD32_QW1" /\ rx_state' = "RD32_QW1" /\ ~req_compl' /\ Ask(0)
  \/ /\ rx_state = "RD32_QW1" /\ rx_state' = "RD32_WT" /\ req_compl' /\ Ask(0)
  \/ /\ rx_state = "RD32_WT" /\ ~compl_done /\ rx_state' = "RD32_WT" /\ req_compl' /\ Ask(0)
  \/ /\ rx_state = "RD32_WT" /\ compl_done /\ rx_state' = "RST" /\ ~dst_rdy' /\ ~req_compl'
     /\ Ask(0)

LEMMA RxReadMoves == RxTypeOK /\ FlagsOK /\ RxClock => ReadMoves
<1> SUFFICES ASSUME RxTypeOK, FlagsOK, RxClock PROVE ReadMoves
  OBVIOUS
<1> USE DEF ReadMoves, Reading, NoPio, Beat, Same
<1>1. CASE RxIdle BY <1>1 DEF RxIdle
<1>2. CASE RxRead BY <1>2 DEF RxRead
<1>3. CASE RxWrite BY <1>3 DEF RxWrite
<1>4. CASE RxReadAddress BY <1>4 DEF RxReadAddress
<1>5. CASE RxReadWait
  <2>1. CASE compl_done BY <1>5, <2>1 DEF RxReadWait
  <2>2. CASE ~compl_done BY <1>5, <2>2 DEF RxReadWait
  <2> QED BY <2>1, <2>2
<1>6. CASE RxWriteData BY <1>6 DEF RxWriteData
<1>7. CASE RxWriteWait BY <1>7 DEF RxWriteWait
<1>8. CASE RxCpldFirst BY <1>8 DEF RxCpldFirst
<1>9. CASE RxCpldNext
  <2>1. /\ rx_state = "CPLD_QWN" /\ rx_state' \in {"RST", "CPLD_QWN"} /\ ~req_compl'
        /\ Ask(0)
    BY <1>9 DEF RxCpldNext
  <2> QED BY <2>1
<1>10. CASE RxGap
  <2>1. CASE rx_state = "RD32_QW1" BY <1>10, <2>1 DEF RxGap
  <2>2. CASE rx_state # "RD32_QW1" BY <1>10, <2>2 DEF RxGap
  <2> QED BY <2>1, <2>2
<1>11. ASSUME NEW n \in 1..MrdLen, RxCpld(n) \/ RxCpl(n) PROVE ReadMoves
  BY <1>11 DEF RxCpld, RxCpl
<1>12. CASE RxCplEnd BY <1>12 DEF RxCplEnd
<1> QED BY <1>1, <1>2, <1>3, <1>4, <1>5, <1>6, <1>7, <1>8, <1>9, <1>10, <1>11, <1>12 DEF RxClock

(* What a clock of the transmit engine does to its completion, while the   *)
(* core discontinues nothing.                                              *)
CompletionMoves ==
  \/ /\ tx_state = "RST" /\ req_compl_q /\ ~compl_done
     /\ tx_state' = "CPLD_QW1" /\ ~compl_done'
  \/ /\ tx_state = "RST" /\ ~Completing' /\ ~compl_done'
  \/ /\ tx_state = "CPLD_QW1" /\ tx_state' = "CPLD_WIT" /\ compl_done'
  \/ /\ tx_state = "CPLD_WIT" /\ tx_state' = "RST" /\ compl_done' = Kept(compl_done, FALSE)
  \/ /\ Completing /\ tx_state' = tx_state /\ compl_done' = Kept(compl_done, FALSE)
  \/ /\ tx_state # "RST" /\ ~Completing /\ ~Completing' /\ compl_done' = Kept(compl_done, FALSE)

LEMMA TxCompletionMoves ==
  ASSUME NEW rdy, TxBranch(rdy, FALSE, TRUE) PROVE CompletionMoves
<1> USE DEF CompletionMoves, Completing, KeepCompl
<1>1. CASE IssueCompletion(rdy, FALSE) BY <1>1 DEF IssueCompletion, CanComplete
<1>2. CASE IssueWrite(rdy, FALSE, TRUE) BY <1>2 DEF IssueWrite
<1>3. CASE IssueRead(rdy, FALSE, TRUE) BY <1>3 DEF IssueRead
<1>4. CASE Idle(rdy, FALSE, TRUE) BY <1>4 DEF Idle
<1>5. CASE SendCompletion(rdy, FALSE) BY <1>5 DEF SendCompletion
<1>6. CASE LeaveCompletion(rdy, FALSE) BY <1>6 DEF LeaveCompletion
<1>7. CASE SendWriteHeader(rdy, FALSE) BY <1>7 DEF SendWriteHeader
<1>8. CASE SendWrite64Header(rdy, FALSE) BY <1>8 DEF SendWrite64Header
<1>9. CASE SendWritePayload(rdy, FALSE) BY <1>9 DEF SendWritePayload
<1>10. CASE SendReadRequest(rdy, FALSE) BY <1>10 DEF SendReadRequest
<1>11. ~AbortDma(FALSE) BY DEF AbortDma
<1>12. CASE Stall(rdy, FALSE) BY <1>12 DEF Stall
<1> QED BY <1>1, <1>2, <1>3, <1>4, <1>5, <1>6, <1>7, <1>8, <1>9, <1>10, <1>11, <1>12 DEF TxBranch

LEMMA HandshakeClock ==
  ASSUME OneReadAtATime, PartsOK, Pipe, Handshake,
         NEW rdy \in BOOLEAN, NEW ready \in BOOLEAN, EpClock(rdy, ready), PartsOK', Pipe'
  PROVE  Handshake'
<1>1. /\ ReadMoves /\ CompletionMoves /\ req_compl_q' = req_compl
      /\ init_rst \in BOOLEAN /\ compl_done \in BOOLEAN /\ compl_done' \in BOOLEAN
      /\ req_compl \in BOOLEAN /\ req_compl' \in BOOLEAN /\ req_compl_q \in BOOLEAN
      /\ trn_pending \in BOOLEAN /\ init_rst' \in BOOLEAN /\ asked \in {0, 1}
  <2>1. ReadMoves
    BY RxReadMoves DEF PartsOK, TypeOK, EpClock
  <2>2. CompletionMoves
    BY TxCompletionMoves DEF EpClock, TxClock
  <2> QED BY <2>1, <2>2 DEF PartsOK, TypeOK, FlagsOK, IntrTypeOK, Handshake, EpClock, TxClock
<1>2. /\ req_compl <=> rx_state = "RD32_WT"
      /\ req_compl' <=> rx_state' = "RD32_WT"
  BY DEF Pipe
<1>3. rx_state # "WR32_WT" => init_rst' = init_rst
  BY DEF Pipe, InFlight, EpClock, RegisterClock
<1>4. CanAsk => asked = 0 /\ ~init_rst
  BY <1>1 DEF CanAsk, OneReadAtATime, InResetPulse
<1>5. /\ Ask(0) => asked' = (IF Answered THEN 0 ELSE asked)
      /\ Ask(1) /\ asked = 0 => asked' = 1
  <2>1. Answered => asked = 1
    BY DEF Answered, Handshake, Completing
  <2>2. Ask(0) => asked' = (IF Answered THEN 0 ELSE asked)
    BY <1>1, <2>1 DEF Ask
  <2>3. Ask(1) /\ asked = 0 => asked' = 1
    BY <1>1, <2>1 DEF Ask
  <2> QED BY <2>2, <2>3
<1>6. req_compl /\ req_compl' => trn_pending'
  <2>1. req_compl /\ req_compl' => ~compl_done
    BY <1>1, <1>2 DEF ReadMoves, Reading
  <2> QED BY <2>1 DEF EpClock, TurnoffClock, trn_pending_Next
<1> USE DEF Handshake, Reading, Completing, Kept, Answered
<1>7. CASE ~Reading /\ ~Reading' /\ ~req_compl' /\ Ask(0)
           /\ (rx_state = "RST" /\ ~dst_rdy => rx_state' = "RST")
  BY <1>1, <1>2, <1>5, <1>7 DEF CompletionMoves
<1>8. CASE rx_state = "RST" /\ dst_rdy /\ CanAsk /\ Ask(1)
           /\ rx_state' = "RD32_QW1" /\ ~req_compl'
  BY <1>1, <1>2, <1>3, <1>4, <1>5, <1>8 DEF CompletionMoves
<1>9. CASE rx_state = "RD32_QW1" /\ rx_state' = "RD32_QW1" /\ ~req_compl' /\ Ask(0)
  BY <1>1, <1>2, <1>3, <1>5, <1>9 DEF CompletionMoves
<1>10. CASE rx_state = "RD32_QW1" /\ rx_state' = "RD32_WT" /\ req_compl' /\ Ask(0)
  BY <1>1, <1>2, <1>3, <1>5, <1>10 DEF CompletionMoves
<1>11. CASE rx_state = "RD32_WT" /\ ~compl_done /\ rx_state' = "RD32_WT" /\ req_compl' /\ Ask(0)
  BY <1>1, <1>2, <1>3, <1>5, <1>6, <1>11 DEF CompletionMoves
<1>12. CASE rx_state = "RD32_WT" /\ compl_done /\ rx_state' = "RST" /\ ~dst_rdy' /\ ~req_compl'
            /\ Ask(0)
  BY <1>1, <1>2, <1>3, <1>5, <1>12 DEF CompletionMoves
<1> QED BY <1>1, <1>7, <1>8, <1>9, <1>10, <1>11, <1>12 DEF ReadMoves

ReadInv == PartsOK /\ Pipe /\ Handshake

LEMMA ReadInvStep ==
  ASSUME OneReadAtATime PROVE ReadInv /\ [EpNext]_epVars => ReadInv'
<1> SUFFICES ASSUME ReadInv, [EpNext]_epVars PROVE ReadInv'
  OBVIOUS
<1>1. PartsOK' /\ Pipe'
  BY PartsStep DEF ReadInv
<1>2. CASE UNCHANGED epVars
  BY <1>1, <1>2 DEF ReadInv, Handshake, Completing, Reading, epVars, vars, inputs, txVars, rx, turnoff, host
<1>3. ASSUME NEW rdy \in BOOLEAN, NEW ready \in BOOLEAN, EpClock(rdy, ready) PROVE ReadInv'
  BY <1>1, <1>3, HandshakeClock DEF ReadInv
<1> QED BY <1>2, <1>3, EpClocks

LEMMA ReadInvInit == EpInit => ReadInv
<1> SUFFICES ASSUME EpInit PROVE ReadInv
  OBVIOUS
<1>1. PartsOK /\ Pipe
  BY CoreInit DEF EndpointCore
<1>2. Handshake
  BY DEF EpInit, Init, Handshake, Completing, Reading
<1> QED BY <1>1, <1>2 DEF ReadInv

(* No register read is answered twice: the request stays up until the      *)
(* receive engine sees that it has been answered, and the request register *)
(* of the transmit engine a clock longer, while compl_done keeps it from   *)
(* beginning a second completion (BMD_64_TX_ENGINE.v, BMD_64_RX_ENGINE.v). *)
THEOREM ReadsAnsweredOnce ==
  ASSUME OneReadAtATime PROVE EpSpec => AnsweredOnce
<1> DEFINE Once == Answered => asked > 0
<1>1. EpInit => ReadInv
  BY ReadInvInit
<1>2. ReadInv /\ [EpNext]_epVars => ReadInv'
  BY ReadInvStep
<1>3. ReadInv /\ [EpNext]_epVars => [Once]_epVars
  BY DEF ReadInv, Handshake, Completing, Answered
<1> QED BY <1>1, <1>2, <1>3, PTL DEF EpSpec, AnsweredOnce

(* A power-off is never acknowledged while the first beat of a completion  *)
(* waits for the core: trn_pending is up before (BMD_TO_CTRL.v).           *)
THEOREM TurnoffQuiet ==
  ASSUME OneReadAtATime PROVE EpSpec => []TurnoffIsQuiet
<1>1. EpInit => ReadInv /\ TurnoffIsQuiet
  BY ReadInvInit DEF EpInit, Init, TurnoffIsQuiet
<1>2. ReadInv /\ [EpNext]_epVars => ReadInv'
  BY ReadInvStep
<1>3. ReadInv /\ TurnoffIsQuiet /\ [EpNext]_epVars => TurnoffIsQuiet'
  <2> SUFFICES ASSUME ReadInv, TurnoffIsQuiet, [EpNext]_epVars PROVE TurnoffIsQuiet'
    OBVIOUS
  <2>1. CASE UNCHANGED epVars
    BY <2>1 DEF TurnoffIsQuiet, epVars, vars, txVars, turnoff
  <2>2. ASSUME NEW rdy \in BOOLEAN, NEW ready \in BOOLEAN, EpClock(rdy, ready),
               tx_state' = "CPLD_QW1"
        PROVE  turnoff_ok' = FALSE
    <3>1. CompletionMoves
      BY <2>2, TxCompletionMoves DEF EpClock, TxClock
    <3>2. req_compl_q /\ ~compl_done
      BY <2>2, <3>1 DEF CompletionMoves, Completing, ReadInv, Handshake
    <3>3. trn_pending = TRUE
      BY <3>2 DEF ReadInv, Handshake, PartsOK, IntrTypeOK
    <3> QED BY <2>2, <3>3 DEF EpClock, TurnoffClock
  <2> QED BY <2>1, <2>2, EpClocks DEF TurnoffIsQuiet
<1> QED BY <1>1, <1>2, <1>3, PTL DEF EpSpec
-----------------------------------------------------------------------------
(* The state machine of one direction that is not the other's turn rests.  *)
LEMMA IntrTurns ==
  ASSUME IntrTypeOK, IntrInv, mrd_done_o \in BOOLEAN, mwr_done \in BOOLEAN
  PROVE  /\ ReadTurn \in BOOLEAN /\ WriteTurn \in BOOLEAN
         /\ rd_intr = "RST" /\ ReadTurn => wr_intr \in {"RST", "DUN"} /\ ~(wr_intr = "RST" /\ WriteTurn)
         /\ wr_intr = "RST" /\ WriteTurn => rd_intr \in {"RST", "DUN"}
         /\ rd_intr \in {"ACT", "ACT2"} => wr_intr \in {"RST", "DUN"} /\ ~(wr_intr = "RST" /\ WriteTurn)
         /\ wr_intr \in {"ACT", "ACT2"} => ~(rd_intr = "RST" /\ ReadTurn)
<1>1. CASE intr_state = "RST" BY <1>1 DEF IntrTypeOK, IntrInv, ReadTurn, WriteTurn
<1>2. CASE intr_state = "RD" BY <1>2 DEF IntrTypeOK, IntrInv, ReadTurn, WriteTurn
<1>3. CASE intr_state = "WR" BY <1>3 DEF IntrTypeOK, IntrInv, ReadTurn, WriteTurn
<1> QED BY <1>1, <1>2, <1>3 DEF IntrTypeOK

LEMMA IntrInvClock ==
  ASSUME PartsOK, IntrInv, NEW ready \in BOOLEAN, IntrClock(ready), PartsOK'
  PROVE  IntrInv'
<1>1. /\ mrd_done_o \in BOOLEAN /\ mwr_done \in BOOLEAN /\ init_rst \in BOOLEAN
      /\ legacyclr \in BOOLEAN /\ msi \in BOOLEAN /\ orphan \in BOOLEAN /\ intx \in BOOLEAN
      /\ IntrTypeOK
  BY DEF PartsOK, TypeOK, FlagsOK, MemTypeOK, IntrTypeOK
<1>2. CASE init_rst = TRUE
  <2>1. intr_state' = "RST" /\ rd_intr' = "RST" /\ wr_intr' = "RST"
    BY <1>2 DEF IntrClock
  <2>2. ~orphan' => ~intx'
    BY <1>2 DEF IntrClock
  <2> QED BY <2>1, <2>2 DEF IntrInv
<1>3. CASE init_rst = FALSE
  <2>1. /\ rd_intr' = NextIntr(rd_intr, ReadTurn, ready)
        /\ wr_intr' = NextIntr(wr_intr, WriteTurn, ready)
        /\ intr_state' = (IF intr_state # "RST" THEN intr_state
                          ELSE IF mrd_done_o THEN "RD" ELSE IF mwr_done THEN "WR" ELSE "RST")
        /\ msi' = msi /\ (~orphan' => ~orphan)
        /\ intx' = (IF msi \/ ~(ready /\ Requesting) THEN intx ELSE Asserting)
    BY <1>3 DEF IntrClock
  <2>2. /\ intr_state' = "RST" => rd_intr' = "RST" /\ wr_intr' = "RST"
        /\ intr_state' = "RD" /\ wr_intr' # "RST" => rd_intr' = "DUN"
        /\ intr_state' = "WR" /\ rd_intr' # "RST" => wr_intr' = "DUN"
    <3>1. CASE intr_state = "RST"
      BY <1>1, <2>1, <3>1 DEF IntrInv, NextIntr, ReadTurn, WriteTurn
    <3>2. CASE intr_state = "RD"
      BY <1>1, <2>1, <3>2 DEF IntrInv, IntrTypeOK, NextIntr, ReadTurn, WriteTurn
    <3>3. CASE intr_state = "WR"
      BY <1>1, <2>1, <3>3 DEF IntrInv, IntrTypeOK, NextIntr, ReadTurn, WriteTurn
    <3> QED BY <1>1, <3>1, <3>2, <3>3 DEF IntrTypeOK
  <2>3. ASSUME ~msi', ~orphan'
        PROVE  intx' <=> rd_intr' \in {"ACT", "ACT2"} \/ wr_intr' \in {"ACT", "ACT2"}
    <3>1. ~msi /\ (intx <=> rd_intr \in {"ACT", "ACT2"} \/ wr_intr \in {"ACT", "ACT2"})
      BY <2>1, <2>3 DEF IntrInv
    <3>2. CASE ~(ready /\ Requesting)
      <4>1. intx' = intx
        BY <2>1, <3>1, <3>2
      <4>2. \A s \in {"RST", "ACT", "ACT2", "DUN"}, t \in BOOLEAN :
              ~(ready /\ Requests(s, t)) =>
                (NextIntr(s, t, ready) \in {"ACT", "ACT2"} <=> s \in {"ACT", "ACT2"})
        BY <1>1, <3>1 DEF NextIntr, Requests, Asserts, Deasserts
      <4> QED BY <1>1, <2>1, <3>1, <3>2, <4>1, <4>2, IntrTurns DEF Requesting, IntrTypeOK
    <3>3. CASE ready /\ Requesting
      <4>1. intx' = Asserting
        BY <2>1, <3>1, <3>3
      <4>2. CASE Asserts(rd_intr, ReadTurn)
        BY <1>1, <2>1, <3>3, <4>1, <4>2, IntrTurns DEF Asserting, Asserts, NextIntr
      <4>3. CASE Asserts(wr_intr, WriteTurn)
        BY <1>1, <2>1, <3>3, <4>1, <4>3, IntrTurns DEF Asserting, Asserts, NextIntr
      <4>4. CASE Deasserts(rd_intr)
        BY <1>1, <2>1, <3>3, <4>1, <4>4, IntrTurns DEF Asserting, Asserts, Deasserts, NextIntr, IntrTypeOK
      <4>5. CASE Deasserts(wr_intr)
        BY <1>1, <2>1, <3>3, <4>1, <4>5, IntrTurns DEF Asserting, Asserts, Deasserts, NextIntr, IntrTypeOK
      <4> QED BY <3>3, <4>2, <4>3, <4>4, <4>5 DEF Requesting, Requests
    <3> QED BY <3>2, <3>3
  <2> QED BY <2>2, <2>3 DEF IntrInv
<1> QED BY <1>1, <1>2, <1>3

(* The two directions never use the request to the core at the same time,  *)
(* and a legacy interrupt is asserted and deasserted in turn, unless a     *)
(* reset came while it was asserted (BMD_INTR_CTRL.v).                     *)
THEOREM InterruptsAlternate == EpSpec => []LegacyAlternates
<1>1. EpInit => PartsOK /\ Pipe /\ IntrInv
  BY CoreInit DEF EndpointCore, EpInit, IntrInv
<1>2. PartsOK /\ Pipe /\ IntrInv /\ [EpNext]_epVars => (PartsOK /\ Pipe /\ IntrInv)'
  <2> SUFFICES ASSUME PartsOK, Pipe, IntrInv, [EpNext]_epVars PROVE PartsOK' /\ Pipe' /\ IntrInv'
    OBVIOUS
  <2>1. PartsOK' /\ Pipe'
    BY PartsStep
  <2>2. CASE UNCHANGED epVars
    BY <2>1, <2>2 DEF IntrInv, epVars, intr
  <2>3. ASSUME NEW rdy \in BOOLEAN, NEW ready \in BOOLEAN, EpClock(rdy, ready) PROVE IntrInv'
    BY <2>1, <2>3, IntrInvClock DEF EpClock
  <2> QED BY <2>1, <2>2, <2>3, EpClocks
<1>3. PartsOK /\ IntrInv => LegacyAlternates
  <2> SUFFICES ASSUME PartsOK, IntrInv PROVE LegacyAlternates
    OBVIOUS
  <2>1. IntrTypeOK /\ mrd_done_o \in BOOLEAN /\ mwr_done \in BOOLEAN /\ legacyclr \in BOOLEAN
    BY DEF PartsOK, TypeOK, FlagsOK, MemTypeOK
  <2> QED BY <2>1, IntrTurns DEF LegacyAlternates, IntrTypeOK, IntrInv, Requesting, Asserting,
          Requests, Asserts, Deasserts
<1> QED BY <1>1, <1>2, <1>3, PTL DEF EpSpec

-----------------------------------------------------------------------------
(***************************************************************************)
(* What the status register says.  The data of the transfer is counted     *)
(* (cpld_size), taken over (size_q), compared with what it should be       *)
(* (cpld_done), and the done bit follows, a clock each; the comparison is  *)
(* true for one clock after a reset pulse, when nothing has been started.  *)
(***************************************************************************)

(* Outside of a reset pulse a completion moves double words from what is   *)
(* owed to what has come, and a refusal to what will not.                  *)
LEMMA DataClock ==
  ASSUME RxClock, init_rst = FALSE, owed \in Nat, cpld_size \in Nat, refused \in Nat
  PROVE  \E n, r \in Nat : /\ n + r <= owed
                           /\ cpld_size' = cpld_size + n /\ refused' = refused + r
                           /\ owed' = owed - (n + r) + (IF Requested THEN MrdLen ELSE 0)
<1> DEFINE Moves(n, r) == /\ n + r <= owed
                          /\ cpld_size' = cpld_size + n /\ refused' = refused + r
                          /\ owed' = owed - (n + r) + (IF Requested THEN MrdLen ELSE 0)
<1>0. (IF Requested THEN MrdLen ELSE 0) \in Nat
  BY SpanAssumption, TransferAssumption
<1>1. ASSUME cpld_size' = cpld_size, Pay(0) PROVE \E n, r \in Nat : Moves(n, r)
  <2>1. Moves(0, 0)
    BY <1>0, <1>1 DEF Pay, Settle, Kept
  <2> QED BY <2>1
<1> HIDE DEF Moves
<1> SUFFICES \E n, r \in Nat : Moves(n, r)
  BY DEF Moves
<1> USE DEF NoCpld, KeepSize, Kept, Same, Beat
<1>2. CASE RxIdle BY <1>1, <1>2 DEF RxIdle
<1>3. CASE RxRead BY <1>1, <1>3 DEF RxRead
<1>4. CASE RxWrite BY <1>1, <1>4 DEF RxWrite
<1>5. CASE RxReadAddress BY <1>1, <1>5 DEF RxReadAddress
<1>6. CASE RxReadWait BY <1>1, <1>6 DEF RxReadWait
<1>7. CASE RxWriteWait BY <1>1, <1>7 DEF RxWriteWait
<1>8. CASE RxWriteData BY <1>1, <1>8 DEF RxWriteData
<1>9. CASE RxCpldFirst BY <1>1, <1>9 DEF RxCpldFirst
<1>10. CASE RxCpldNext BY <1>1, <1>10 DEF RxCpldNext
<1>11. CASE RxGap BY <1>1, <1>11 DEF RxGap
<1>12. ASSUME NEW n \in 1..MrdLen, n <= owed, RxCpld(n) PROVE \E m, r \in Nat : Moves(m, r)
  <2>1. n \in Nat
    BY SpanAssumption, TransferAssumption
  <2>2. Moves(n, 0)
    BY <1>0, <1>12, <2>1 DEF RxCpld, Pay, Settle, Moves
  <2> QED BY <2>1, <2>2
<1>13. ASSUME NEW n \in 1..MrdLen, n <= owed, RxCpl(n) PROVE \E m, r \in Nat : Moves(m, r)
  <2>1. n \in Nat
    BY SpanAssumption, TransferAssumption
  <2>2. Moves(0, n)
    BY <1>0, <1>13, <2>1 DEF RxCpl, Refuse, Settle, Moves
  <2> QED BY <2>1, <2>2
<1>14. CASE RxCplEnd BY <1>1, <1>14 DEF RxCplEnd
<1> QED BY <1>2, <1>3, <1>4, <1>5, <1>6, <1>7, <1>8, <1>9, <1>10, <1>11, <1>12, <1>13, <1>14
        DEF RxClock

(* Every wrong beat is checked, and no other: without pauses inside a      *)
(* completion nothing but its data is on the bus.                          *)
LEMMA CheckClock ==
  ASSUME RxClock, RxTypeOK, Env \subseteq {"wrongdata", "refused"}, init_rst = FALSE
  PROVE  /\ wrong' <=> wrong \/ checked'
         /\ Reading' => ~checked'
<1> USE DEF NoCpld, NoData, Kept, Beat, Reading
<1>1. CASE RxIdle BY <1>1 DEF RxIdle
<1>2. CASE RxRead BY <1>2 DEF RxRead
<1>3. CASE RxWrite BY <1>3 DEF RxWrite
<1>4. CASE RxReadAddress BY <1>4 DEF RxReadAddress
<1>5. CASE RxReadWait BY <1>5 DEF RxReadWait
<1>6. CASE RxWriteWait BY <1>6 DEF RxWriteWait
<1>7. CASE RxWriteData BY <1>7 DEF RxWriteData
<1>8. CASE RxCpldFirst BY <1>8 DEF RxCpldFirst
<1>9. CASE RxCpldNext
  <2>1. rx_state' \in {"RST", "CPLD_QWN"} /\ (wrong' <=> wrong \/ checked')
    BY <1>9 DEF RxCpldNext
  <2> QED BY <2>1
<1>10. CASE RxGap BY <1>10 DEF RxGap
<1>11. ASSUME NEW n \in 1..MrdLen, RxCpld(n) \/ RxCpl(n)
       PROVE  (wrong' <=> wrong \/ checked') /\ (Reading' => ~checked')
  BY <1>11 DEF RxCpld, RxCpl
<1>12. CASE RxCplEnd BY <1>12 DEF RxCplEnd
<1> QED BY <1>1, <1>2, <1>3, <1>4, <1>5, <1>6, <1>7, <1>8, <1>9, <1>10, <1>11, <1>12 DEF RxClock

(* While the core discontinues nothing, no write is cut.                   *)
LEMMA NothingCut ==
  ASSUME NEW rdy, TxBranch(rdy, FALSE, TRUE), mwr_cut = FALSE PROVE mwr_cut' = FALSE
<1> USE DEF KeepCut, KeepTrace, Kept
<1>1. CASE IssueCompletion(rdy, FALSE) BY <1>1 DEF IssueCompletion
<1>2. CASE IssueWrite(rdy, FALSE, TRUE) BY <1>2 DEF IssueWrite
<1>3. CASE IssueRead(rdy, FALSE, TRUE) BY <1>3 DEF IssueRead
<1>4. CASE Idle(rdy, FALSE, TRUE) BY <1>4 DEF Idle
<1>5. CASE SendCompletion(rdy, FALSE) BY <1>5 DEF SendCompletion
<1>6. CASE LeaveCompletion(rdy, FALSE) BY <1>6 DEF LeaveCompletion
<1>7. CASE SendWriteHeader(rdy, FALSE) BY <1>7 DEF SendWriteHeader
<1>8. CASE SendWrite64Header(rdy, FALSE) BY <1>8 DEF SendWrite64Header
<1>9. CASE SendWritePayload(rdy, FALSE) BY <1>9 DEF SendWritePayload
<1>10. CASE SendReadRequest(rdy, FALSE) BY <1>10 DEF SendReadRequest
<1>11. ~AbortDma(FALSE) BY DEF AbortDma
<1>12. CASE Stall(rdy, FALSE) BY <1>12 DEF Stall
<1> QED BY <1>1, <1>2, <1>3, <1>4, <1>5, <1>6, <1>7, <1>8, <1>9, <1>10, <1>11, <1>12 DEF TxBranch

(* A done bit, once up, stays up outside of a reset pulse.                 *)
LEMMA WriteDoneStays ==
  ASSUME NEW rdy, TxBranch(rdy, FALSE, TRUE), init_rst = FALSE, mwr_done = TRUE PROVE mwr_done' = TRUE
<1> USE DEF KeepWriter, Kept
<1>1. CASE IssueCompletion(rdy, FALSE) BY <1>1 DEF IssueCompletion
<1>2. CASE IssueWrite(rdy, FALSE, TRUE) BY <1>2 DEF IssueWrite
<1>3. CASE IssueRead(rdy, FALSE, TRUE) BY <1>3 DEF IssueRead
<1>4. CASE Idle(rdy, FALSE, TRUE) BY <1>4 DEF Idle
<1>5. CASE SendCompletion(rdy, FALSE) BY <1>5 DEF SendCompletion
<1>6. CASE LeaveCompletion(rdy, FALSE) BY <1>6 DEF LeaveCompletion
<1>7. CASE SendWriteHeader(rdy, FALSE) BY <1>7 DEF SendWriteHeader
<1>8. CASE SendWrite64Header(rdy, FALSE) BY <1>8 DEF SendWrite64Header
<1>9. CASE SendWritePayload(rdy, FALSE) BY <1>9 DEF SendWritePayload
<1>10. CASE SendReadRequest(rdy, FALSE) BY <1>10 DEF SendReadRequest
<1>11. ~AbortDma(FALSE) BY DEF AbortDma
<1>12. CASE Stall(rdy, FALSE) BY <1>12 DEF Stall
<1> QED BY <1>1, <1>2, <1>3, <1>4, <1>5, <1>6, <1>7, <1>8, <1>9, <1>10, <1>11, <1>12 DEF TxBranch


(* The data of the transfer, outside of a reset pulse.                     *)
SizeInv ==
  /\ ~init_rst /\ expect # Total => Position <= 1 /\ ~mrd_start
  /\ ~init_rst /\ ~stale =>
       /\ cpld_size + owed + refused = AskedSoFar
       /\ size_q <= cpld_size
       /\ cpld_done => cpld_size = Total \/ (~mrd_start /\ Position <= 2)
       /\ mrd_done_o => cpld_size = Total

LEMMA AskedIsBounded ==
  CountersOK /\ ReadCounters /\ init_rst = FALSE =>
    /\ AskedSoFar \in Nat /\ Total \in Nat /\ AskedSoFar <= Total
    /\ AskedSoFar = Total => Len(mrd_hdrs) = MrdCount
<1> SUFFICES ASSUME CountersOK, ReadCounters, init_rst = FALSE
             PROVE  /\ AskedSoFar \in Nat /\ Total \in Nat /\ AskedSoFar <= Total
                    /\ AskedSoFar = Total => Len(mrd_hdrs) = MrdCount
  OBVIOUS
<1>1. /\ Len(mrd_hdrs) \in Nat /\ MrdCount \in Nat
      /\ Len(mrd_hdrs) < MrdCount \/ Len(mrd_hdrs) = MrdCount
  BY SpanAssumption, TransferAssumption DEF CountersOK, ReadCounters
<1>2. \A n \in Nat : /\ MrdLen \in Nat \ {0} /\ Total \in Nat /\ MrdLen * n \in Nat
                     /\ n < MrdCount => MrdLen * n + MrdLen <= Total
                     /\ n <= MrdCount => MrdLen * n <= Total
  BY OneMoreRequest
<1> DEFINE n == Len(mrd_hdrs)
<1>3. /\ MrdLen \in Nat \ {0} /\ Total \in Nat /\ MrdLen * n \in Nat
      /\ n < MrdCount => MrdLen * n + MrdLen <= Total
      /\ n <= MrdCount => MrdLen * n <= Total
  BY <1>1, <1>2
<1>4. AskedSoFar = MrdLen * n
  BY DEF AskedSoFar
<1>5. \A a, m, t \in Nat : a + m <= t /\ m # 0 => a <= t /\ a # t
  OBVIOUS
<1> HIDE DEF n
<1>6. CASE n < MrdCount
  BY <1>1, <1>3, <1>4, <1>5, <1>6
<1>7. CASE n = MrdCount
  BY <1>1, <1>3, <1>4, <1>7 DEF n
<1> QED BY <1>1, <1>6, <1>7 DEF n

(* The size that has been announced moves with the requests.               *)
LEMMA SizeFollows ==
  ASSUME CountersOK, owed \in Nat, cpld_size \in Nat, refused \in Nat, init_rst = FALSE, RxClock,
         NEW rdy, TxBranch(rdy, FALSE, TRUE)
  PROVE  /\ cpld_size' \in Nat /\ owed' \in Nat /\ refused' \in Nat /\ cpld_size <= cpld_size'
         /\ cpld_size + owed + refused = AskedSoFar => cpld_size' + owed' + refused' = AskedSoFar'
<1>1. PICK n, r \in Nat : /\ n + r <= owed
                          /\ cpld_size' = cpld_size + n /\ refused' = refused + r
                          /\ owed' = owed - (n + r) + (IF Requested THEN MrdLen ELSE 0)
  BY DataClock
<1>2. Len(mrd_hdrs') = Len(mrd_hdrs) + (IF Requested THEN 1 ELSE 0)
  BY RequestIsRecorded
<1>3. Len(mrd_hdrs) \in Nat
  BY DEF CountersOK
<1>4. /\ MrdLen \in Nat /\ MrdLen * Len(mrd_hdrs) \in Nat
      /\ MrdLen * (Len(mrd_hdrs) + 1) = MrdLen * Len(mrd_hdrs) + MrdLen
  BY <1>3, OneMoreRequest
<1> DEFINE more == IF Requested THEN MrdLen ELSE 0
<1>5. more \in Nat /\ AskedSoFar \in Nat /\ AskedSoFar' = AskedSoFar + more
  <2>1. CASE Requested
    BY <1>2, <1>4, <2>1 DEF AskedSoFar
  <2>2. CASE ~Requested
    <3>1. Len(mrd_hdrs') = Len(mrd_hdrs)
      BY <1>2, <1>3, <2>2
    <3> QED BY <1>4, <2>2, <3>1 DEF AskedSoFar
  <2> QED BY <2>1, <2>2
<1>6. owed' = owed - (n + r) + more
  BY <1>1
<1> HIDE DEF more
<1> QED BY <1>1, <1>5, <1>6

LEMMA SizeOutside ==
  ASSUME PartsOK, Pipe, CountersInv, SizeInv, init_rst = FALSE,
         NEW rdy \in BOOLEAN, NEW ready \in BOOLEAN, EpClock(rdy, ready),
         PartsOK', Pipe', CountersInv', init_rst' = FALSE
  PROVE  SizeInv'
<1>1. /\ RxClock /\ DoneClock /\ TxBranch(rdy, FALSE, TRUE) /\ CountersOK
      /\ owed \in Nat /\ refused \in Nat /\ cpld_size \in Nat /\ size_q \in Nat /\ stale' = stale
      /\ expect \in Nat /\ mrd_start \in BOOLEAN /\ cpld_done \in BOOLEAN
      /\ mrd_done_o \in BOOLEAN /\ stale \in BOOLEAN
  <2>1. /\ expect \in 0..(SizeSpan - 1) /\ size_q \in 0..(SizeSpan - 1) /\ owed \in Nat
        /\ refused \in Nat
        /\ cpld_size \in Nat /\ CountersOK /\ mrd_start \in BOOLEAN /\ cpld_done \in BOOLEAN
        /\ mrd_done_o \in BOOLEAN /\ stale \in BOOLEAN
    BY DEF PartsOK, SizeTypeOK, TypeOK, FlagsOK, HostTypeOK, RxTypeOK, MemTypeOK
  <2>2. RxClock /\ DoneClock /\ TxBranch(rdy, FALSE, TRUE)
    BY DEF EpClock, TxClock
  <2>3. stale' = stale
    BY DEF EpClock
  <2>4. expect \in Nat /\ size_q \in Nat
    BY <2>1, EpSpanAssumption
  <2> QED BY <2>1, <2>2, <2>3, <2>4
<1>2. AskedSoFar' \in Nat /\ Total \in Nat /\ AskedSoFar' <= Total
  <2>1. AskedSoFar \in Nat /\ Total \in Nat
    BY AskedIsBounded DEF CountersInv, TypeOK
  <2>2. (CountersOK /\ ReadCounters /\ init_rst = FALSE)' => (AskedSoFar \in Nat /\ AskedSoFar <= Total)'
    BY AskedIsBounded, PTL
  <2> QED BY <2>1, <2>2 DEF CountersInv, TypeOK, Total
<1>3. /\ expect' = Total
      /\ size_q' \in Nat /\ size_q' <= cpld_size
      /\ cpld_done' = (expect = size_q)
      /\ mrd_done_o' = (mrd_done_o \/ (mrd_start /\ cpld_done))
  <2>1. Total % SizeSpan = Total
    BY <1>2, ModBelow, EpSpanAssumption, TotalAssumption
  <2>2. (cpld_size % SizeSpan) \in Nat /\ (cpld_size % SizeSpan) <= cpld_size
    <3>1. \A x \in Nat, m \in Nat \ {0} : (x % m) \in Nat /\ (x % m) <= x
      OBVIOUS
    <3> QED BY <1>1, <3>1, EpSpanAssumption
  <2> QED BY <1>1, <2>1, <2>2 DEF DoneClock, Kept
<1>4. /\ cpld_size' \in Nat /\ owed' \in Nat /\ refused' \in Nat /\ cpld_size <= cpld_size'
      /\ cpld_size + owed + refused = AskedSoFar => cpld_size' + owed' + refused' = AskedSoFar'
  BY <1>1, SizeFollows
<1>5. ASSUME ~stale, Total <= cpld_size PROVE cpld_size' = Total
  <2>1. cpld_size' + owed' + refused' = AskedSoFar'
    BY <1>4, <1>5 DEF SizeInv
  <2>2. \A a, c, d, e \in Nat : c + d + e <= Total /\ Total <= a /\ a <= c => c = Total
    BY <1>2
  <2> QED BY <1>1, <1>2, <1>4, <1>5, <2>1, <2>2
<1>6. ASSUME expect # Total PROVE ~mrd_start' /\ Position' <= 2
  <2>1. Position <= 1 /\ mrd_start = FALSE
    BY <1>1, <1>6 DEF SizeInv
  <2>2. Position \in 0..6 /\ Position' \in 0..6 /\ Positions
    <3>1. Positions
      BY PositionIs DEF PartsOK
    <3>2. (Pipe /\ RxTypeOK /\ MemTypeOK)' => Positions'
      BY PositionIs, PTL
    <3> QED BY <3>1, <3>2 DEF PartsOK, Positions
  <2>3. mem_write_en = FALSE
    BY <2>1, <2>2 DEF Positions, PartsOK, MemTypeOK
  <2>4. Position' <= Position + 1
    BY PositionClock DEF PartsOK
  <2>5. mrd_start' = FALSE
    BY <2>1, <2>3 DEF EpClock, RegisterClock, StartBits
  <2> QED BY <2>1, <2>2, <2>4, <2>5
<1>7. ASSUME ~stale
      PROVE  /\ cpld_size' + owed' + refused' = AskedSoFar'
             /\ size_q' <= cpld_size'
             /\ cpld_done' => cpld_size' = Total \/ (~mrd_start' /\ Position' <= 2)
             /\ mrd_done_o' => cpld_size' = Total
  <2>1. /\ cpld_size + owed + refused = AskedSoFar /\ size_q <= cpld_size
        /\ cpld_done => cpld_size = Total \/ ~mrd_start
        /\ mrd_done_o => cpld_size = Total
    BY <1>7 DEF SizeInv
  <2>2. size_q' <= cpld_size'
    BY <1>1, <1>3, <1>4
  <2>3. ASSUME cpld_done' PROVE cpld_size' = Total \/ (~mrd_start' /\ Position' <= 2)
    <3>1. CASE expect # Total
      BY <1>6, <3>1
    <3>2. CASE expect = Total
      <4>1. Total <= cpld_size
        BY <1>1, <1>3, <2>1, <2>3, <3>2
      <4> QED BY <1>5, <1>7, <4>1
    <3> QED BY <3>1, <3>2
  <2>4. ASSUME mrd_done_o' PROVE cpld_size' = Total
    <3>1. cpld_size = Total
      BY <1>1, <1>3, <2>1, <2>4
    <3>2. Total <= cpld_size
      BY <1>2, <3>1
    <3> QED BY <1>5, <1>7, <3>2
  <2> QED BY <1>4, <2>1, <2>2, <2>3, <2>4
<1> QED BY <1>1, <1>3, <1>7 DEF SizeInv, Total


LEMMA PulseEnds ==
  ASSUME PartsOK, Pipe, init_rst = TRUE, init_rst' = FALSE, PartsOK', Pipe',
         NEW rdy \in BOOLEAN, NEW ready \in BOOLEAN, EpClock(rdy, ready)
  PROVE  /\ RxWriteWait /\ rx_state' = "RST" /\ Position' = 0 /\ mrd_start' = FALSE
         /\ cpld_size' = 0 /\ AskedSoFar' = 0 /\ size_q' = 0
         /\ cpld_done' = FALSE /\ mrd_done_o' = FALSE
         /\ wrong' = FALSE /\ checked' = FALSE /\ data_err' = FALSE
         /\ owed' \in Nat /\ (~stale' => owed' = 0) /\ refused' = 0
<1>1. mem_write_en = TRUE
  BY DEF EpClock, RegisterClock, PartsOK, MemTypeOK
<1>2. RxWriteWait /\ rx_state' = "RST" /\ dst_rdy' = FALSE
  BY <1>1, LandingWaits, Landing DEF PartsOK
<1>3. Position' = 0
  <2>1. (Pipe /\ RxTypeOK /\ MemTypeOK)' => Positions'
    BY PositionIs, PTL
  <2> QED BY <1>2, <2>1 DEF PartsOK, Positions
<1>4. mrd_start' = FALSE
  <2>1. addr = 0
    BY <1>1 DEF EpClock, RegisterClock
  <2> QED BY <2>1 DEF EpClock, RegisterClock, StartBits
<1>5. cpld_size' = 0 /\ wrong' = FALSE /\ checked' = FALSE
  BY <1>2 DEF RxWriteWait, NoCpld, KeepSize, NoData, Kept
<1>6. size_q' = 0 /\ cpld_done' = FALSE /\ mrd_done_o' = FALSE /\ data_err' = FALSE
  BY DEF EpClock, DoneClock, data_err_Next, Kept
<1>7. AskedSoFar' = 0
  <2>1. mrd_hdrs' = <<>>
    BY ResetForgets DEF EpClock, TxClock
  <2>2. MrdLen * 0 = 0
    BY SpanAssumption, TransferAssumption
  <2> QED BY <2>1, <2>2 DEF AskedSoFar
<1>8. owed' \in Nat
  BY DEF PartsOK, SizeTypeOK
<1>9. ~stale' => owed' = 0
  <2>1. ~stale' => ~(owed' > 0)
    <3>1. stale' = IF init_rst THEN owed' > 0 ELSE stale
      BY DEF EpClock
    <3> QED BY <3>1
  <2>2. \A n \in Nat : ~(n > 0) => n = 0
    OBVIOUS
  <2> QED BY <1>8, <2>1, <2>2
<1>10. refused' = 0
  BY <1>2 DEF RxWriteWait, Same, Pay, Settle, Kept
<1> QED BY <1>2, <1>3, <1>4, <1>5, <1>6, <1>7, <1>8, <1>9, <1>10

LEMMA SizeInvClock ==
  ASSUME PartsOK, Pipe, CountersInv, SizeInv, PartsOK', Pipe', CountersInv',
         NEW rdy \in BOOLEAN, NEW ready \in BOOLEAN, EpClock(rdy, ready)
  PROVE  SizeInv'
<1>1. init_rst \in BOOLEAN /\ init_rst' \in BOOLEAN
  BY DEF PartsOK, TypeOK, FlagsOK
<1>2. CASE init_rst' = TRUE
  BY <1>2 DEF SizeInv
<1>3. CASE init_rst = FALSE /\ init_rst' = FALSE
  BY <1>3, SizeOutside
<1>4. CASE init_rst = TRUE /\ init_rst' = FALSE
  <2>1. /\ Position' = 0 /\ mrd_start' = FALSE /\ cpld_size' = 0 /\ AskedSoFar' = 0
        /\ size_q' = 0 /\ cpld_done' = FALSE /\ mrd_done_o' = FALSE
        /\ (~stale' => owed' = 0) /\ refused' = 0
    BY <1>4, PulseEnds
  <2>2. ~stale' => cpld_size' + owed' + refused' = AskedSoFar' /\ size_q' <= cpld_size'
    BY <2>1
  <2>3. Position' <= 1
    BY <2>1
  <2> QED BY <2>1, <2>2, <2>3 DEF SizeInv
<1> QED BY <1>1, <1>2, <1>3, <1>4

(* The error bit, and the register that a completion carries.              *)
ErrInv ==
  /\ ~init_rst => (wrong <=> data_err \/ checked)
  /\ Reading => ~checked
DataInv ==
  /\ ~mwr_cut
  /\ rx_state = "RD32_WT" => addr = 1
  /\ rx_state = "RD32_WT" /\ req_compl_q =>
       /\ rd_d.reg = 1
       /\ rd_d.mwr => mwr_done
       /\ rd_d.mrd => mrd_done_o
       /\ rd_d.err <=> data_err

LEMMA ErrInvClock ==
  ASSUME Env \subseteq {"wrongdata", "refused"}, ReadInv, ErrInv, ReadInv',
         NEW rdy \in BOOLEAN, NEW ready \in BOOLEAN, EpClock(rdy, ready)
  PROVE  ErrInv'
<1>1. /\ init_rst \in BOOLEAN /\ init_rst' \in BOOLEAN /\ RxClock /\ RxTypeOK
      /\ data_err' = (~init_rst /\ (data_err \/ checked))
      /\ PartsOK /\ Pipe /\ PartsOK' /\ Pipe'
  BY DEF ReadInv, PartsOK, TypeOK, FlagsOK, EpClock, data_err_Next
<1>2. Reading' => ~init_rst'
  BY DEF ReadInv, Handshake
<1>3. CASE init_rst = FALSE
  <2>1. (wrong' <=> wrong \/ checked') /\ (Reading' => ~checked')
    BY <1>1, <1>3, CheckClock
  <2>2. wrong <=> data_err \/ checked
    BY <1>3 DEF ErrInv
  <2> QED BY <1>1, <1>3, <2>1, <2>2 DEF ErrInv
<1>4. CASE init_rst = TRUE /\ init_rst' = FALSE
  <2>1. wrong' = FALSE /\ checked' = FALSE /\ data_err' = FALSE
    BY <1>1, <1>4, PulseEnds
  <2> QED BY <2>1 DEF ErrInv
<1>5. CASE init_rst' = TRUE
  BY <1>2, <1>5 DEF ErrInv
<1> QED BY <1>1, <1>3, <1>4, <1>5

(* The address stays while the engine waits for the completion.            *)
LEMMA ReadAddressClock ==
  ASSUME RxClock, RxTypeOK, rx_state' = "RD32_WT"
  PROVE  \/ rx_state = "RD32_QW1" /\ addr' = 1
         \/ rx_state = "RD32_WT" /\ addr' = addr
<1>1. CASE RxReadAddress BY <1>1 DEF RxReadAddress
<1>2. CASE RxReadWait BY <1>2 DEF RxReadWait
<1>3. ~RxIdle /\ ~RxRead /\ ~RxWrite /\ ~RxWriteData
  BY DEF RxIdle, RxRead, RxWrite, RxWriteData
<1>4. ~RxWriteWait
  BY DEF RxWriteWait
<1>5. ~RxCpldFirst /\ ~RxCpldNext
  BY DEF RxCpldFirst, RxCpldNext
<1>6. ~RxGap
  BY DEF RxGap
<1>7. ~RxCplEnd /\ \A n \in 1..MrdLen : ~RxCpld(n) /\ ~RxCpl(n)
  BY DEF RxCplEnd, RxCpld, RxCpl
<1> QED BY <1>1, <1>2, <1>3, <1>4, <1>5, <1>6, <1>7 DEF RxClock

LEMMA DataInvClock ==
  ASSUME ReadInv, ErrInv, DataInv, ReadInv',
         NEW rdy \in BOOLEAN, NEW ready \in BOOLEAN, EpClock(rdy, ready)
  PROVE  DataInv'
<1>1. /\ RxClock /\ RxTypeOK /\ TxBranch(rdy, FALSE, TRUE) /\ req_compl_q' = req_compl
      /\ init_rst \in BOOLEAN /\ mwr_done \in BOOLEAN /\ mrd_done_o \in BOOLEAN
      /\ data_err \in BOOLEAN /\ mwr_cut \in BOOLEAN
      /\ RegisterClock /\ DoneClock /\ data_err' = (~init_rst /\ (data_err \/ checked))
      /\ req_compl <=> rx_state = "RD32_WT"
  BY DEF ReadInv, PartsOK, TypeOK, FlagsOK, MemTypeOK, Pipe, EpClock, TxClock, data_err_Next
<1>2. mwr_cut' = FALSE
  BY <1>1, NothingCut DEF DataInv
<1>3. rx_state' = "RD32_WT" => addr' = 1
  BY <1>1, ReadAddressClock DEF DataInv
<1>4. ASSUME rx_state' = "RD32_WT", req_compl_q'
      PROVE  /\ rd_d'.reg = 1
             /\ rd_d'.mwr => mwr_done'
             /\ rd_d'.mrd => mrd_done_o'
             /\ rd_d'.err <=> data_err'
  <2>1. rx_state = "RD32_WT" /\ addr = 1 /\ init_rst = FALSE /\ ~checked
    BY <1>1, <1>4 DEF ReadInv, Handshake, ErrInv, DataInv, Reading
  <2>2. rd_d' = [reg |-> 1, mwr |-> mwr_done, mrd |-> mrd_done_o, err |-> data_err]
    BY <1>1, <2>1 DEF RegisterClock
  <2>3. mwr_done => mwr_done'
    BY <1>1, <2>1, WriteDoneStays
  <2>4. mrd_done_o => mrd_done_o'
    BY <1>1, <2>1 DEF DoneClock, Kept
  <2>5. data_err' <=> data_err
    BY <1>1, <2>1
  <2> QED BY <2>2, <2>3, <2>4, <2>5
<1> QED BY <1>2, <1>3, <1>4 DEF DataInv


StatusInv == HostInv /\ ReadInv /\ SizeInv /\ ErrInv /\ DataInv

LEMMA StatusInvStep ==
  ASSUME MaxStall <= 4, ResetTakes = TRUE, Env \subseteq {"wrongdata", "refused"},
         StatusInv, [EpNext]_epVars
  PROVE  StatusInv'
<1>1. HostInv' /\ ReadInv'
  <2>1. OneReadAtATime
    BY DEF OneReadAtATime
  <2>2. ReadInv'
    BY <2>1, ReadInvStep DEF StatusInv
  <2>3. HostInv'
    BY HostStep DEF StatusInv
  <2> QED BY <2>2, <2>3
<1>2. CASE UNCHANGED epVars
  <2>1. Position' = Position
    BY <1>2 DEF epVars, rx, access, Position
  <2>2. SizeInv'
    BY <1>2, <2>1 DEF StatusInv, SizeInv, AskedSoFar, Total, epVars, vars, inputs, txVars, trace, cpld,
            mem, host
  <2>3. ErrInv' /\ DataInv'
    BY <1>2 DEF StatusInv, ErrInv, DataInv, Reading, epVars, vars, inputs, txVars, writer, trace, cpld,
            mem, rx, host
  <2> QED BY <1>1, <2>2, <2>3 DEF StatusInv
<1>3. ASSUME NEW rdy \in BOOLEAN, NEW ready \in BOOLEAN, EpClock(rdy, ready)
      PROVE  SizeInv' /\ ErrInv' /\ DataInv'
  <2>1. SizeInv'
    BY <1>1, <1>3, SizeInvClock DEF StatusInv, HostInv, ReadInv
  <2>2. ErrInv'
    BY <1>1, <1>3, ErrInvClock DEF StatusInv
  <2>3. DataInv'
    BY <1>1, <1>3, DataInvClock DEF StatusInv
  <2> QED BY <2>1, <2>2, <2>3
<1> QED BY <1>1, <1>2, <1>3, EpClocks DEF StatusInv

LEMMA StatusInvInit == EpInit => StatusInv
<1> SUFFICES ASSUME EpInit PROVE StatusInv
  OBVIOUS
<1>1. HostInv /\ ReadInv
  BY HostInit, ReadInvInit
<1>2. SizeInv
  <2>1. mrd_hdrs = <<>> /\ MrdLen * 0 = 0 /\ Len(mrd_hdrs) = 0
    BY SpanAssumption, TransferAssumption DEF EpInit, Init
  <2>2. AskedSoFar = 0
    BY <2>1 DEF AskedSoFar
  <2>3. Position = 1
    BY DEF EpInit, Position
  <2> QED BY <2>2, <2>3 DEF EpInit, Init, SizeInv
<1>3. ErrInv /\ DataInv
  BY DEF EpInit, Init, ErrInv, DataInv, Reading
<1> QED BY <1>1, <1>2, <1>3 DEF StatusInv

(* The completion of a register read carries that register, and a done bit *)
(* in it is true: every read request of this transfer has been sent and all*)
(* of its data has come, none refused, with the data error told; or every  *)
(* write has been sent.  Of the reads nothing is said when a reset left    *)
(* completions of the transfer before under way (stale): they are counted. *)
(* The done bit of the reads is one clock behind the comparison of         *)
(* the sizes, which is one behind the counter (BMD_EP_MEM.v), so that the  *)
(* comparison alone is true once after every reset pulse.                  *)
THEOREM StatusReal ==
  ASSUME MaxStall <= 4, ResetTakes = TRUE, Env \subseteq {"wrongdata", "refused"}
  PROVE  EpSpec => StatusIsReal
<1> DEFINE Real ==
      tx_state = "CPLD_QW1" /\ tx_state' = "CPLD_WIT"
        => /\ rd_d.reg = addr
           /\ rd_d.mrd /\ ~stale => /\ owed = 0 /\ refused = 0
                                    /\ Len(mrd_hdrs) = MrdCount /\ (wrong <=> rd_d.err)
           /\ rd_d.mwr => Len(mwr_hdrs) = MwrCount
<1>1. EpInit => StatusInv
  BY StatusInvInit
<1>2. StatusInv /\ [EpNext]_epVars => StatusInv'
  BY StatusInvStep
<1>3. StatusInv => Real
  <2> SUFFICES ASSUME StatusInv, tx_state = "CPLD_QW1"
               PROVE  /\ rd_d.reg = addr
                      /\ rd_d.mrd /\ ~stale => /\ owed = 0 /\ refused = 0
                                               /\ Len(mrd_hdrs) = MrdCount /\ (wrong <=> rd_d.err)
                      /\ rd_d.mwr => Len(mwr_hdrs) = MwrCount
    OBVIOUS
  <2>1. /\ rx_state = "RD32_WT" /\ req_compl_q /\ init_rst = FALSE
        /\ CountersOK /\ owed \in Nat /\ cpld_size \in Nat /\ refused \in Nat
    BY DEF StatusInv, ReadInv, Handshake, Reading, PartsOK, TypeOK, FlagsOK, RxTypeOK, SizeTypeOK
  <2>2. /\ addr = 1 /\ rd_d.reg = 1 /\ (rd_d.mwr => mwr_done) /\ (rd_d.mrd => mrd_done_o)
        /\ (rd_d.err <=> data_err) /\ mwr_cut = FALSE
    BY <2>1 DEF StatusInv, DataInv, ReadInv, PartsOK, TypeOK, FlagsOK
  <2>3. ASSUME rd_d.mrd, ~stale
        PROVE  /\ owed = 0 /\ refused = 0
               /\ Len(mrd_hdrs) = MrdCount /\ (wrong <=> rd_d.err)
    <3>1. cpld_size = Total /\ cpld_size + owed + refused = AskedSoFar
      BY <2>1, <2>2, <2>3 DEF StatusInv, SizeInv
    <3>2. /\ AskedSoFar \in Nat /\ Total \in Nat /\ AskedSoFar <= Total
          /\ AskedSoFar = Total => Len(mrd_hdrs) = MrdCount
      BY <2>1, AskedIsBounded DEF StatusInv, HostInv, CountersInv
    <3>3. owed = 0 /\ refused = 0 /\ AskedSoFar = Total
      BY <2>1, <3>1, <3>2
    <3>4. ~checked /\ (wrong <=> data_err \/ checked)
      BY <2>1 DEF StatusInv, ErrInv, Reading
    <3> QED BY <2>2, <3>2, <3>3, <3>4
  <2>4. rd_d.mwr => Len(mwr_hdrs) = MwrCount
    BY <2>1, <2>2 DEF StatusInv, HostInv, CountersInv, WriteCounters
  <2> QED BY <2>2, <2>3, <2>4
<1>4. StatusInv /\ [EpNext]_epVars => [Real]_epVars
  BY <1>3
<1> QED BY <1>1, <1>2, <1>4, PTL DEF EpSpec, StatusIsReal
=============================================================================
