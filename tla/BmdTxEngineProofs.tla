------------------------- MODULE BmdTxEngineProofs -------------------------
(***************************************************************************)
(* What holds of the transmit engine for every transfer: any counts, any   *)
(* lengths, any weights, and the widths of the code's registers.           *)
(***************************************************************************)
EXTENDS BmdTxEngine, TLAPS

(* A multiple of the span below another one stays a whole span below it:   *)
(* the addition in the low address bits cannot leave the address space.    *)
LEMMA MultiplesAreApart ==
  ASSUME NEW L \in Nat \ {0}, NEW q \in Int, NEW k \in Int, q * L < k * L
  PROVE  q * L + L <= k * L
<1>1. q < k
  <2>1. CASE q >= k
    <3>1. (q - k) * L >= 0
      BY <2>1
    <3>2. (q - k) * L = q * L - k * L
      OBVIOUS
    <3> QED BY <3>1, <3>2
  <2> QED BY <2>1
<1>2. (k - q - 1) * L >= 0
  BY <1>1
<1>3. (k - q - 1) * L = k * L - q * L - L
  OBVIOUS
<1> QED BY <1>2, <1>3

LEMMA AddLowType ==
  ASSUME NEW a \in 0..(AddrSpan - 1), NEW n \in Nat
  PROVE  AddLow(a, n) \in 0..(AddrSpan - 1)
<1> USE SpanAssumption, LowBitsAssumption
<1> DEFINE q == a \div LowSpan
           k == AddrSpan \div LowSpan
<1>1. q \in Int /\ k \in Int
  OBVIOUS
<1>2. a - (a % LowSpan) = q * LowSpan
  OBVIOUS
<1>3. AddrSpan = k * LowSpan
  OBVIOUS
<1>4. a % LowSpan \in 0..(LowSpan - 1)
  OBVIOUS
<1>5. (((a % LowSpan) + n) % LowSpan) \in 0..(LowSpan - 1)
  BY <1>4
<1>6. q * LowSpan < k * LowSpan
  BY <1>2, <1>3, <1>4
<1>7. q * LowSpan + LowSpan <= k * LowSpan
  BY <1>1, <1>6, MultiplesAreApart
<1>8. q * LowSpan >= 0
  BY <1>2, <1>4
<1> QED BY <1>2, <1>3, <1>5, <1>7, <1>8 DEF AddLow

LEMMA TmwrAddrType ==
  ASSUME CountersOK PROVE tmwr_addr \in 0..(AddrSpan - 1)
<1> USE SpanAssumption, TransferAssumption
<1>1. mwr_len_byte \in Nat
  BY DEF mwr_len_byte
<1>2. AddLow(pmwr_addr, mwr_len_byte) \in 0..(AddrSpan - 1)
  BY <1>1, AddLowType DEF CountersOK
<1>3. (pmwr_addr + mwr_len_byte) % AddrSpan \in 0..(AddrSpan - 1)
  BY <1>1 DEF CountersOK
<1> QED BY <1>2, <1>3 DEF tmwr_addr

LEMMA TmrdAddrType ==
  ASSUME CountersOK PROVE tmrd_addr \in 0..(AddrSpan - 1)
<1> USE SpanAssumption, TransferAssumption
<1>1. mrd_len_byte \in Nat
  BY DEF mrd_len_byte
<1>2. AddLow(pmrd_addr, mrd_len_byte) \in 0..(AddrSpan - 1)
  BY <1>1, AddLowType DEF CountersOK
<1> QED BY <1>2 DEF tmrd_addr

LEMMA DwAlignedType ==
  ASSUME NEW a \in Nat PROVE DwAligned(a) \in Nat
BY DEF DwAligned

(* The flags and the state stay what they are declared to be.              *)
LEMMA FlagsClock ==
  ASSUME FlagsOK, NEW rdy, NEW dsc, NEW bm, TxClock(rdy, dsc, bm),
         init_rst' \in BOOLEAN, mwr_start' \in BOOLEAN, mrd_start' \in BOOLEAN,
         req_compl' \in BOOLEAN
  PROVE  FlagsOK'
<1>0. TxBranch(rdy, dsc, bm) /\ req_compl_q' = req_compl
  BY DEF TxClock
<1> USE <1>0 DEF FlagsOK, TxStates, Kept, KeepWriter, KeepReader, KeepServ,
         KeepArbiter, KeepCompl, KeepCut, KeepTrace
<1>2. CASE IssueCompletion(rdy, dsc)
  BY <1>2 DEF IssueCompletion
<1>3. CASE IssueWrite(rdy, dsc, bm)
  BY <1>3 DEF IssueWrite, MrdPending
<1>4. CASE IssueRead(rdy, dsc, bm)
  BY <1>4 DEF IssueRead, MwrPending
<1>5. CASE Idle(rdy, dsc, bm)
  BY <1>5 DEF Idle, IdleServ
<1>6. CASE SendCompletion(rdy, dsc)
  BY <1>6 DEF SendCompletion
<1>7. CASE LeaveCompletion(rdy, dsc)
  BY <1>7 DEF LeaveCompletion
<1>8. CASE SendWriteHeader(rdy, dsc)
  BY <1>8 DEF SendWriteHeader
<1>9. CASE SendWrite64Header(rdy, dsc)
  BY <1>9 DEF SendWrite64Header
<1>10. CASE SendWritePayload(rdy, dsc)
  BY <1>10 DEF SendWritePayload
<1>11. CASE SendReadRequest(rdy, dsc)
  BY <1>11 DEF SendReadRequest
<1>12. CASE AbortDma(dsc)
  BY <1>12 DEF AbortDma
<1>13. CASE Stall(rdy, dsc)
  BY <1>13 DEF Stall
<1> QED BY <1>2, <1>3, <1>4, <1>5, <1>6, <1>7, <1>8, <1>9, <1>10,
           <1>11, <1>12, <1>13 DEF TxBranch

LEMMA FlagsStep ==
  ASSUME FlagsOK, [Next]_vars PROVE FlagsOK'
<1>1. CASE UNCHANGED vars
  BY <1>1 DEF vars, inputs, txVars, writer, reader, arbiter, trace, FlagsOK, TxStates
<1>2. CASE Next
  <2> PICK rdy \in BOOLEAN, dsc \in Discontinues, bm \in BusMaster :
             Clock(rdy, dsc, bm)
    BY <1>2 DEF Next
  <2>1. /\ TxClock(rdy, dsc, bm)
        /\ init_rst' \in BOOLEAN /\ mwr_start' \in BOOLEAN
        /\ mrd_start' \in BOOLEAN /\ req_compl' \in BOOLEAN
    BY DEF Clock, RegisterFile, StartDma, BeginReset, HoldReset,
           EndReset, NoAccess, ReadRequest, FlagsOK
  <2> QED BY <2>1, FlagsClock
<1> QED BY <1>1, <1>2

(* The counters and addresses keep the width the code declares.            *)
LEMMA CountersClock ==
  ASSUME CountersOK, NEW rdy, NEW dsc, NEW bm, TxBranch(rdy, dsc, bm) PROVE CountersOK'
<1> USE SpanAssumption, TransferAssumption DEF CountersOK, Kept, KeepWriter, KeepReader, KeepWrr, KeepArbiter, KeepDw,
         KeepHdrs, KeepRows, KeepTrace
<1>1. /\ LongerRow(mwr_row, MwrWrr) \in Nat
      /\ LongerRow(mrd_row, MrdWrr) \in Nat
  BY DEF LongerRow
<1>2. CASE IssueCompletion(rdy, dsc)
  BY <1>2 DEF IssueCompletion
<1>3. CASE IssueWrite(rdy, dsc, bm)
  BY <1>1, <1>3 DEF IssueWrite, WithinWeight
<1>4. CASE IssueRead(rdy, dsc, bm)
  BY <1>1, <1>4 DEF IssueRead, WithinWeight
<1>5. CASE Idle(rdy, dsc, bm)
  BY <1>5 DEF Idle
<1>6. CASE SendCompletion(rdy, dsc)
  BY <1>6 DEF SendCompletion
<1>7. CASE LeaveCompletion(rdy, dsc)
  BY <1>7 DEF LeaveCompletion
<1>8. CASE SendWriteHeader(rdy, dsc)
  <2>1. tmwr_addr \in 0..(AddrSpan - 1) /\ DwAligned(tmwr_addr) \in Nat
    BY TmwrAddrType, DwAlignedType
  <2>2. mwr_hdrs' \in Seq(Nat)
    BY <1>8, <2>1 DEF SendWriteHeader, RecordWrite
  <2> QED BY <1>8, <2>1, <2>2 DEF SendWriteHeader, DwLeft
<1>9. CASE SendWrite64Header(rdy, dsc)
  <2>1. tmwr_addr \in 0..(AddrSpan - 1) /\ DwAligned(tmwr_addr) \in Nat
    BY TmwrAddrType, DwAlignedType
  <2>2. mwr_hdrs' \in Seq(Nat)
    BY <1>9, <2>1 DEF SendWrite64Header, RecordWrite
  <2> QED BY <1>9, <2>1, <2>2 DEF SendWrite64Header
<1>10. CASE SendWritePayload(rdy, dsc)
  BY <1>10 DEF SendWritePayload, DwLeft
<1>11. CASE SendReadRequest(rdy, dsc)
  <2>1. tmrd_addr \in 0..(AddrSpan - 1) /\ DwAligned(tmrd_addr) \in Nat
    BY TmrdAddrType, DwAlignedType
  <2>2. mrd_hdrs' \in Seq(Nat)
    BY <1>11, <2>1 DEF SendReadRequest
  <2> QED BY <1>11, <2>1, <2>2 DEF SendReadRequest
<1>12. CASE AbortDma(dsc)
  BY <1>12 DEF AbortDma
<1>13. CASE Stall(rdy, dsc)
  BY <1>13 DEF Stall
<1> QED BY <1>2, <1>3, <1>4, <1>5, <1>6, <1>7, <1>8, <1>9, <1>10,
           <1>11, <1>12, <1>13 DEF TxBranch

LEMMA CountersStep ==
  ASSUME CountersOK, [Next]_vars PROVE CountersOK'
<1>1. CASE UNCHANGED vars
  BY <1>1 DEF vars, inputs, txVars, writer, reader, arbiter, trace, CountersOK
<1>2. CASE Next
  <2> PICK rdy \in BOOLEAN, dsc \in Discontinues, bm \in BusMaster :
             TxBranch(rdy, dsc, bm)
    BY <1>2 DEF Next, Clock, TxClock
  <2> QED BY CountersClock
<1> QED BY <1>1, <1>2

(* Every register keeps the width the code declares, whatever the host and *)
(* the core do.                                                            *)
THEOREM TypeCorrect == Spec => []TypeOK
<1>1. Init => TypeOK
  <2>1. Init => FlagsOK
    BY DEF Init, FlagsOK, TxStates
  <2>2. Init => CountersOK
    BY SpanAssumption, TransferAssumption DEF Init, CountersOK
  <2> QED BY <2>1, <2>2 DEF TypeOK
<1>2. TypeOK /\ [Next]_vars => TypeOK'
  BY FlagsStep, CountersStep DEF TypeOK
<1> QED BY <1>1, <1>2, PTL DEF Spec
-----------------------------------------------------------------------------
(***************************************************************************)
(* The counters.  A clock either leaves the reset asserted, when nothing   *)
(* is claimed; or runs without reset; or ends a reset pulse that took.     *)
(***************************************************************************)
LEMMA ResetCases ==
  ASSUME ResetTakes = TRUE, RegisterFile
  PROVE  \/ init_rst'
         \/ ~init_rst /\ ~init_rst'
         \/ init_rst /\ ~init_rst' /\ WriterReset' /\ ReaderReset'
BY DEF RegisterFile, StartDma, BeginReset, HoldReset, EndReset, NoAccess

LEMMA ResetForgets ==
  ASSUME init_rst = TRUE, NEW rdy, NEW dsc, NEW bm, TxBranch(rdy, dsc, bm)
  PROVE  mwr_hdrs' = <<>> /\ mrd_hdrs' = <<>> /\ mwr_cut' = FALSE
<1> USE DEF Kept, KeepHdrs, KeepCut, KeepTrace, RecordWrite
<1>1. CASE IssueCompletion(rdy, dsc) BY <1>1 DEF IssueCompletion
<1>2. CASE IssueWrite(rdy, dsc, bm) BY <1>2 DEF IssueWrite
<1>3. CASE IssueRead(rdy, dsc, bm) BY <1>3 DEF IssueRead
<1>4. CASE Idle(rdy, dsc, bm) BY <1>4 DEF Idle
<1>5. CASE SendCompletion(rdy, dsc) BY <1>5 DEF SendCompletion
<1>6. CASE LeaveCompletion(rdy, dsc) BY <1>6 DEF LeaveCompletion
<1>7. CASE SendWriteHeader(rdy, dsc) BY <1>7 DEF SendWriteHeader
<1>8. CASE SendWrite64Header(rdy, dsc) BY <1>8 DEF SendWrite64Header
<1>9. CASE SendWritePayload(rdy, dsc) BY <1>9 DEF SendWritePayload
<1>10. CASE SendReadRequest(rdy, dsc) BY <1>10 DEF SendReadRequest
<1>11. CASE AbortDma(dsc) BY <1>11 DEF AbortDma
<1>12. CASE Stall(rdy, dsc) BY <1>12 DEF Stall
<1> QED BY <1>1, <1>2, <1>3, <1>4, <1>5, <1>6, <1>7, <1>8, <1>9, <1>10,
           <1>11, <1>12 DEF TxBranch

(* What an accepted header adds to the observers when there is no reset.   *)
LEMMA MwrRecorded ==
  ASSUME CountersOK, init_rst = FALSE, mwr_cut = FALSE, RecordWrite
  PROVE  /\ Len(mwr_hdrs') = Len(mwr_hdrs) + 1
         /\ mwr_hdrs'[Len(mwr_hdrs) + 1] = DwAligned(tmwr_addr)
         /\ \A i \in 1..Len(mwr_hdrs) : mwr_hdrs'[i] = mwr_hdrs[i]
<1>1. DwAligned(tmwr_addr) \in Nat
  BY SpanAssumption, TmwrAddrType, DwAlignedType
<1>2. mwr_hdrs' = Append(mwr_hdrs, DwAligned(tmwr_addr)) /\ mwr_hdrs \in Seq(Nat)
  BY DEF RecordWrite, CountersOK
<1> QED BY <1>1, <1>2

LEMMA MrdRecorded ==
  ASSUME CountersOK, init_rst = FALSE,
         mrd_hdrs' = Kept(Append(mrd_hdrs, DwAligned(tmrd_addr)), <<>>)
  PROVE  /\ Len(mrd_hdrs') = Len(mrd_hdrs) + 1
         /\ mrd_hdrs'[Len(mrd_hdrs) + 1] = DwAligned(tmrd_addr)
         /\ \A i \in 1..Len(mrd_hdrs) : mrd_hdrs'[i] = mrd_hdrs[i]
<1>1. DwAligned(tmrd_addr) \in Nat
  BY SpanAssumption, TmrdAddrType, DwAlignedType
<1>2. mrd_hdrs' = Append(mrd_hdrs, DwAligned(tmrd_addr)) /\ mrd_hdrs \in Seq(Nat)
  BY DEF Kept, CountersOK
<1> QED BY <1>1, <1>2

LEMMA ModBelow ==
  ASSUME NEW S \in Nat \ {0}, NEW n \in 0..(S - 1)
  PROVE  n % S = n
OBVIOUS

(* What a header beat does to the counter while the counter and the        *)
(* headers agree: the next TLP, or the last one of one double word.        *)
LEMMA WriteCountersHeader ==
  ASSUME CountersOK, WriteCounters, init_rst = FALSE, mwr_cut = FALSE,
         tx_state \in MwrHeaderStates, RecordWrite, NEW last \in BOOLEAN,
         last => cur_wr_count = (MwrCount - 1) % CountSpan,
         cur_wr_count' = IF last THEN 0 ELSE (cur_wr_count + 1) % CountSpan
  PROVE  /\ mwr_done = FALSE
         /\ Len(mwr_hdrs') = Len(mwr_hdrs) + 1
         /\ last => Len(mwr_hdrs') = MwrCount /\ cur_wr_count' = 0
         /\ ~last => cur_wr_count' = Len(mwr_hdrs') /\ cur_wr_count' <= MwrCount
         /\ cur_wr_count # (MwrCount - 1) % CountSpan => Len(mwr_hdrs') < MwrCount
<1>1. /\ mwr_done = FALSE
      /\ cur_wr_count = Len(mwr_hdrs) /\ cur_wr_count < MwrCount
  BY DEF WriteCounters, MwrHeaderStates
<1>2. Len(mwr_hdrs') = Len(mwr_hdrs) + 1
  BY MwrRecorded
<1>3. /\ MwrCount \in 1..(CountSpan - 1) /\ CountSpan \in Nat \ {0}
      /\ cur_wr_count \in Nat
  BY SpanAssumption, TransferAssumption DEF CountersOK
<1>4. (MwrCount - 1) % CountSpan = MwrCount - 1
  BY <1>3, ModBelow
<1>5. (cur_wr_count + 1) % CountSpan = cur_wr_count + 1
  BY <1>1, <1>3, ModBelow
<1> QED BY <1>1, <1>2, <1>3, <1>4, <1>5

(* A clock without reset preserves the agreement of the write counter.     *)
LEMMA WriteCountersClock ==
  ASSUME CountersOK, FlagsOK, WriteCounters, init_rst = FALSE, init_rst' = FALSE,
         NEW rdy, NEW dsc, NEW bm, TxBranch(rdy, dsc, bm)
  PROVE  WriteCounters'
<1> USE DEF Kept, KeepWriter, KeepHdrs, KeepCut, KeepTrace
<1>0. mwr_cut \in BOOLEAN
  BY DEF FlagsOK
<1>1. CASE IssueCompletion(rdy, dsc)
  BY <1>1 DEF IssueCompletion, WriteCounters, MwrHeaderStates
<1>2. CASE IssueWrite(rdy, dsc, bm)
  BY <1>2 DEF IssueWrite, CanWrite, MwrPending, WriteCounters, MwrHeaderStates
<1>3. CASE IssueRead(rdy, dsc, bm)
  BY <1>3 DEF IssueRead, WriteCounters, MwrHeaderStates
<1>4. CASE Idle(rdy, dsc, bm)
  BY <1>4 DEF Idle, WriteCounters, MwrHeaderStates
<1>5. CASE SendCompletion(rdy, dsc)
  BY <1>5 DEF SendCompletion, WriteCounters, MwrHeaderStates
<1>6. CASE LeaveCompletion(rdy, dsc)
  BY <1>6 DEF LeaveCompletion, WriteCounters, MwrHeaderStates
<1>7. CASE SendWriteHeader(rdy, dsc)
  <2> DEFINE last == OnlyBeat /\ cur_wr_count = (MwrCount - 1) % CountSpan
  <2>1. /\ tx_state \in MwrHeaderStates /\ RecordWrite /\ mwr_cut' = mwr_cut
        /\ cur_wr_count' = IF last THEN 0 ELSE (cur_wr_count + 1) % CountSpan
        /\ mwr_done' = IF last THEN TRUE ELSE mwr_done
        /\ tx_state' = IF OnlyBeat THEN "RST" ELSE "MWR_QWN"
    BY <1>7 DEF SendWriteHeader, LastInHeader, MwrHeaderStates
  <2>2. CASE mwr_cut = FALSE
    <3> HIDE DEF Kept, KeepWriter, KeepHdrs, KeepCut, KeepTrace
    <3>1. last \in BOOLEAN /\ (last => cur_wr_count = (MwrCount - 1) % CountSpan)
      OBVIOUS
    <3> HIDE DEF last
    <3>2. /\ mwr_done = FALSE
          /\ Len(mwr_hdrs') = Len(mwr_hdrs) + 1
          /\ last => Len(mwr_hdrs') = MwrCount /\ cur_wr_count' = 0
          /\ ~last => cur_wr_count' = Len(mwr_hdrs') /\ cur_wr_count' <= MwrCount
          /\ cur_wr_count # (MwrCount - 1) % CountSpan => Len(mwr_hdrs') < MwrCount
      BY <2>1, <2>2, <3>1, WriteCountersHeader
    <3>3. CASE last
      <4>1. tx_state' = "RST"
        BY <2>1, <3>3 DEF last
      <4> QED BY <2>1, <3>2, <3>3, <4>1 DEF WriteCounters, MwrHeaderStates
    <3>4. CASE ~last
      <4>1. OnlyBeat => Len(mwr_hdrs') < MwrCount
        BY <3>2, <3>4 DEF last
      <4> QED BY <2>1, <3>2, <3>4, <4>1 DEF WriteCounters, MwrHeaderStates
    <3> QED BY <3>3, <3>4
  <2>3. CASE mwr_cut = TRUE
    BY <2>1, <2>3 DEF WriteCounters
  <2> QED BY <1>0, <2>2, <2>3
<1>8. CASE SendWrite64Header(rdy, dsc)
  <2>1. /\ tx_state \in MwrHeaderStates /\ RecordWrite /\ mwr_cut' = mwr_cut
        /\ cur_wr_count' = IF FALSE THEN 0 ELSE (cur_wr_count + 1) % CountSpan
        /\ mwr_done' = mwr_done /\ tx_state' = "MWR_QWN"
    BY <1>8 DEF SendWrite64Header, MwrHeaderStates
  <2>2. CASE mwr_cut = FALSE
    <3>1. /\ mwr_done = FALSE
          /\ cur_wr_count' = Len(mwr_hdrs') /\ cur_wr_count' <= MwrCount
      BY <2>1, <2>2, WriteCountersHeader
    <3> QED BY <2>1, <3>1 DEF WriteCounters, MwrHeaderStates
  <2>3. CASE mwr_cut = TRUE
    BY <2>1, <2>3 DEF WriteCounters
  <2> QED BY <1>0, <2>2, <2>3
<1>9. CASE SendWritePayload(rdy, dsc)
  <2>1. MwrCount \in Nat \ {0} /\ cur_wr_count \in Nat
    BY SpanAssumption, TransferAssumption DEF CountersOK
  <2> QED BY <1>9, <2>1 DEF SendWritePayload, LastInPayload, EndOfTlp,
                     WriteCounters, MwrHeaderStates
<1>10. CASE SendReadRequest(rdy, dsc)
  BY <1>10 DEF SendReadRequest, WriteCounters, MwrHeaderStates
<1>11. CASE AbortDma(dsc)
  BY <1>11 DEF AbortDma, WriteCounters, MwrHeaderStates
<1>12. CASE Stall(rdy, dsc)
  BY <1>12 DEF Stall, WriteCounters, MwrHeaderStates
<1> QED BY <1>1, <1>2, <1>3, <1>4, <1>5, <1>6, <1>7, <1>8, <1>9, <1>10,
           <1>11, <1>12 DEF TxBranch

(* The counter of the reads agrees with the requests after a clock outside *)
(* of a reset pulse, also when it is the last one before the pulse.        *)
ReadsAgree ==
  IF mrd_done
    THEN cur_rd_count = 0 /\ Len(mrd_hdrs) = MrdCount /\ tx_state # "MRD_QW1"
    ELSE cur_rd_count = Len(mrd_hdrs) + 1 /\ Len(mrd_hdrs) < MrdCount

LEMMA ReadsAgreeClock ==
  ASSUME CountersOK, ReadsAgree, init_rst = FALSE,
         NEW rdy, NEW dsc, NEW bm, TxBranch(rdy, dsc, bm)
  PROVE  ReadsAgree'
<1> USE SpanAssumption, TransferAssumption
    DEF CountersOK, ReadsAgree, MwrHeaderStates, Kept, KeepReader, KeepHdrs,
        KeepTrace
<1>1. CASE IssueCompletion(rdy, dsc) BY <1>1 DEF IssueCompletion
<1>2. CASE IssueWrite(rdy, dsc, bm) BY <1>2 DEF IssueWrite
<1>3. CASE IssueRead(rdy, dsc, bm)
  BY <1>3 DEF IssueRead, CanRead, MrdPending
<1>4. CASE Idle(rdy, dsc, bm) BY <1>4 DEF Idle
<1>5. CASE SendCompletion(rdy, dsc) BY <1>5 DEF SendCompletion
<1>6. CASE LeaveCompletion(rdy, dsc) BY <1>6 DEF LeaveCompletion
<1>7. CASE SendWriteHeader(rdy, dsc) BY <1>7 DEF SendWriteHeader
<1>8. CASE SendWrite64Header(rdy, dsc) BY <1>8 DEF SendWrite64Header
<1>9. CASE SendWritePayload(rdy, dsc) BY <1>9 DEF SendWritePayload
<1>10. CASE SendReadRequest(rdy, dsc)
  <2>1. Len(mrd_hdrs') = Len(mrd_hdrs) + 1
    BY <1>10, MrdRecorded DEF SendReadRequest
  <2>2. /\ mrd_done = FALSE /\ cur_rd_count = Len(mrd_hdrs) + 1
        /\ Len(mrd_hdrs) < MrdCount
    BY <1>10 DEF SendReadRequest
  <2>3. (cur_rd_count + 1) % CountSpan = cur_rd_count + 1 \/ cur_rd_count = MrdCount
    BY <2>2, ModBelow
  <2>4. tx_state' # "MRD_QW1"
    BY <1>10 DEF SendReadRequest
  <2>5. CASE cur_rd_count = MrdCount
    <3>1. mrd_done' = TRUE /\ cur_rd_count' = 0
      BY <1>10, <2>5 DEF SendReadRequest, LastRead
    <3> QED BY <2>1, <2>2, <2>4, <2>5, <3>1
  <2>6. CASE cur_rd_count # MrdCount
    <3>1. mrd_done' = FALSE /\ cur_rd_count' = (cur_rd_count + 1) % CountSpan
      BY <1>10, <2>2, <2>6 DEF SendReadRequest, LastRead
    <3> QED BY <2>1, <2>2, <2>3, <2>6, <3>1
  <2> QED BY <2>5, <2>6
<1>11. CASE AbortDma(dsc) BY <1>11 DEF AbortDma
<1>12. CASE Stall(rdy, dsc) BY <1>12 DEF Stall
<1> QED BY <1>1, <1>2, <1>3, <1>4, <1>5, <1>6, <1>7, <1>8, <1>9, <1>10,
           <1>11, <1>12 DEF TxBranch

LEMMA ReadCountersClock ==
  ASSUME CountersOK, ReadCounters, init_rst = FALSE, init_rst' = FALSE,
         NEW rdy, NEW dsc, NEW bm, TxBranch(rdy, dsc, bm)
  PROVE  ReadCounters'
BY ReadsAgreeClock DEF ReadCounters, ReadsAgree

CountersInv == TypeOK /\ WriteCounters /\ ReadCounters

LEMMA CountersInvInit == Init => CountersInv
<1>1. ASSUME Init PROVE TypeOK
  <2>1. FlagsOK BY <1>1 DEF Init, FlagsOK, TxStates
  <2>2. CountersOK
    BY <1>1, SpanAssumption, TransferAssumption DEF Init, CountersOK
  <2> QED BY <2>1, <2>2 DEF TypeOK
<1>2. ASSUME Init PROVE WriteCounters /\ ReadCounters
  BY <1>2, SpanAssumption, TransferAssumption
  DEF Init, WriteCounters, ReadCounters, MwrHeaderStates
<1> QED BY <1>1, <1>2 DEF CountersInv

LEMMA CountersInvStep ==
  ASSUME ResetTakes = TRUE, CountersInv, [Next]_vars
  PROVE  CountersInv'
<1> USE DEF CountersInv
<1>1. TypeOK'
  BY FlagsStep, CountersStep DEF TypeOK
<1>2. CASE UNCHANGED vars
  BY <1>1, <1>2 DEF vars, inputs, txVars, writer, reader, arbiter, trace,
                    WriteCounters, ReadCounters
<1>3. CASE Next
  <2> PICK rdy \in BOOLEAN, dsc \in Discontinues, bm \in BusMaster :
             TxBranch(rdy, dsc, bm) /\ RegisterFile
    BY <1>3 DEF Next, Clock, TxClock
  <2>1. init_rst \in BOOLEAN /\ init_rst' \in BOOLEAN
    BY <1>1 DEF TypeOK, FlagsOK
  <2>2. CASE init_rst' = TRUE
    BY <1>1, <2>2 DEF WriteCounters, ReadCounters
  <2>3. CASE init_rst = FALSE /\ init_rst' = FALSE
    BY <1>1, <2>3, WriteCountersClock, ReadCountersClock DEF TypeOK
  <2>4. CASE init_rst = TRUE /\ init_rst' = FALSE
    <3>1. WriterReset' /\ ReaderReset'
      BY <2>4, ResetCases
    <3>2. mwr_hdrs' = <<>> /\ mrd_hdrs' = <<>> /\ mwr_cut' = FALSE
      BY <2>4, ResetForgets
    <3>3. MwrCount > 0 /\ MrdCount > 0
      BY SpanAssumption, TransferAssumption
    <3>4. Len(mwr_hdrs') = 0 /\ Len(mrd_hdrs') = 0
      BY <3>2
    <3>5. WriteCounters'
      BY <3>1, <3>3, <3>4, TransferAssumption
      DEF WriteCounters, WriterReset, MwrHeaderStates
    <3>6. ReadCounters'
      BY <3>1, <3>3, <3>4 DEF ReadCounters, ReaderReset
    <3> QED BY <1>1, <3>5, <3>6
  <2> QED BY <2>1, <2>2, <2>3, <2>4
<1> QED BY <1>2, <1>3

(* Over every interleaving of stalls, completions, reads, discontinued     *)
(* TLPs and reset pulses that take, the write initiator reports done       *)
(* exactly with its last TLP.                                              *)
THEOREM WriteDone ==
  ASSUME ResetTakes = TRUE PROVE Spec => []WriteDoneIsExact
<1>1. Init => CountersInv
  BY CountersInvInit
<1>2. CountersInv /\ [Next]_vars => CountersInv'
  BY CountersInvStep
<1>3. CountersInv => WriteDoneIsExact
  <2> SUFFICES ASSUME CountersInv PROVE WriteDoneIsExact
    OBVIOUS
  <2>1. MwrCount \in Nat /\ Len(mwr_hdrs) \in Nat
    BY SpanAssumption, TransferAssumption DEF CountersInv, TypeOK, CountersOK
  <2>2. WriteCounters /\ mwr_done \in BOOLEAN
    BY DEF CountersInv, TypeOK, FlagsOK
  <2>3. CASE mwr_done = TRUE
    BY <2>1, <2>2, <2>3 DEF WriteCounters, WriteDoneIsExact
  <2>4. CASE mwr_done = FALSE
    BY <2>1, <2>2, <2>4 DEF WriteCounters, WriteDoneIsExact
  <2> QED BY <2>2, <2>3, <2>4
<1> QED BY <1>1, <1>2, <1>3, PTL DEF Spec

(* The same for the read initiator, which never sends a request too many.  *)
THEOREM ReadRequests ==
  ASSUME ResetTakes = TRUE PROVE Spec => []ReadRequestsAreExact
<1>1. Init => CountersInv
  BY CountersInvInit
<1>2. CountersInv /\ [Next]_vars => CountersInv'
  BY CountersInvStep
<1>3. CountersInv => ReadRequestsAreExact
  <2> SUFFICES ASSUME CountersInv PROVE ReadRequestsAreExact
    OBVIOUS
  <2>1. MrdCount \in Nat /\ Len(mrd_hdrs) \in Nat
    BY SpanAssumption, TransferAssumption DEF CountersInv, TypeOK, CountersOK
  <2>2. ReadCounters /\ mrd_done \in BOOLEAN
    BY DEF CountersInv, TypeOK, FlagsOK
  <2>3. CASE mrd_done = TRUE
    BY <2>1, <2>2, <2>3 DEF ReadCounters, ReadRequestsAreExact
  <2>4. CASE mrd_done = FALSE
    BY <2>1, <2>2, <2>4 DEF ReadCounters, ReadRequestsAreExact
  <2> QED BY <2>2, <2>3, <2>4
<1> QED BY <1>1, <1>2, <1>3, PTL DEF Spec
=============================================================================
