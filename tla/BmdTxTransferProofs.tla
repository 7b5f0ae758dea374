------------------------ MODULE BmdTxTransferProofs ------------------------
(***************************************************************************)
(* What a transfer of the transmit engine puts on the bus, for every count,*)
(* length, address and weight: the addresses of its TLPs, the payload of   *)
(* its writes, and how the initiators take turns.                          *)
(***************************************************************************)
EXTENDS BmdTxEngineProofs

(* The buffers end below the last address the engine can form: writes with *)
(* 32-bit addresses add in the whole address, 64-bit writes and all reads  *)
(* in its low bits only.                                                   *)
WriteBufferFits ==
  IF Mwr64 THEN (MwrAddr % LowSpan) + (MwrCount - 1) * mwr_len_byte < LowSpan
           ELSE MwrAddr + (MwrCount - 1) * mwr_len_byte < AddrSpan
ReadBufferFits == (MrdAddr % LowSpan) + (MrdCount - 1) * mrd_len_byte < LowSpan
BuffersFit == WriteBufferFits /\ ReadBufferFits
-----------------------------------------------------------------------------
(***************************************************************************)
(* Arithmetic.                                                             *)
(***************************************************************************)
(* Adding in the low bits is adding while the low bits do not overflow.    *)
LEMMA LowBitsAdd ==
  ASSUME NEW a \in Nat, NEW k \in Nat, (a % LowSpan) + k < LowSpan
  PROVE  (a + k) % LowSpan = (a % LowSpan) + k
<1> DEFINE L == LowSpan
           p == a \div L
           q == (a + k) \div L
           r == (a + k) % L
<1>0. L \in Nat \ {0}
  BY SpanAssumption
<1>1. /\ p \in Int /\ q \in Int /\ r \in 0..(L - 1)
      /\ a = p * L + (a % L) /\ a + k = q * L + r /\ a % L \in Nat
  BY <1>0
<1> HIDE DEF L, p, q, r
<1>2. p * L \in Int /\ q * L \in Int
  BY <1>0, <1>1
<1>3. q * L + r = p * L + ((a % L) + k)
  BY <1>1, <1>2
<1>4. ~(p * L < q * L)
  <2> SUFFICES ASSUME p * L < q * L PROVE FALSE
    OBVIOUS
  <2>1. p * L + L <= q * L
    BY <1>0, <1>1, MultiplesAreApart
  <2>2. (a % L) + k < L
    BY DEF L
  <2> QED BY <1>0, <1>1, <1>3, <2>1, <2>2
<1>5. ~(q * L < p * L)
  <2> SUFFICES ASSUME q * L < p * L PROVE FALSE
    OBVIOUS
  <2>1. q * L + L <= p * L
    BY <1>0, <1>1, MultiplesAreApart
  <2> QED BY <1>0, <1>1, <1>3, <2>1
<1> QED BY <1>1, <1>3, <1>4, <1>5, <1>2 DEF r, L

LEMMA AddLowExact ==
  ASSUME NEW a \in Nat, NEW n \in Nat, (a % LowSpan) + n < LowSpan
  PROVE  AddLow(a, n) = a + n
<1>1. LowSpan \in Nat \ {0} /\ a % LowSpan \in Nat
  BY SpanAssumption
<1>2. ((a % LowSpan) + n) % LowSpan = (a % LowSpan) + n
  BY <1>1, ModBelow
<1> QED BY <1>1, <1>2 DEF AddLow

(* The n-th of count TLPs of b bytes.                                      *)
LEMMA TlpOffsets ==
  ASSUME NEW b \in Nat, NEW n \in Nat \ {0}, NEW count \in Nat, n < count
  PROVE  /\ (n - 1) * b + b = n * b
         /\ (n - 1) * b \in Nat /\ n * b \in Nat /\ (count - 1) * b \in Nat
         /\ n * b <= (count - 1) * b
<1>1. (n - 1) * b + b = n * b
  OBVIOUS
<1>2. (n - 1) * b \in Nat /\ n * b \in Nat /\ (count - 1) * b \in Nat
  <2>1. \A x, y \in Nat : x * y \in Nat
    OBVIOUS
  <2> QED BY <2>1
<1>3. (count - 1 - n) * b \in Nat
  <2>1. \A x, y \in Nat : x * y \in Nat
    OBVIOUS
  <2> QED BY <2>1
<1>4. (count - 1 - n) * b = (count - 1) * b - n * b
  OBVIOUS
<1> QED BY <1>1, <1>2, <1>3, <1>4

(* Addresses of whole double words keep their alignment.                   *)
LEMMA TlpAligned ==
  ASSUME NEW a \in Nat, a % 4 = 0, NEW n \in Nat, NEW len \in Nat
  PROVE  a + n * (4 * len) \in Nat /\ DwAligned(a + n * (4 * len)) = a + n * (4 * len)
<1>1. n * len \in Nat /\ n * (4 * len) = 4 * (n * len)
  OBVIOUS
<1> DEFINE k == n * len
<1>2. (a + 4 * k) % 4 = 0
  <2> HIDE DEF k
  <2>1. k \in Nat
    BY <1>1 DEF k
  <2> QED BY <2>1
<1>3. a + n * (4 * len) = a + 4 * k /\ k \in Nat
  BY <1>1
<1> HIDE DEF k
<1> QED BY <1>2, <1>3 DEF DwAligned
-----------------------------------------------------------------------------
(***************************************************************************)
(* Addresses.                                                              *)
(***************************************************************************)
(* While no write was cut, the address of the next header follows from the *)
(* number of headers sent.                                                 *)
LEMMA NextWriteAddress ==
  ASSUME WriteBufferFits, CountersOK, WriteAddresses, init_rst = FALSE, mwr_cut = FALSE,
         cur_wr_count < MwrCount
  PROVE  /\ tmwr_addr = MwrAddr + cur_wr_count * mwr_len_byte
         /\ DwAligned(tmwr_addr) = tmwr_addr
<1> DEFINE n == cur_wr_count
           b == mwr_len_byte
<1>1. /\ n \in Nat /\ b \in Nat /\ MwrCount \in Nat /\ MwrAddr \in Nat /\ AddrSpan \in Nat \ {0}
      /\ b = 4 * MwrLen /\ MwrLen \in Nat /\ n < MwrCount /\ MwrAddr % 4 = 0
  BY SpanAssumption, TransferAssumption, AlignAssumption DEF CountersOK, mwr_len_byte
<1>2. MwrAddr + n * b \in Nat /\ DwAligned(MwrAddr + n * b) = MwrAddr + n * b
  BY <1>1, TlpAligned
<1>3. CASE n = 0
  <2>1. n * b = 0
    BY <1>1, <1>3
  <2> QED BY <1>1, <1>2, <1>3, <2>1 DEF tmwr_addr
<1>4. CASE n # 0
  <2>1. pmwr_addr = MwrAddr + (n - 1) * b /\ pmwr_addr \in Nat
    BY <1>1, <1>4, SpanAssumption DEF WriteAddresses, CountersOK
  <2>2. /\ (n - 1) * b + b = n * b /\ (n - 1) * b \in Nat /\ n * b \in Nat
        /\ (MwrCount - 1) * b \in Nat /\ n * b <= (MwrCount - 1) * b
    BY <1>1, <1>4, TlpOffsets
  <2>3. tmwr_addr = IF Mwr64 THEN AddLow(pmwr_addr, b) ELSE (pmwr_addr + b) % AddrSpan
    BY <1>4 DEF tmwr_addr
  <2>4. CASE Mwr64
    <3>1. (MwrAddr % LowSpan) + (MwrCount - 1) * b < LowSpan /\ MwrAddr % LowSpan \in Nat
      BY <1>1, <2>4, SpanAssumption DEF WriteBufferFits
    <3> HIDE DEF n, b
    <3>2. (MwrAddr % LowSpan) + (n - 1) * b < LowSpan
      BY <1>1, <2>2, <3>1, SpanAssumption
    <3>3. pmwr_addr % LowSpan = (MwrAddr % LowSpan) + (n - 1) * b
      BY <1>1, <2>1, <2>2, <3>2, LowBitsAdd
    <3>4. (pmwr_addr % LowSpan) + b < LowSpan
      BY <1>1, <2>2, <3>1, <3>3, SpanAssumption
    <3>5. AddLow(pmwr_addr, b) = pmwr_addr + b
      BY <1>1, <2>1, <3>4, AddLowExact
    <3>6. tmwr_addr = MwrAddr + n * b
      BY <1>1, <2>1, <2>2, <2>3, <2>4, <3>5
    <3> QED BY <1>2, <3>6 DEF n, b
  <2>5. CASE ~Mwr64
    <3>1. MwrAddr + (MwrCount - 1) * b < AddrSpan
      BY <2>5 DEF WriteBufferFits
    <3> HIDE DEF n, b
    <3>2. pmwr_addr + b = MwrAddr + n * b
      BY <1>1, <2>1, <2>2
    <3>3. MwrAddr + n * b \in 0..(AddrSpan - 1)
      BY <1>1, <2>2, <3>1
    <3>4. tmwr_addr = MwrAddr + n * b
      BY <1>1, <2>3, <2>5, <3>2, <3>3, ModBelow
    <3> QED BY <1>2, <3>4 DEF n, b
  <2> QED BY <2>4, <2>5
<1> QED BY <1>3, <1>4

(* The same for the next read request.                                     *)
LEMMA NextReadAddress ==
  ASSUME ReadBufferFits, CountersOK, ReadAddresses, init_rst = FALSE,
         NEW n \in Nat, cur_rd_count = n + 1, n < MrdCount
  PROVE  /\ tmrd_addr = MrdAddr + n * mrd_len_byte
         /\ DwAligned(tmrd_addr) = tmrd_addr
<1> DEFINE b == mrd_len_byte
<1>1. /\ b \in Nat /\ MrdCount \in Nat /\ MrdAddr \in Nat
      /\ b = 4 * MrdLen /\ MrdLen \in Nat /\ MrdAddr % 4 = 0
  BY SpanAssumption, TransferAssumption, AlignAssumption DEF mrd_len_byte
<1>2. MrdAddr + n * b \in Nat /\ DwAligned(MrdAddr + n * b) = MrdAddr + n * b
  BY <1>1, TlpAligned
<1>3. CASE n = 0
  <2>1. n * b = 0
    BY <1>1, <1>3
  <2> QED BY <1>1, <1>2, <1>3, <2>1 DEF tmrd_addr
<1>4. CASE n # 0
  <2>1. pmrd_addr = MrdAddr + (n - 1) * b /\ pmrd_addr \in Nat
    BY <1>1, <1>4, SpanAssumption DEF ReadAddresses, CountersOK
  <2>2. /\ (n - 1) * b + b = n * b /\ (n - 1) * b \in Nat /\ n * b \in Nat
        /\ (MrdCount - 1) * b \in Nat /\ n * b <= (MrdCount - 1) * b
    BY <1>1, <1>4, TlpOffsets
  <2>3. tmrd_addr = AddLow(pmrd_addr, b)
    BY <1>4 DEF tmrd_addr
  <2>4. (MrdAddr % LowSpan) + (MrdCount - 1) * b < LowSpan /\ MrdAddr % LowSpan \in Nat
    BY <1>1, SpanAssumption DEF ReadBufferFits
  <2> HIDE DEF b
  <2>5. (MrdAddr % LowSpan) + (n - 1) * b < LowSpan
    BY <1>1, <2>2, <2>4, SpanAssumption
  <2>6. pmrd_addr % LowSpan = (MrdAddr % LowSpan) + (n - 1) * b
    BY <1>1, <2>1, <2>2, <2>5, LowBitsAdd
  <2>7. (pmrd_addr % LowSpan) + b < LowSpan
    BY <1>1, <2>2, <2>4, <2>6, SpanAssumption
  <2>8. AddLow(pmrd_addr, b) = pmrd_addr + b
    BY <1>1, <2>1, <2>7, AddLowExact
  <2>9. tmrd_addr = MrdAddr + n * b
    BY <1>1, <2>1, <2>2, <2>3, <2>8
  <2> QED BY <1>2, <2>9 DEF b
<1> QED BY <1>3, <1>4

(* A header that the observer records goes where the buffer continues.     *)
LEMMA WriteAddressesHeader ==
  ASSUME WriteBufferFits, CountersOK, CountersOK', WriteCounters, WriteAddresses,
         init_rst = FALSE, init_rst' = FALSE, mwr_cut \in BOOLEAN, mwr_cut' = mwr_cut,
         tx_state \in MwrHeaderStates, RecordWrite, pmwr_addr' = tmwr_addr,
         cur_wr_count' \in {0, (cur_wr_count + 1) % CountSpan}
  PROVE  WriteAddresses'
<1>1. CASE mwr_cut = TRUE
  BY <1>1 DEF RecordWrite, WriteAddresses, WritesTileTheBuffer
<1>2. CASE mwr_cut = FALSE
  <2>1. /\ cur_wr_count = Len(mwr_hdrs) /\ cur_wr_count < MwrCount
        /\ cur_wr_count \in Nat /\ MwrCount \in 1..(CountSpan - 1) /\ CountSpan \in Nat \ {0}
    BY <1>2, SpanAssumption, TransferAssumption DEF WriteCounters, MwrHeaderStates, CountersOK
  <2>2. /\ tmwr_addr = MwrAddr + cur_wr_count * mwr_len_byte
        /\ DwAligned(tmwr_addr) = tmwr_addr
    BY <1>2, <2>1, NextWriteAddress
  <2>3. /\ Len(mwr_hdrs') = Len(mwr_hdrs) + 1
        /\ mwr_hdrs'[Len(mwr_hdrs) + 1] = DwAligned(tmwr_addr)
        /\ \A i \in 1..Len(mwr_hdrs) : mwr_hdrs'[i] = mwr_hdrs[i]
    BY <1>2, MwrRecorded
  <2>4. (cur_wr_count + 1) % CountSpan = cur_wr_count + 1
    BY <2>1, ModBelow
  <2>5. WritesTileTheBuffer'
    <3> SUFFICES ASSUME NEW i \in 1..Len(mwr_hdrs')
                 PROVE  mwr_hdrs'[i] = MwrAddr + (i - 1) * mwr_len_byte
      BY DEF WritesTileTheBuffer, mwr_len_byte
    <3>1. CASE i <= Len(mwr_hdrs)
      <4>1. i \in 1..Len(mwr_hdrs)
        BY <2>1, <2>3, <3>1
      <4> QED BY <2>3, <4>1 DEF WriteAddresses, WritesTileTheBuffer
    <3>2. CASE ~(i <= Len(mwr_hdrs))
      <4>1. i = cur_wr_count + 1 /\ i - 1 = cur_wr_count
        BY <2>1, <2>3, <3>2
      <4> QED BY <2>1, <2>2, <2>3, <4>1
    <3> QED BY <3>1, <3>2
  <2>6. ASSUME cur_wr_count' > 0
        PROVE  pmwr_addr' = MwrAddr + (cur_wr_count' - 1) * mwr_len_byte
    <3>1. cur_wr_count' = cur_wr_count + 1
      BY <2>4, <2>6
    <3>2. cur_wr_count' - 1 = cur_wr_count
      BY <2>1, <3>1
    <3> QED BY <2>2, <3>2
  <2> QED BY <2>5, <2>6 DEF WriteAddresses, mwr_len_byte
<1> QED BY <1>1, <1>2

LEMMA WriteAddressesClock ==
  ASSUME WriteBufferFits, FlagsOK, CountersOK, CountersOK', WriteCounters, WriteAddresses,
         init_rst = FALSE, init_rst' = FALSE, NEW rdy, NEW dsc, NEW bm, TxBranch(rdy, dsc, bm)
  PROVE  WriteAddresses'
<1> USE DEF Kept, KeepWriter, KeepHdrs, KeepCut, KeepTrace, mwr_len_byte
<1>0. mwr_cut \in BOOLEAN
  BY DEF FlagsOK
<1>1. ASSUME mwr_hdrs' = mwr_hdrs, mwr_cut' = mwr_cut, pmwr_addr' = pmwr_addr,
             cur_wr_count' \in {0, cur_wr_count}
      PROVE  WriteAddresses'
  BY <1>1 DEF WriteAddresses, WritesTileTheBuffer
<1>2. CASE IssueCompletion(rdy, dsc) BY <1>1, <1>2 DEF IssueCompletion
<1>3. CASE IssueWrite(rdy, dsc, bm) BY <1>1, <1>3 DEF IssueWrite
<1>4. CASE IssueRead(rdy, dsc, bm) BY <1>1, <1>4 DEF IssueRead
<1>5. CASE Idle(rdy, dsc, bm) BY <1>1, <1>5 DEF Idle
<1>6. CASE SendCompletion(rdy, dsc) BY <1>1, <1>6 DEF SendCompletion
<1>7. CASE LeaveCompletion(rdy, dsc) BY <1>1, <1>7 DEF LeaveCompletion
<1>8. CASE SendWriteHeader(rdy, dsc)
  BY <1>0, <1>8, WriteAddressesHeader DEF SendWriteHeader, MwrHeaderStates
<1>9. CASE SendWrite64Header(rdy, dsc)
  BY <1>0, <1>9, WriteAddressesHeader DEF SendWrite64Header, MwrHeaderStates
<1>10. CASE SendWritePayload(rdy, dsc) BY <1>1, <1>10 DEF SendWritePayload
<1>11. CASE SendReadRequest(rdy, dsc) BY <1>1, <1>11 DEF SendReadRequest
<1>12. CASE AbortDma(dsc)
  <2>1. /\ mwr_hdrs' = mwr_hdrs /\ pmwr_addr' = pmwr_addr /\ cur_wr_count' = cur_wr_count
        /\ mwr_cut' = mwr_cut \/ mwr_cut' = TRUE
    BY <1>0, <1>12 DEF AbortDma
  <2> QED BY <1>1, <2>1 DEF WriteAddresses, WritesTileTheBuffer
<1>13. CASE Stall(rdy, dsc) BY <1>1, <1>13 DEF Stall
<1> QED BY <1>2, <1>3, <1>4, <1>5, <1>6, <1>7, <1>8, <1>9, <1>10, <1>11,
           <1>12, <1>13 DEF TxBranch

LEMMA ReadAddressesClock ==
  ASSUME ReadBufferFits, CountersOK, ReadCounters, ReadAddresses,
         init_rst = FALSE, init_rst' = FALSE, NEW rdy, NEW dsc, NEW bm, TxBranch(rdy, dsc, bm)
  PROVE  ReadAddresses'
<1> USE DEF Kept, KeepReader, KeepHdrs, KeepTrace
<1>1. ASSUME mrd_hdrs' = mrd_hdrs, pmrd_addr' = pmrd_addr, cur_rd_count' = cur_rd_count
      PROVE  ReadAddresses'
  BY <1>1 DEF ReadAddresses, ReadsTileTheBuffer, mrd_len_byte
<1>2. CASE IssueCompletion(rdy, dsc) BY <1>1, <1>2 DEF IssueCompletion
<1>3. CASE IssueWrite(rdy, dsc, bm) BY <1>1, <1>3 DEF IssueWrite
<1>4. CASE IssueRead(rdy, dsc, bm) BY <1>1, <1>4 DEF IssueRead
<1>5. CASE Idle(rdy, dsc, bm) BY <1>1, <1>5 DEF Idle
<1>6. CASE SendCompletion(rdy, dsc) BY <1>1, <1>6 DEF SendCompletion
<1>7. CASE LeaveCompletion(rdy, dsc) BY <1>1, <1>7 DEF LeaveCompletion
<1>8. CASE SendWriteHeader(rdy, dsc) BY <1>1, <1>8 DEF SendWriteHeader
<1>9. CASE SendWrite64Header(rdy, dsc) BY <1>1, <1>9 DEF SendWrite64Header
<1>10. CASE SendWritePayload(rdy, dsc) BY <1>1, <1>10 DEF SendWritePayload
<1>11. CASE SendReadRequest(rdy, dsc)
  <2> DEFINE n == Len(mrd_hdrs)
  <2>1. /\ n \in Nat /\ cur_rd_count = n + 1 /\ n < MrdCount
        /\ MrdCount \in 1..(CountSpan - 1) /\ CountSpan \in Nat \ {0}
    BY <1>11, SpanAssumption, TransferAssumption
    DEF SendReadRequest, ReadCounters, CountersOK
  <2>2. tmrd_addr = MrdAddr + n * mrd_len_byte /\ DwAligned(tmrd_addr) = tmrd_addr
    BY <2>1, NextReadAddress
  <2>3. /\ Len(mrd_hdrs') = n + 1 /\ mrd_hdrs'[n + 1] = DwAligned(tmrd_addr)
        /\ \A i \in 1..n : mrd_hdrs'[i] = mrd_hdrs[i]
    BY <1>11, MrdRecorded DEF SendReadRequest
  <2>4. cur_rd_count' \in {0, n + 2} /\ pmrd_addr' = tmrd_addr
    <3>1. cur_rd_count # MrdCount => (cur_rd_count + 1) % CountSpan = n + 2
      BY <2>1, ModBelow
    <3>2. cur_rd_count' = IF cur_rd_count = MrdCount THEN 0 ELSE (cur_rd_count + 1) % CountSpan
      BY <1>11 DEF SendReadRequest, LastRead
    <3>3. pmrd_addr' = tmrd_addr
      BY <1>11 DEF SendReadRequest
    <3> QED BY <3>1, <3>2, <3>3
  <2> HIDE DEF n
  <2>5. ReadsTileTheBuffer'
    <3> SUFFICES ASSUME NEW i \in 1..Len(mrd_hdrs')
                 PROVE  mrd_hdrs'[i] = MrdAddr + (i - 1) * mrd_len_byte
      BY DEF ReadsTileTheBuffer, mrd_len_byte
    <3>1. CASE i <= n
      <4>1. i \in 1..n
        BY <2>1, <2>3, <3>1
      <4> QED BY <2>3, <4>1 DEF ReadAddresses, ReadsTileTheBuffer, n
    <3>2. CASE ~(i <= n)
      <4>1. i = n + 1 /\ i - 1 = n
        BY <2>1, <2>3, <3>2
      <4> QED BY <2>2, <2>3, <4>1
    <3> QED BY <3>1, <3>2
  <2>6. ASSUME cur_rd_count' > 1
        PROVE  pmrd_addr' = MrdAddr + (cur_rd_count' - 2) * mrd_len_byte
    <3>1. cur_rd_count' = n + 2
      BY <2>4, <2>6
    <3>2. cur_rd_count' - 2 = n
      BY <2>1, <3>1
    <3> QED BY <2>2, <2>4, <3>2
  <2> QED BY <2>5, <2>6 DEF ReadAddresses, mrd_len_byte
<1>12. CASE AbortDma(dsc) BY <1>1, <1>12 DEF AbortDma
<1>13. CASE Stall(rdy, dsc) BY <1>1, <1>13 DEF Stall
<1> QED BY <1>2, <1>3, <1>4, <1>5, <1>6, <1>7, <1>8, <1>9, <1>10, <1>11,
           <1>12, <1>13 DEF TxBranch
-----------------------------------------------------------------------------
(***************************************************************************)
(* Payload.                                                                *)
(***************************************************************************)
(* What a beat leaves: the counter of 2^10 double words stands at 0 for    *)
(* 2^10 of them.                                                           *)
LEMMA PayloadLess ==
  ASSUME CountersOK, NEW n \in {1, 2}, ~(cur_mwr_dw_count \in 1..n)
  PROVE  /\ DwLeft(n) \in 1..(DwSpan - 1)
         /\ DwLeft(n) = PayloadLeft - n
<1>1. DwSpan \in Nat /\ DwSpan > 3 /\ cur_mwr_dw_count \in 0..(DwSpan - 1)
  BY SpanAssumption DEF CountersOK
<1>2. CASE cur_mwr_dw_count = 0
  <2>1. (0 - n) % DwSpan = DwSpan - n
    <3>1. \A q \in Int, r \in 0..(DwSpan - 1) : q = -1 => (q * DwSpan + r) % DwSpan = r
      BY <1>1
    <3> QED BY <1>1, <3>1
  <2> QED BY <1>1, <1>2, <2>1 DEF DwLeft, PayloadLeft
<1>3. CASE cur_mwr_dw_count # 0
  <2>1. cur_mwr_dw_count - n \in 1..(DwSpan - 1)
    BY <1>1, <1>3
  <2>2. (cur_mwr_dw_count - n) % DwSpan = cur_mwr_dw_count - n
    BY <1>1, <2>1, ModBelow
  <2> QED BY <1>1, <1>3, <2>1, <2>2 DEF DwLeft, PayloadLeft
<1> QED BY <1>2, <1>3

LEMMA WritePayloadClock ==
  ASSUME FlagsOK, CountersOK, CountersOK', WritePayload, init_rst = FALSE, init_rst' = FALSE,
         NEW rdy, NEW dsc, NEW bm, TxBranch(rdy, dsc, bm)
  PROVE  WritePayload'
<1> USE DEF Kept, KeepDw, KeepHdrs, KeepCut, KeepTrace
<1>0. /\ MwrLen \in 1..DwSpan /\ DwSpan \in Nat /\ DwSpan > 3
      /\ cur_mwr_dw_count \in 0..(DwSpan - 1) /\ cur_mwr_dw_count' \in 0..(DwSpan - 1)
      /\ mwr_dws \in Nat /\ mwr_cut \in BOOLEAN
  BY SpanAssumption, TransferAssumption DEF CountersOK, FlagsOK
<1>1. ASSUME mwr_hdrs' = mwr_hdrs, mwr_cut' = mwr_cut, mwr_dws' = mwr_dws,
             cur_mwr_dw_count' = cur_mwr_dw_count,
             tx_state' \in MwrHeaderStates \cup {"MWR_QWN"} => tx_state' = tx_state,
             tx_state = "MWR_QWN" => tx_state' = tx_state
      PROVE  WritePayload'
  BY <1>1 DEF WritePayload, PayloadLeft, MwrHeaderStates
<1>2. CASE IssueCompletion(rdy, dsc)
  BY <1>1, <1>2 DEF IssueCompletion, MwrHeaderStates
<1>3. CASE IssueWrite(rdy, dsc, bm)
  <2>1. PayloadLeft' = MwrLen
    <3>1. CASE MwrLen = DwSpan
      <4>1. MwrLen % DwSpan = 0
        BY <1>0, <3>1
      <4> QED BY <1>3, <3>1, <4>1 DEF IssueWrite, PayloadLeft
    <3>2. CASE MwrLen # DwSpan
      <4>1. MwrLen % DwSpan = MwrLen
        BY <1>0, <3>2, ModBelow
      <4> QED BY <1>0, <1>3, <4>1 DEF IssueWrite, PayloadLeft
    <3> QED BY <3>1, <3>2
  <2>2. /\ tx_state = "RST" /\ tx_state' \in MwrHeaderStates /\ mwr_hdrs' = mwr_hdrs
        /\ mwr_cut' = mwr_cut /\ mwr_dws' = mwr_dws
    BY <1>3 DEF IssueWrite, MwrHeaderStates
  <2> QED BY <2>1, <2>2 DEF WritePayload, MwrHeaderStates
<1>4. CASE IssueRead(rdy, dsc, bm)
  BY <1>1, <1>4 DEF IssueRead, MwrHeaderStates
<1>5. CASE Idle(rdy, dsc, bm)
  BY <1>1, <1>5 DEF Idle, MwrHeaderStates
<1>6. CASE SendCompletion(rdy, dsc)
  BY <1>1, <1>6 DEF SendCompletion, MwrHeaderStates
<1>7. CASE LeaveCompletion(rdy, dsc)
  BY <1>1, <1>7 DEF LeaveCompletion, MwrHeaderStates
<1>8. CASE SendWriteHeader(rdy, dsc)
  <2>1. /\ tx_state = "MWR_QW1" /\ mwr_cut' = mwr_cut /\ mwr_dws' = 1
        /\ tx_state' = IF OnlyBeat THEN "RST" ELSE "MWR_QWN"
        /\ cur_mwr_dw_count' = DwLeft(1)
    BY <1>8 DEF SendWriteHeader
  <2>2. CASE mwr_cut = TRUE
    BY <2>1, <2>2 DEF WritePayload
  <2>3. CASE mwr_cut = FALSE
    <3>1. PayloadLeft = MwrLen
      BY <2>1, <2>3 DEF WritePayload, MwrHeaderStates
    <3>2. CASE OnlyBeat
      <4>1. MwrLen = 1
        BY <3>1, <3>2 DEF OnlyBeat, PayloadLeft
      <4> QED BY <2>1, <3>2, <4>1 DEF WritePayload, MwrHeaderStates
    <3>3. CASE ~OnlyBeat
      <4>1. ~(cur_mwr_dw_count \in 1..1)
        BY <1>0, <3>3 DEF OnlyBeat
      <4>2. DwLeft(1) \in 1..(DwSpan - 1) /\ DwLeft(1) = PayloadLeft - 1
        BY <4>1, PayloadLess
      <4>3. PayloadLeft' = MwrLen - 1
        BY <1>0, <2>1, <3>1, <4>2 DEF PayloadLeft
      <4>4. 1 + (MwrLen - 1) = MwrLen
        BY <1>0
      <4> QED BY <2>1, <3>3, <4>3, <4>4 DEF WritePayload, MwrHeaderStates
    <3> QED BY <3>2, <3>3
  <2> QED BY <1>0, <2>2, <2>3
<1>9. CASE SendWrite64Header(rdy, dsc)
  <2>1. /\ tx_state = "MWR64_QW1" /\ mwr_cut' = mwr_cut /\ mwr_dws' = 0
        /\ tx_state' = "MWR_QWN" /\ cur_mwr_dw_count' = cur_mwr_dw_count
    BY <1>9 DEF SendWrite64Header
  <2>2. ~mwr_cut => PayloadLeft' = MwrLen
    BY <2>1 DEF WritePayload, MwrHeaderStates, PayloadLeft
  <2>3. 0 + MwrLen = MwrLen
    BY <1>0
  <2> QED BY <2>1, <2>2, <2>3 DEF WritePayload, MwrHeaderStates
<1>10. CASE SendWritePayload(rdy, dsc)
  <2> DEFINE sent == IF cur_mwr_dw_count = 1 THEN 1 ELSE 2
  <2>1. /\ tx_state = "MWR_QWN" /\ mwr_cut' = mwr_cut /\ mwr_hdrs' = mwr_hdrs
        /\ tx_state' = IF EndOfTlp THEN "RST" ELSE "MWR_QWN"
        /\ mwr_dws' = IF mwr_dws > MwrLen THEN mwr_dws ELSE mwr_dws + sent
        /\ cur_mwr_dw_count' = DwLeft(sent)
    BY <1>10 DEF SendWritePayload
  <2>2. SUFFICES ASSUME mwr_cut = FALSE, mwr_hdrs # <<>>
                 PROVE  WritePayload'
    BY <1>0, <2>1 DEF WritePayload, MwrHeaderStates
  <2>3. mwr_dws + PayloadLeft = MwrLen /\ PayloadLeft \in Nat
    BY <1>0, <2>1, <2>2 DEF WritePayload, PayloadLeft
  <2>4. mwr_dws' = mwr_dws + sent
    BY <1>0, <2>1, <2>3
  <2>5. CASE EndOfTlp
    <3>1. sent = PayloadLeft
      BY <2>5 DEF EndOfTlp, PayloadLeft
    <3>2. tx_state' = "RST" /\ mwr_dws' = MwrLen
      BY <2>1, <2>3, <2>4, <2>5, <3>1
    <3>3. MwrLen + 0 = MwrLen
      BY <1>0
    <3> QED BY <3>2, <3>3 DEF WritePayload, MwrHeaderStates
  <2>6. CASE ~EndOfTlp
    <3>1. ~(cur_mwr_dw_count \in 1..2) /\ sent = 2
      BY <1>0, <2>6 DEF EndOfTlp
    <3>2. DwLeft(2) \in 1..(DwSpan - 1) /\ DwLeft(2) = PayloadLeft - 2
      BY <3>1, PayloadLess
    <3>3. tx_state' = "MWR_QWN" /\ PayloadLeft' = PayloadLeft - 2 /\ mwr_dws' = mwr_dws + 2
      BY <1>0, <2>1, <2>4, <2>6, <3>1, <3>2 DEF PayloadLeft
    <3>4. (mwr_dws + 2) + (PayloadLeft - 2) = MwrLen
      BY <1>0, <2>3
    <3> QED BY <3>3, <3>4 DEF WritePayload, MwrHeaderStates
  <2> QED BY <2>5, <2>6
<1>11. CASE SendReadRequest(rdy, dsc)
  BY <1>1, <1>11 DEF SendReadRequest, MwrHeaderStates
<1>12. CASE AbortDma(dsc)
  <2>1. /\ mwr_hdrs' = mwr_hdrs /\ mwr_dws' = mwr_dws /\ tx_state' = "RST"
        /\ cur_mwr_dw_count' = cur_mwr_dw_count
        /\ tx_state = "MWR_QWN" => mwr_cut' = TRUE
        /\ tx_state # "MWR_QWN" => mwr_cut' = mwr_cut
    BY <1>0, <1>12 DEF AbortDma
  <2>2. CASE tx_state = "MWR_QWN"
    BY <2>1, <2>2 DEF WritePayload
  <2>3. CASE tx_state # "MWR_QWN"
    BY <1>1, <2>1, <2>3 DEF MwrHeaderStates
  <2> QED BY <2>2, <2>3
<1>13. CASE Stall(rdy, dsc)
  BY <1>1, <1>13 DEF Stall, MwrHeaderStates
<1> QED BY <1>2, <1>3, <1>4, <1>5, <1>6, <1>7, <1>8, <1>9, <1>10, <1>11,
           <1>12, <1>13 DEF TxBranch

LEMMA WritePayloadStep ==
  ASSUME ResetTakes = TRUE, TypeOK, TypeOK', WritePayload, [Next]_vars
  PROVE  WritePayload'
<1>1. CASE UNCHANGED vars
  BY <1>1 DEF vars, inputs, txVars, trace, WritePayload, PayloadLeft
<1>2. CASE Next
  <2> PICK rdy \in BOOLEAN, dsc \in Discontinues, bm \in BusMaster :
             TxBranch(rdy, dsc, bm) /\ RegisterFile
    BY <1>2 DEF Next, Clock, TxClock
  <2>1. CASE init_rst' = TRUE
    BY <2>1 DEF WritePayload
  <2>2. CASE init_rst = FALSE /\ init_rst' = FALSE
    BY <2>2, WritePayloadClock DEF TypeOK
  <2>3. CASE init_rst = TRUE /\ init_rst' = FALSE
    BY <2>3, ResetCases, ResetForgets DEF WritePayload, WriterReset, MwrHeaderStates
  <2> QED BY <2>1, <2>2, <2>3 DEF TypeOK, FlagsOK
<1> QED BY <1>1, <1>2

(* A write has as much payload as its header announces, whatever stalls    *)
(* fall into it and whatever the addresses are.                            *)
THEOREM PayloadExact ==
  ASSUME ResetTakes = TRUE PROVE Spec => []PayloadMatchesHeader
<1>1. Init => WritePayload
  BY DEF Init, WritePayload, MwrHeaderStates
<1>2. TypeOK /\ TypeOK' /\ WritePayload /\ [Next]_vars => WritePayload'
  BY WritePayloadStep
<1>3. ASSUME TypeOK, WritePayload PROVE PayloadMatchesHeader
  <2>1. mwr_dws + 0 = mwr_dws
    BY <1>3 DEF TypeOK, CountersOK
  <2> QED BY <1>3, <2>1 DEF WritePayload, PayloadMatchesHeader
<1> QED BY <1>1, <1>2, <1>3, TypeCorrect, PTL DEF Spec
-----------------------------------------------------------------------------
(***************************************************************************)
(* All of a transfer.                                                      *)
(***************************************************************************)
LEMMA TransferInvInit == Init => TypeOK /\ TransferInv
<1> SUFFICES ASSUME Init PROVE TypeOK /\ TransferInv
  OBVIOUS
<1>1. TypeOK /\ WriteCounters /\ ReadCounters
  BY CountersInvInit DEF CountersInv
<1>2. mwr_hdrs = <<>> /\ mrd_hdrs = <<>> /\ Len(mwr_hdrs) = 0 /\ Len(mrd_hdrs) = 0
  BY DEF Init
<1>3. 1..Len(mwr_hdrs) = {} /\ 1..Len(mrd_hdrs) = {}
  BY <1>2
<1>4. WriteAddresses
  BY <1>3 DEF Init, WriteAddresses, WritesTileTheBuffer
<1>5. ReadAddresses
  BY <1>3 DEF Init, ReadAddresses, ReadsTileTheBuffer
<1>6. WritePayload
  BY <1>2 DEF Init, WritePayload, MwrHeaderStates
<1> QED BY <1>1, <1>4, <1>5, <1>6 DEF TransferInv

LEMMA TransferInvStep ==
  ASSUME ResetTakes = TRUE, BuffersFit, TypeOK, TransferInv, [Next]_vars
  PROVE  TypeOK' /\ TransferInv'
<1> USE DEF TransferInv, BuffersFit, TypeOK
<1>1. TypeOK' /\ WriteCounters' /\ ReadCounters' /\ WritePayload'
  BY CountersInvStep, WritePayloadStep DEF CountersInv
<1>2. CASE UNCHANGED vars
  BY <1>1, <1>2 DEF vars, inputs, txVars, writer, reader, arbiter, trace, WriteAddresses,
     ReadAddresses, WritesTileTheBuffer, ReadsTileTheBuffer, mwr_len_byte, mrd_len_byte
<1>3. CASE Next
  <2> PICK rdy \in BOOLEAN, dsc \in Discontinues, bm \in BusMaster :
             TxBranch(rdy, dsc, bm) /\ RegisterFile
    BY <1>3 DEF Next, Clock, TxClock
  <2>1. init_rst \in BOOLEAN /\ init_rst' \in BOOLEAN
    BY <1>1 DEF FlagsOK
  <2>2. CASE init_rst' = TRUE
    BY <1>1, <2>2 DEF WriteAddresses, ReadAddresses, WritesTileTheBuffer, ReadsTileTheBuffer
  <2>3. CASE init_rst = FALSE /\ init_rst' = FALSE
    BY <1>1, <2>3, WriteAddressesClock, ReadAddressesClock
  <2>4. CASE init_rst = TRUE /\ init_rst' = FALSE
    <3>1. WriterReset' /\ ReaderReset' /\ mwr_hdrs' = <<>> /\ mrd_hdrs' = <<>>
      BY <2>4, ResetCases, ResetForgets
    <3>2. 1..Len(mwr_hdrs') = {} /\ 1..Len(mrd_hdrs') = {}
      BY <3>1
    <3>3. WriteAddresses'
      BY <3>1, <3>2 DEF WriteAddresses, WritesTileTheBuffer, WriterReset
    <3>4. ReadAddresses'
      BY <3>1, <3>2 DEF ReadAddresses, ReadsTileTheBuffer, ReaderReset
    <3> QED BY <1>1, <3>3, <3>4
  <2> QED BY <2>1, <2>2, <2>3, <2>4
<1> QED BY <1>2, <1>3

(* Every header of a transfer carries the address at which the buffer      *)
(* continues, every write the payload its header announces, and the        *)
(* counters agree with what was sent: for every count, length, weight and  *)
(* register width, for buffers the engine can address, over every          *)
(* interleaving of stalls, cut TLPs, completions and resets that take.     *)
THEOREM TransferCorrect ==
  ASSUME ResetTakes = TRUE, BuffersFit PROVE Spec => []TransferInv
<1>1. Init => TypeOK /\ TransferInv
  BY TransferInvInit
<1>2. TypeOK /\ TransferInv /\ [Next]_vars => (TypeOK /\ TransferInv)'
  BY TransferInvStep
<1> QED BY <1>1, <1>2, PTL DEF Spec

(* What the bus sees of it: the TLPs cover the buffers without gap or      *)
(* overlap and there are no more of them than fit (the writes up to the    *)
(* first that is cut behind its header), also when the core cuts some.     *)
THEOREM TransfersCover ==
  ASSUME ResetTakes = TRUE, BuffersFit PROVE Spec => []TransfersTile
<1>1. TypeOK /\ TransferInv => TransfersTile
  <2> SUFFICES ASSUME TypeOK, TransferInv PROVE TransfersTile
    OBVIOUS
  <2>1. WritesTileTheBuffer /\ ReadsTileTheBuffer
    BY DEF TransferInv, WriteAddresses, ReadAddresses
  <2>2. ASSUME ~init_rst, ~mwr_cut PROVE Len(mwr_hdrs) <= MwrCount
    BY <2>2, SpanAssumption, TransferAssumption
    DEF TypeOK, CountersOK, FlagsOK, TransferInv, WriteCounters
  <2>3. ASSUME ~init_rst PROVE Len(mrd_hdrs) <= MrdCount
    BY <2>3, SpanAssumption, TransferAssumption
    DEF TypeOK, CountersOK, FlagsOK, TransferInv, ReadCounters
  <2> QED BY <2>1, <2>2, <2>3 DEF TransfersTile, NothingOutside
<1> QED BY <1>1, TransferCorrect, TypeCorrect, PTL
-----------------------------------------------------------------------------
(***************************************************************************)
(* Turns.  While the core cuts nothing and bus mastering stays enabled, a  *)
(* service bit that waits for a pending initiator is found by it.          *)
(***************************************************************************)
RowInv ==
  /\ tmwr_wrr_cnt <= MwrWrr /\ tmrd_wrr_cnt <= MrdWrr
  /\ \/ mwr_row <= tmwr_wrr_cnt
     \/ mwr_row <= MwrWrr + 1 /\ ~serv_mwr /\ serv_mrd /\ MrdPending
  /\ \/ mrd_row <= tmrd_wrr_cnt
     \/ mrd_row <= MrdWrr + 1 /\ ~serv_mrd /\ serv_mwr /\ MwrPending
  /\ tx_state = "MRD_QW1" => mwr_row = 0
  /\ tx_state \in MwrHeaderStates \cup {"MWR_QWN"} => mrd_row = 0

(* Outside of a reset nobody clears a start bit.                           *)
LEMMA StartBitsStay ==
  ASSUME RegisterFile, FlagsOK, init_rst = FALSE
  PROVE  (mwr_start => mwr_start') /\ (mrd_start => mrd_start')
BY DEF FlagsOK, RegisterFile, StartDma, BeginReset, HoldReset, EndReset, NoAccess

LEMMA RowInvClock ==
  ASSUME TypeOK, RowInv, RegisterFile, NEW rdy \in BOOLEAN, TxBranch(rdy, FALSE, TRUE)
  PROVE  RowInv'
<1> USE DEF Kept, KeepServ, KeepWrr, KeepArbiter, KeepRows, KeepTrace, KeepWriter, KeepReader,
        MwrHeaderStates
<1>0. /\ MwrWrr \in 0..(WrrSpan - 1) /\ MrdWrr \in 0..(WrrSpan - 1) /\ WrrSpan \in Nat \ {0}
      /\ tmwr_wrr_cnt \in Nat /\ tmrd_wrr_cnt \in Nat /\ mwr_row \in Nat /\ mrd_row \in Nat
      /\ init_rst \in BOOLEAN /\ mwr_done \in BOOLEAN /\ mrd_done \in BOOLEAN
      /\ serv_mwr \in BOOLEAN /\ serv_mrd \in BOOLEAN
  BY SpanAssumption, TransferAssumption DEF TypeOK, FlagsOK, CountersOK
<1>1. ~init_rst => (mwr_start => mwr_start') /\ (mrd_start => mrd_start')
  BY <1>0, StartBitsStay DEF TypeOK
(* A branch that keeps the arbiter, and ends no transfer that another      *)
(* initiator waits for.                                                    *)
<1>2. ASSUME serv_mwr' = Kept(serv_mwr, TRUE), serv_mrd' = Kept(serv_mrd, TRUE),
             tmwr_wrr_cnt' = Kept(tmwr_wrr_cnt, 0), tmrd_wrr_cnt' = Kept(tmrd_wrr_cnt, 0),
             mwr_row' = Kept(mwr_row, 0), mrd_row' = Kept(mrd_row, 0),
             ~init_rst => mwr_done' = mwr_done \/ mrd_row = 0,
             ~init_rst => mrd_done' = mrd_done \/ mwr_row = 0,
             tx_state' = "MRD_QW1" => tx_state = "MRD_QW1",
             tx_state' \in MwrHeaderStates \cup {"MWR_QWN"}
               => tx_state \in MwrHeaderStates \cup {"MWR_QWN"}
      PROVE  RowInv'
  <2>1. CASE init_rst
    BY <1>0, <1>2, <2>1 DEF RowInv
  <2>2. CASE ~init_rst
    BY <1>0, <1>1, <1>2, <2>2 DEF RowInv, MwrPending, MrdPending
  <2> QED BY <2>1, <2>2
<1>3. CASE IssueCompletion(rdy, FALSE)
  BY <1>2, <1>3 DEF IssueCompletion
<1>4. CASE IssueWrite(rdy, FALSE, TRUE)
  <2>1. /\ tx_state' \in MwrHeaderStates /\ mrd_row' = 0 /\ serv_mwr
        /\ mwr_done' = Kept(mwr_done, FALSE) /\ mrd_done' = Kept(mrd_done, FALSE)
        /\ mwr_row' = IF MrdPending /\ ~init_rst THEN LongerRow(mwr_row, MwrWrr) ELSE 0
    BY <1>4 DEF IssueWrite, CanWrite
  <2>2. mwr_row <= tmwr_wrr_cnt /\ tmwr_wrr_cnt <= MwrWrr /\ tmrd_wrr_cnt' <= MrdWrr
        /\ tmrd_wrr_cnt' \in Nat
    BY <1>0, <1>4, <2>1 DEF RowInv, IssueWrite
  <2>3. mwr_row' \in Nat /\ mwr_row' <= tmwr_wrr_cnt + 1
    BY <1>0, <2>1, <2>2 DEF LongerRow
  <2>4. CASE WithinWeight(tmwr_wrr_cnt, MwrWrr)
    <3>1. tmwr_wrr_cnt + 1 <= MwrWrr /\ (tmwr_wrr_cnt + 1) % WrrSpan = tmwr_wrr_cnt + 1
      BY <1>0, <2>2, <2>4, ModBelow DEF WithinWeight
    <3>2. tmwr_wrr_cnt' = tmwr_wrr_cnt + 1
      BY <1>4, <2>4, <3>1 DEF IssueWrite
    <3> QED BY <1>0, <2>1, <2>2, <2>3, <3>1, <3>2 DEF RowInv
  <2>5. CASE ~WithinWeight(tmwr_wrr_cnt, MwrWrr)
    <3>1. tmwr_wrr_cnt' = 0 /\ ~serv_mwr' /\ serv_mrd' = MrdPending /\ tmwr_wrr_cnt = MwrWrr
      BY <1>4, <2>5 DEF IssueWrite, WithinWeight
    <3>2. MrdPending /\ ~init_rst => MrdPending'
      BY <1>0, <1>1, <2>1 DEF MrdPending
    <3> QED BY <1>0, <2>1, <2>2, <2>3, <3>1, <3>2 DEF RowInv
  <2> QED BY <2>4, <2>5
<1>5. CASE IssueRead(rdy, FALSE, TRUE)
  <2>1. /\ tx_state' = "MRD_QW1" /\ mwr_row' = 0 /\ serv_mrd
        /\ mwr_done' = Kept(mwr_done, FALSE) /\ mrd_done' = Kept(mrd_done, FALSE)
        /\ mrd_row' = IF MwrPending /\ ~init_rst THEN LongerRow(mrd_row, MrdWrr) ELSE 0
    BY <1>5 DEF IssueRead, CanRead
  <2>2. mrd_row <= tmrd_wrr_cnt /\ tmrd_wrr_cnt <= MrdWrr /\ tmwr_wrr_cnt' <= MwrWrr
        /\ tmwr_wrr_cnt' \in Nat
    BY <1>0, <1>5, <2>1 DEF RowInv, IssueRead
  <2>3. mrd_row' \in Nat /\ mrd_row' <= tmrd_wrr_cnt + 1
    BY <1>0, <2>1, <2>2 DEF LongerRow
  <2>4. CASE WithinWeight(tmrd_wrr_cnt, MrdWrr)
    <3>1. tmrd_wrr_cnt + 1 <= MrdWrr /\ (tmrd_wrr_cnt + 1) % WrrSpan = tmrd_wrr_cnt + 1
      BY <1>0, <2>2, <2>4, ModBelow DEF WithinWeight
    <3>2. tmrd_wrr_cnt' = tmrd_wrr_cnt + 1
      BY <1>5, <2>4, <3>1 DEF IssueRead
    <3> QED BY <1>0, <2>1, <2>2, <2>3, <3>1, <3>2 DEF RowInv
  <2>5. CASE ~WithinWeight(tmrd_wrr_cnt, MrdWrr)
    <3>1. tmrd_wrr_cnt' = 0 /\ ~serv_mrd' /\ serv_mwr' = MwrPending /\ tmrd_wrr_cnt = MrdWrr
      BY <1>5, <2>5 DEF IssueRead, WithinWeight
    <3>2. MwrPending /\ ~init_rst => MwrPending'
      BY <1>0, <1>1, <2>1 DEF MwrPending
    <3> QED BY <1>0, <2>1, <2>2, <2>3, <3>1, <3>2 DEF RowInv
  <2> QED BY <2>4, <2>5
<1>6. CASE Idle(rdy, FALSE, TRUE)
  <2>1. CASE rdy = FALSE
    BY <1>2, <1>6, <2>1 DEF Idle, IdleServ
  <2>2. CASE rdy = TRUE /\ ~init_rst
    <3>1. ~(MwrPending /\ serv_mwr) /\ ~(MrdPending /\ serv_mrd)
      BY <1>6, <2>2 DEF Idle, CanWrite, CanRead
    <3>2. mwr_row <= tmwr_wrr_cnt /\ mrd_row <= tmrd_wrr_cnt
      BY <3>1 DEF RowInv
    <3> QED BY <1>6, <2>2, <3>2 DEF Idle, RowInv
  <2>3. CASE init_rst
    BY <1>0, <1>6, <2>3 DEF Idle, RowInv
  <2> QED BY <1>0, <2>1, <2>2, <2>3
<1>7. CASE SendCompletion(rdy, FALSE)
  BY <1>2, <1>7 DEF SendCompletion
<1>8. CASE LeaveCompletion(rdy, FALSE)
  BY <1>2, <1>8 DEF LeaveCompletion
<1>9. CASE SendWriteHeader(rdy, FALSE)
  BY <1>2, <1>9 DEF SendWriteHeader, RowInv
<1>10. CASE SendWrite64Header(rdy, FALSE)
  BY <1>2, <1>10 DEF SendWrite64Header, RowInv
<1>11. CASE SendWritePayload(rdy, FALSE)
  BY <1>2, <1>11 DEF SendWritePayload, RowInv
<1>12. CASE SendReadRequest(rdy, FALSE)
  BY <1>2, <1>12 DEF SendReadRequest, RowInv
<1>13. CASE AbortDma(FALSE)
  BY <1>13 DEF AbortDma
<1>14. CASE Stall(rdy, FALSE)
  BY <1>2, <1>14 DEF Stall
<1> QED BY <1>3, <1>4, <1>5, <1>6, <1>7, <1>8, <1>9, <1>10, <1>11, <1>12,
           <1>13, <1>14 DEF TxBranch

(* Weighted round robin: while one initiator waits, the other one sends at *)
(* most its weight plus one TLPs, for every pair of weights, while the core*)
(* cuts nothing and bus mastering stays enabled.  (A clock in which the    *)
(* core discontinues, or without bus mastering, hands the turn back.)      *)
THEOREM RoundRobinFair ==
  ASSUME DstDiscontinues = FALSE, BusMasterToggles = FALSE PROVE Spec => []WeightBoundsTheRow
<1>1. Init => RowInv
  BY TransferAssumption, SpanAssumption DEF Init, RowInv, MwrHeaderStates
<1>2. TypeOK /\ RowInv /\ [Next]_vars => RowInv'
  <2> SUFFICES ASSUME TypeOK, RowInv, [Next]_vars PROVE RowInv'
    OBVIOUS
  <2>1. CASE UNCHANGED vars
    BY <2>1 DEF vars, inputs, txVars, writer, reader, arbiter, trace, RowInv, MwrPending, MrdPending
  <2>2. CASE Next
    <3> PICK rdy \in BOOLEAN : TxBranch(rdy, FALSE, TRUE) /\ RegisterFile
      BY <2>2 DEF Next, Clock, TxClock, Discontinues, BusMaster
    <3> QED BY RowInvClock
  <2> QED BY <2>1, <2>2
<1>3. ASSUME TypeOK, RowInv PROVE WeightBoundsTheRow
  BY <1>3, TransferAssumption, SpanAssumption DEF TypeOK, CountersOK, RowInv, WeightBoundsTheRow
<1> QED BY <1>1, <1>2, <1>3, TypeCorrect, PTL DEF Spec
=============================================================================
