------------------------- MODULE BmdEndpointProofs -------------------------
(***************************************************************************)
(* What holds of the endpoint for every transfer, every pattern of stalls  *)
(* and interrupts, and everything the host may write.                      *)
(***************************************************************************)
EXTENDS BmdEndpoint, BmdTxTransferProofs

(* The types, but for the host's counters, whose bounds need more.         *)
RxTypeOK ==
  /\ rx_state \in RxStates /\ dst_rdy \in BOOLEAN /\ addr \in {0, 1, 18}
  /\ wr_en \in BOOLEAN /\ wr_data \in Writes
  /\ malformed \in BOOLEAN /\ checked \in BOOLEAN /\ wrong \in BOOLEAN
MemTypeOK ==
  /\ mem_state \in {"RST", "READ", "WRITE"} /\ mem_write_en \in BOOLEAN
  /\ mem_wr_data \in Writes /\ legacyclr \in BOOLEAN
  /\ rd_d \in [reg : {0, 1, 18}, mwr : BOOLEAN, mrd : BOOLEAN, err : BOOLEAN]
  /\ cpld_done \in BOOLEAN /\ mrd_done_o \in BOOLEAN /\ data_err \in BOOLEAN
IntrTypeOK ==
  /\ msi \in BOOLEAN /\ intr_state \in {"RST", "RD", "WR"}
  /\ rd_intr \in {"RST", "ACT", "ACT2", "DUN"} /\ wr_intr \in {"RST", "ACT", "ACT2", "DUN"}
  /\ trn_pending \in BOOLEAN /\ turnoff_ok \in BOOLEAN
  /\ intx \in BOOLEAN /\ orphan \in BOOLEAN
HostTypeOK ==
  stall \in 0..MaxStall /\ stale \in BOOLEAN /\ accepted \in Writes \cup {"none"}
SizeTypeOK ==
  /\ cpld_size \in Nat /\ cpld_tlp_size \in 0..(CplSpan - 1)
  /\ cpld_real_size \in 0..(CplSpan - 1)
  /\ expect \in 0..(SizeSpan - 1) /\ size_q \in 0..(SizeSpan - 1)
  /\ asked \in Nat /\ owed \in Nat /\ refused \in Nat
  /\ togo \in 0..MrdLen /\ (rx_state \in {"CPLD_QW1", "CPLD_QWN"} => togo # 0)
PartsOK == TypeOK /\ RxTypeOK /\ MemTypeOK /\ IntrTypeOK /\ HostTypeOK /\ SizeTypeOK

(* A step of the endpoint is a clock, or nothing happens.                  *)
LEMMA EpClocks ==
  ASSUME [EpNext]_epVars
  PROVE  (\E rdy, ready \in BOOLEAN : EpClock(rdy, ready)) \/ UNCHANGED epVars
BY DEF EpNext

LEMMA RxTypeClock ==
  ASSUME RxTypeOK, FlagsOK, RxClock
  PROVE  RxTypeOK' /\ req_compl' \in BOOLEAN
<1> USE DEF RxTypeOK, FlagsOK, RxStates, Writes, NoPio, NoCpld, KeepReal, NoData, Kept
<1>0. \A w \in Writes : RegisterOf(w) \in {0, 1, 18}
  BY DEF RegisterOf
<1>1. HostWrites \subseteq Writes
  BY DEF HostWrites, HostStarts, HostResets, HostClears
<1>2. CASE RxIdle BY <1>2 DEF RxIdle
<1>3. CASE RxRead BY <1>3 DEF RxRead
<1>4. CASE RxWrite BY <1>4 DEF RxWrite
<1>5. CASE RxReadAddress BY <1>5 DEF RxReadAddress
<1>6. CASE RxReadWait BY <1>6 DEF RxReadWait
<1>7. CASE RxWriteData BY <1>0, <1>1, <1>7 DEF RxWriteData
<1>8. CASE RxWriteWait BY <1>8 DEF RxWriteWait
<1>9. CASE RxCpldFirst BY <1>9 DEF RxCpldFirst, Beat
<1>10. CASE RxCpldNext
  <2>1. PICK n : Beat(n) /\ rx_state' \in RxStates /\ malformed' \in BOOLEAN
    BY <1>10 DEF RxCpldNext
  <2> QED BY <2>1 DEF Beat
<1>11. CASE RxGap BY <1>11 DEF RxGap
<1>12. ASSUME NEW n \in 1..MrdLen, RxCpld(n) \/ RxCpl(n)
       PROVE  RxTypeOK' /\ req_compl' \in BOOLEAN
  BY <1>12 DEF RxCpld, RxCpl
<1>13. CASE RxCplEnd BY <1>13 DEF RxCplEnd
<1> QED BY <1>2, <1>3, <1>4, <1>5, <1>6, <1>7, <1>8, <1>9, <1>10, <1>11, <1>12, <1>13 DEF RxClock

LEMMA MemTypeClock ==
  ASSUME MemTypeOK, RxTypeOK, FlagsOK, AccessClock, RegisterClock, DoneClock,
         data_err' = data_err_Next
  PROVE  MemTypeOK' /\ init_rst' \in BOOLEAN /\ mwr_start' \in BOOLEAN /\ mrd_start' \in BOOLEAN
<1> USE DEF MemTypeOK, RxTypeOK, FlagsOK
<1>1. mem_state' \in {"RST", "READ", "WRITE"} /\ mem_write_en' \in BOOLEAN /\ mem_wr_data' \in Writes
  BY DEF AccessClock
<1>2. init_rst' \in BOOLEAN /\ legacyclr' \in BOOLEAN
  <2>1. init_rst' \in BOOLEAN
    BY Zenon DEF RegisterClock
  <2>2. legacyclr' \in BOOLEAN
    BY Zenon DEF RegisterClock
  <2> QED BY <2>1, <2>2
<1>5. mwr_start' \in BOOLEAN /\ mrd_start' \in BOOLEAN
  <2>1. CASE addr = 0 /\ init_rst
    BY <2>1 DEF RegisterClock, StartBits
  <2>2. CASE ~(addr = 0 /\ init_rst) /\ mem_write_en /\ addr = 1
    <3>1. /\ mwr_start' = (mem_wr_data \in {"write", "both"})
          /\ mrd_start' = (mem_wr_data \in {"read", "both"})
      BY <2>2 DEF RegisterClock, StartBits
    <3>2. (mem_wr_data \in {"write", "both"}) \in BOOLEAN
          /\ (mem_wr_data \in {"read", "both"}) \in BOOLEAN
      OBVIOUS
    <3> QED BY ONLY <3>1, <3>2
  <2>3. CASE ~(addr = 0 /\ init_rst) /\ ~(mem_write_en /\ addr = 1)
    BY <2>3 DEF RegisterClock, StartBits
  <2> QED BY <2>1, <2>2, <2>3
<1>3. rd_d' \in [reg : {0, 1, 18}, mwr : BOOLEAN, mrd : BOOLEAN, err : BOOLEAN]
  BY DEF RegisterClock
<1>4. cpld_done' \in BOOLEAN /\ mrd_done_o' \in BOOLEAN /\ data_err' \in BOOLEAN
  BY DEF DoneClock, Kept, data_err_Next
<1> QED BY <1>1, <1>2, <1>3, <1>4, <1>5

LEMMA IntrTypeClock ==
  ASSUME IntrTypeOK, MemTypeOK, FlagsOK, NEW ready \in BOOLEAN, IntrClock(ready), TurnoffClock,
         req_compl \in BOOLEAN
  PROVE  IntrTypeOK'
<1> USE DEF IntrTypeOK
<1>1. ASSUME NEW s \in {"RST", "ACT", "ACT2", "DUN"}, NEW turn
      PROVE  NextIntr(s, turn, ready) \in {"RST", "ACT", "ACT2", "DUN"}
  BY DEF NextIntr
<1>2. rd_intr' \in {"RST", "ACT", "ACT2", "DUN"} /\ wr_intr' \in {"RST", "ACT", "ACT2", "DUN"}
  BY <1>1 DEF IntrClock
<1>3. intr_state' \in {"RST", "RD", "WR"} /\ msi' \in BOOLEAN
  BY DEF IntrClock
<1>4. ReadTurn \in BOOLEAN /\ WriteTurn \in BOOLEAN
  BY DEF ReadTurn, WriteTurn, MemTypeOK, FlagsOK
<1>5. Asserting \in BOOLEAN
  BY <1>4 DEF Asserting, Asserts, Deasserts, MemTypeOK
<1>6. intx' \in BOOLEAN /\ orphan' \in BOOLEAN
  BY <1>5 DEF IntrClock
<1>7. trn_pending' \in BOOLEAN /\ turnoff_ok' \in BOOLEAN
  BY DEF TurnoffClock, trn_pending_Next, FlagsOK
<1> QED BY <1>2, <1>3, <1>6, <1>7

LEMMA HostTypeClock ==
  ASSUME PartsOK, NEW rdy \in BOOLEAN, NEW ready \in BOOLEAN, EpClock(rdy, ready)
  PROVE  HostTypeOK'
<1> USE EpSpanAssumption DEF PartsOK, HostTypeOK, RxTypeOK
<1>1. stall' \in 0..MaxStall
  BY DEF EpClock
<1>2. wr_data' \in Writes
  BY RxTypeClock DEF EpClock, TypeOK
<1>3. stale' \in BOOLEAN
  <2>1. CASE init_rst
    <3>1. stale' = (owed' > 0)
      BY <2>1 DEF EpClock
    <3> QED BY <3>1
  <2>2. CASE ~init_rst
    BY <2>2 DEF EpClock
  <2> QED BY <2>1, <2>2
<1>4. accepted' \in Writes \cup {"none"}
  BY <1>2 DEF EpClock
<1> QED BY <1>1, <1>3, <1>4

(* What the receive engine does to the sizes and to the host's counters.   *)
LEMMA SizeTypeClock ==
  ASSUME SizeTypeOK, RxClock, DoneClock
  PROVE  SizeTypeOK'
<1> USE EpSpanAssumption, TransferAssumption, SpanAssumption
<1>0. CplSpan \in Nat \ {0} /\ SizeSpan \in Nat \ {0} /\ MrdLen \in Nat /\ MrdLen > 0
  OBVIOUS
<1>1. Total \in Nat
  BY <1>0 DEF Total
<1>2. expect' \in 0..(SizeSpan - 1) /\ size_q' \in 0..(SizeSpan - 1)
  BY <1>0, <1>1 DEF DoneClock, Kept, SizeTypeOK
<1>3. \A n \in Nat : n % CplSpan \in 0..(CplSpan - 1)
  BY <1>0
<1>4. /\ \A n \in {0, 1} : Ask(n) => asked' \in Nat
      /\ \A n \in Nat : n <= owed /\ (Pay(n) \/ Refuse(n)) => owed' \in Nat /\ refused' \in Nat
  BY <1>0 DEF Ask, Pay, Refuse, Settle, Kept, SizeTypeOK
<1>5. Same => asked' \in Nat /\ owed' \in Nat /\ refused' \in Nat
  BY <1>4 DEF Same, SizeTypeOK
<1>6. NoCpld => /\ cpld_size' \in Nat /\ cpld_tlp_size' \in 0..(CplSpan - 1)
                /\ cpld_real_size' \in 0..(CplSpan - 1) /\ togo' = togo
  BY <1>0 DEF NoCpld, KeepSize, KeepReal, Kept, SizeTypeOK
<1>7. \A n : Beat(n) => /\ cpld_size' \in Nat /\ cpld_tlp_size' \in 0..(CplSpan - 1)
                        /\ Same /\ togo' = togo - n
  BY <1>0 DEF Beat, KeepSize, Kept, SizeTypeOK
<1>8. CASE RxIdle BY <1>2, <1>5, <1>6, <1>8 DEF RxIdle, SizeTypeOK
<1>9. CASE RxRead
  <2>1. asked' \in Nat /\ owed' \in Nat /\ refused' \in Nat
    BY <1>4, <1>9 DEF RxRead, SizeTypeOK
  <2> QED BY <1>2, <1>6, <1>9, <2>1 DEF RxRead, SizeTypeOK
<1>10. CASE RxWrite BY <1>2, <1>5, <1>6, <1>10 DEF RxWrite, SizeTypeOK
<1>11. CASE RxReadAddress BY <1>2, <1>5, <1>6, <1>11 DEF RxReadAddress, SizeTypeOK
<1>12. CASE RxReadWait BY <1>2, <1>5, <1>6, <1>12 DEF RxReadWait, SizeTypeOK
<1>13. CASE RxWriteData BY <1>2, <1>5, <1>6, <1>13 DEF RxWriteData, SizeTypeOK
<1>14. CASE RxWriteWait BY <1>2, <1>5, <1>6, <1>14 DEF RxWriteWait, SizeTypeOK
<1>15. CASE RxCpldFirst
  <2>1. cpld_real_size' \in 0..(CplSpan - 1)
    BY <1>3, <1>15 DEF RxCpldFirst, SizeTypeOK
  <2>2. togo' \in 0..MrdLen /\ (rx_state' \in {"CPLD_QW1", "CPLD_QWN"} => togo' # 0)
    BY <1>0, <1>7, <1>15 DEF RxCpldFirst, SizeTypeOK
  <2> QED BY <1>2, <1>5, <1>7, <1>15, <2>1, <2>2 DEF RxCpldFirst, SizeTypeOK
<1>16. CASE RxCpldNext
  <2>1. PICK n \in {1, 2} :
          /\ n = (IF togo = 1 THEN 1 ELSE 2) /\ Beat(n)
          /\ cpld_real_size' = (cpld_real_size + n) % CplSpan
          /\ rx_state' = (IF togo \in {1, 2} THEN "RST" ELSE "CPLD_QWN")
    BY <1>16 DEF RxCpldNext
  <2>2. cpld_real_size' \in 0..(CplSpan - 1)
    BY <1>3, <2>1 DEF SizeTypeOK
  <2>3. togo' \in 0..MrdLen /\ (rx_state' \in {"CPLD_QW1", "CPLD_QWN"} => togo' # 0)
    BY <1>0, <1>7, <1>16, <2>1 DEF RxCpldNext, SizeTypeOK
  <2> QED BY <1>2, <1>5, <1>7, <2>1, <2>2, <2>3 DEF SizeTypeOK
<1>17. CASE RxGap
  <2>1. /\ cpld_size' \in Nat /\ cpld_tlp_size' \in 0..(CplSpan - 1)
        /\ cpld_real_size' \in 0..(CplSpan - 1)
    BY <1>0, <1>17 DEF RxGap, KeepSize, KeepReal, Kept, SizeTypeOK
  <2> QED BY <1>2, <1>5, <1>17, <2>1 DEF RxGap, SizeTypeOK
<1>18. ASSUME NEW n \in 1..MrdLen, n =< owed, RxCpld(n) PROVE SizeTypeOK'
  <2>1. n \in Nat
    BY <1>0
  <2>2. /\ cpld_size' \in Nat /\ cpld_tlp_size' \in 0..(CplSpan - 1)
        /\ cpld_real_size' \in 0..(CplSpan - 1) /\ togo' \in 0..MrdLen /\ togo' # 0
    BY <1>0, <1>3, <1>18, <2>1 DEF RxCpld, SizeTypeOK
  <2>3. asked' \in Nat /\ owed' \in Nat /\ refused' \in Nat
    BY <1>4, <1>18, <2>1 DEF RxCpld
  <2> QED BY <1>2, <2>2, <2>3 DEF SizeTypeOK
<1>19. ASSUME NEW n \in 1..MrdLen, n =< owed, RxCpl(n) PROVE SizeTypeOK'
  <2>1. asked' \in Nat /\ owed' \in Nat /\ refused' \in Nat
    BY <1>0, <1>4, <1>19 DEF RxCpl
  <2> QED BY <1>2, <1>6, <1>19, <2>1 DEF RxCpl, SizeTypeOK
<1>20. CASE RxCplEnd BY <1>2, <1>5, <1>6, <1>20 DEF RxCplEnd, SizeTypeOK
<1> QED BY <1>8, <1>9, <1>10, <1>11, <1>12, <1>13, <1>14, <1>15, <1>16, <1>17,
           <1>18, <1>19, <1>20 DEF RxClock
-----------------------------------------------------------------------------
(***************************************************************************)
(* The way of a register write: from the receive engine (wr_en) through    *)
(* the access controller (READ, WRITE) to the registers (mem_write_en).    *)
(* There is one on its way at a time, and the receive engine waits for it. *)
(***************************************************************************)
InFlight == wr_en \/ mem_state # "RST" \/ mem_write_en
Pipe ==
  /\ wr_en => mem_state = "RST" /\ ~mem_write_en
  /\ mem_state # "RST" => ~mem_write_en
  /\ InFlight <=> rx_state = "WR32_WT"
  /\ InFlight => accepted = wr_data /\ addr = RegisterOf(wr_data)
  /\ mem_write_en => mem_wr_data = wr_data
  /\ ~InFlight => accepted = "none"
  /\ req_compl <=> rx_state = "RD32_WT"

(* What a write found when it was accepted stays so until it lands.        *)
Legal ==
  /\ accepted \in {"write", "read", "both"} => ~init_rst /\ ~mwr_start /\ ~mrd_start
  /\ accepted = "reset" => ~init_rst
  /\ init_rst => (~mwr_start /\ ~mrd_start) \/ (addr = 0 /\ rx_state = "RST" /\ ~dst_rdy)

(* The clocks between the landing of one write and of the next, at least.  *)
Position ==
  CASE rx_state = "RST" /\ dst_rdy -> 1
    [] rx_state = "WR32_QW1" -> 2
    [] wr_en -> 3
    [] mem_state = "READ" -> 4
    [] mem_state = "WRITE" -> 5
    [] mem_write_en -> 6
    [] OTHER -> 0

(* In a reset pulse the transmit engine gets rid of the TLP it has begun   *)
(* with before the pulse can end, if the core does not stall it for long.  *)
(* A write that was stalled in the pulse has lost its length and cannot be *)
(* the last one.                                                           *)
ResetProgress ==
  /\ accepted = "reset" => stall = 0
  /\ init_rst =>
       /\ tx_state \in MwrHeaderStates \cup {"MRD_QW1"} => Position + 2 + MaxStall - stall <= 7
       /\ tx_state \in MwrHeaderStates /\ cur_mwr_dw_count # 0 => Position <= 1
       /\ tx_state = "MWR_QWN" /\ cur_wr_count # 0 /\ EndOfTlp => Position <= 5

(* A clock in which the receive engine takes no register write.            *)
LEMMA PipeIdle ==
  ASSUME Pipe, RxTypeOK, MemTypeOK, NEW rdy, NEW ready, EpClock(rdy, ready),
         rx_state # "WR32_WT"
  PROVE  /\ ~InFlight /\ mem_state' = "RST" /\ mem_write_en' = FALSE
         /\ accepted' = IF wr_en' THEN wr_data' ELSE "none"
<1>1. ~InFlight /\ accepted = "none"
  BY DEF Pipe
<1>2. mem_state = "RST" /\ wr_en = FALSE /\ mem_write_en = FALSE
  BY <1>1 DEF InFlight, RxTypeOK, MemTypeOK
<1> QED BY <1>1, <1>2 DEF EpClock, AccessClock

LEMMA PipeClock ==
  ASSUME Pipe, PartsOK, NEW rdy, NEW ready, EpClock(rdy, ready)
  PROVE  Pipe'
<1> USE DEF PartsOK, NoPio
<1>1. RxClock /\ RxTypeOK /\ MemTypeOK
  BY DEF EpClock
<1>2. ASSUME rx_state # "WR32_WT", wr_en' = FALSE, rx_state' # "WR32_WT",
             req_compl' <=> rx_state' = "RD32_WT"
      PROVE  Pipe'
  BY <1>1, <1>2, PipeIdle DEF Pipe, InFlight
<1>3. CASE RxIdle BY <1>2, <1>3 DEF RxIdle
<1>4. CASE RxRead BY <1>2, <1>4 DEF RxRead
<1>5. CASE RxWrite BY <1>2, <1>5 DEF RxWrite
<1>6. CASE RxReadAddress BY <1>2, <1>6 DEF RxReadAddress
<1>7. CASE RxReadWait
  <2>1. compl_done \in BOOLEAN
    BY DEF TypeOK, FlagsOK
  <2> QED BY <1>2, <1>7, <2>1 DEF RxReadWait
<1>8. CASE RxWriteData
  <2>1. /\ wr_en' = TRUE /\ rx_state' = "WR32_WT" /\ req_compl' = FALSE
        /\ addr' = RegisterOf(wr_data')
    BY <1>8 DEF RxWriteData
  <2>2. mem_state' = "RST" /\ mem_write_en' = FALSE /\ accepted' = wr_data'
    BY <1>1, <1>8, <2>1, PipeIdle DEF RxWriteData
  <2> QED BY <2>1, <2>2 DEF Pipe, InFlight
<1>9. CASE RxWriteWait
  <2>1. /\ rx_state = "WR32_WT" /\ wr_en' = FALSE /\ req_compl' = FALSE
        /\ addr' = addr /\ wr_data' = wr_data /\ InFlight
        /\ accepted = wr_data /\ addr = RegisterOf(wr_data)
    BY <1>9 DEF RxWriteWait, Pipe
  <2>2. CASE mem_write_en
    <3>1. wr_en = FALSE /\ mem_state = "RST"
      BY <1>1, <2>2 DEF Pipe, RxTypeOK, MemTypeOK
    <3>2. /\ rx_state' = "RST" /\ mem_state' = "RST" /\ mem_write_en' = FALSE
          /\ accepted' = "none"
      BY <1>9, <2>1, <2>2, <3>1 DEF RxWriteWait, wr_busy, EpClock, AccessClock
    <3> QED BY <2>1, <3>2 DEF Pipe, InFlight
  <2>3. CASE ~mem_write_en
    <3>1. wr_busy
      BY <2>1, <2>3 DEF InFlight, wr_busy
    <3>2. rx_state' = "WR32_WT" /\ accepted' = wr_data
      BY <1>9, <2>1, <2>3, <3>1 DEF RxWriteWait, EpClock
    <3>3. CASE wr_en
      <4>1. mem_state = "RST"
        BY <3>3 DEF Pipe
      <4>2. mem_state' = "READ" /\ mem_write_en' = FALSE
        BY <3>3, <4>1 DEF EpClock, AccessClock
      <4> QED BY <2>1, <3>2, <4>2 DEF Pipe, InFlight
    <3>4. CASE mem_state = "READ"
      <4>1. mem_state' = "WRITE" /\ mem_write_en' = FALSE
        BY <3>4 DEF EpClock, AccessClock
      <4> QED BY <2>1, <3>2, <4>1 DEF Pipe, InFlight
    <3>5. CASE mem_state = "WRITE"
      <4>1. mem_state' = "RST" /\ mem_write_en' = TRUE /\ mem_wr_data' = wr_data
        BY <3>5 DEF EpClock, AccessClock
      <4> QED BY <2>1, <3>2, <4>1 DEF Pipe, InFlight
    <3> QED BY <1>1, <3>1, <3>3, <3>4, <3>5 DEF wr_busy, MemTypeOK
  <2> QED BY <2>2, <2>3
<1>10. CASE RxCpldFirst BY <1>2, <1>10 DEF RxCpldFirst, Beat
<1>11. CASE RxCpldNext
  <2>1. rx_state = "CPLD_QWN" /\ wr_en' = FALSE /\ req_compl' = FALSE
        /\ rx_state' \in {"RST", "CPLD_QWN"}
    BY <1>11 DEF RxCpldNext, Beat
  <2> QED BY <1>2, <2>1
<1>12. CASE RxGap BY <1>2, <1>12 DEF RxGap
<1>13. ASSUME NEW n \in 1..MrdLen, RxCpld(n) \/ RxCpl(n) PROVE Pipe'
  BY <1>2, <1>13 DEF RxCpld, RxCpl
<1>14. CASE RxCplEnd BY <1>2, <1>14 DEF RxCplEnd
<1> QED BY <1>1, <1>3, <1>4, <1>5, <1>6, <1>7, <1>8, <1>9, <1>10, <1>11, <1>12, <1>13, <1>14
        DEF RxClock

(* The clock in which the receive engine takes a register write.           *)
LEMMA NewWrite ==
  ASSUME RxClock, wr_en' = TRUE PROVE RxWriteData
<1> USE DEF NoPio, Beat
<1>1. ~RxIdle /\ ~RxRead /\ ~RxWrite BY DEF RxIdle, RxRead, RxWrite
<1>2. ~RxReadAddress /\ ~RxReadWait /\ ~RxWriteWait
  BY DEF RxReadAddress, RxReadWait, RxWriteWait
<1>3. ~RxCpldFirst /\ ~RxCpldNext /\ ~RxGap BY DEF RxCpldFirst, RxCpldNext, RxGap
<1>4. ~RxCplEnd /\ \A n \in 1..MrdLen : ~RxCpld(n) /\ ~RxCpl(n) BY DEF RxCplEnd, RxCpld, RxCpl
<1> QED BY <1>1, <1>2, <1>3, <1>4 DEF RxClock

(* What the host writes, and when.                                         *)
LEMMA HostIsLegal ==
  ASSUME NEW w \in HostWrites, init_rst \in BOOLEAN, mwr_start \in BOOLEAN, mrd_start \in BOOLEAN
  PROVE  /\ w \in {"write", "read", "both"} =>
              init_rst = FALSE /\ mwr_start = FALSE /\ mrd_start = FALSE
         /\ w = "reset" => init_rst = FALSE
BY DEF HostWrites, HostStarts, HostResets, HostClears

LEMMA LegalClock ==
  ASSUME Pipe, Legal, PartsOK, NEW rdy, NEW ready, EpClock(rdy, ready)
  PROVE  Legal'
<1>1. /\ RxClock /\ RegisterClock
      /\ init_rst \in BOOLEAN /\ mwr_start \in BOOLEAN /\ mrd_start \in BOOLEAN
      /\ wr_en' \in BOOLEAN /\ mem_write_en \in BOOLEAN
  BY RxTypeClock DEF EpClock, PartsOK, TypeOK, FlagsOK, RxTypeOK, MemTypeOK
<1>2. CASE mem_write_en
  <2>1. /\ accepted = wr_data /\ mem_wr_data = wr_data /\ addr = RegisterOf(wr_data)
        /\ rx_state = "WR32_WT" /\ wr_en = FALSE /\ mem_state = "RST"
    BY <1>2 DEF Pipe, InFlight, PartsOK, RxTypeOK, MemTypeOK
  <2>2. RxWriteWait
    BY <1>1, <2>1 DEF RxClock, RxIdle, RxRead, RxWrite, RxReadAddress, RxReadWait, RxWriteData,
       RxCpldFirst, RxCpldNext, RxGap, RxCpld, RxCpl, RxCplEnd
  <2>3. /\ rx_state' = "RST" /\ dst_rdy' = FALSE /\ wr_en' = FALSE /\ addr' = addr
        /\ accepted' = "none"
    BY <1>2, <2>1, <2>2 DEF RxWriteWait, wr_busy, NoPio, EpClock
  <2>4. CASE addr = 0
    <3>1. init_rst' => addr' = 0 /\ rx_state' = "RST" /\ ~dst_rdy'
      BY <2>3, <2>4
    <3> QED BY <2>3, <3>1 DEF Legal
  <2>5. CASE addr = 1
    <3>1. accepted \in {"write", "read", "both"}
      BY <2>1, <2>5 DEF RegisterOf, PartsOK, RxTypeOK, Writes
    <3>2. init_rst' = FALSE
      BY <1>1, <2>5, <3>1 DEF Legal, RegisterClock
    <3> QED BY <2>3, <3>2 DEF Legal
  <2>6. CASE addr = 18
    <3>1. init_rst' = init_rst /\ mwr_start' = mwr_start /\ mrd_start' = mrd_start
      BY <1>1, <2>6 DEF RegisterClock, StartBits
    <3> QED BY <2>1, <2>3, <3>1 DEF Legal
  <2> QED BY <2>4, <2>5, <2>6 DEF PartsOK, RxTypeOK
<1>3. CASE ~mem_write_en
  <2>1. /\ init_rst' = init_rst
        /\ accepted' = IF wr_en' THEN wr_data' ELSE accepted
    BY <1>1, <1>3 DEF RegisterClock, EpClock
  <2>2. /\ ~init_rst => mwr_start' = mwr_start /\ mrd_start' = mrd_start
        /\ init_rst => \/ mwr_start' = FALSE /\ mrd_start' = FALSE
                       \/ addr # 0 /\ mwr_start' = mwr_start /\ mrd_start' = mrd_start
    BY <1>1, <1>3 DEF RegisterClock, StartBits
  <2>3. init_rst' => ~mwr_start' /\ ~mrd_start'
    BY <2>1, <2>2 DEF Legal
  <2>4. CASE wr_en' = TRUE
    <3>1. wr_data' \in HostWrites
      BY <1>1, <2>4, NewWrite DEF RxWriteData
    <3>2. /\ accepted' \in {"write", "read", "both"} =>
               init_rst = FALSE /\ mwr_start = FALSE /\ mrd_start = FALSE
          /\ accepted' = "reset" => init_rst = FALSE
      BY <1>1, <2>1, <2>4, <3>1, HostIsLegal
    <3> QED BY <2>1, <2>2, <2>3, <3>2 DEF Legal
  <2>5. CASE wr_en' = FALSE
    BY <2>1, <2>2, <2>3, <2>5 DEF Legal
  <2> QED BY <1>1, <2>4, <2>5
<1> QED BY <1>1, <1>2, <1>3

Positions ==
  /\ Position \in 0..6
  /\ rx_state = "RST" => Position = IF dst_rdy THEN 1 ELSE 0
  /\ rx_state = "WR32_QW1" => Position = 2
  /\ wr_en = TRUE => Position = 3
  /\ mem_state = "READ" => Position = 4
  /\ mem_state = "WRITE" => Position = 5
  /\ mem_write_en = TRUE => Position = 6
  /\ rx_state \in {"RD32_QW1", "RD32_WT", "CPL_QW1", "CPLD_QW1", "CPLD_QWN"} => Position = 0

LEMMA PositionIs == Pipe /\ RxTypeOK /\ MemTypeOK => Positions
<1> SUFFICES ASSUME Pipe, RxTypeOK, MemTypeOK PROVE Positions
  OBVIOUS
<1> USE DEF Positions
<1>1. CASE InFlight
  <2>1. rx_state = "WR32_WT"
    BY <1>1 DEF Pipe
  <2>2. CASE wr_en
    BY <2>1, <2>2 DEF Position, Pipe, RxTypeOK, MemTypeOK
  <2>3. CASE ~wr_en /\ mem_state = "READ"
    BY <2>1, <2>3 DEF Position, Pipe, RxTypeOK, MemTypeOK
  <2>4. CASE ~wr_en /\ mem_state = "WRITE"
    BY <2>1, <2>4 DEF Position, Pipe, RxTypeOK, MemTypeOK
  <2>5. CASE ~wr_en /\ mem_state = "RST" /\ mem_write_en
    BY <2>1, <2>5 DEF Position, Pipe, RxTypeOK, MemTypeOK
  <2> QED BY <1>1, <2>2, <2>3, <2>4, <2>5 DEF InFlight, MemTypeOK
<1>2. CASE ~InFlight
  <2>1. rx_state # "WR32_WT" /\ wr_en = FALSE /\ mem_state = "RST" /\ mem_write_en = FALSE
    BY <1>2 DEF Pipe, InFlight, RxTypeOK, MemTypeOK
  <2>2. CASE rx_state = "RST"
    BY <2>1, <2>2 DEF Position, RxTypeOK
  <2>3. CASE rx_state = "WR32_QW1"
    BY <2>1, <2>3 DEF Position
  <2>4. CASE rx_state \in {"RD32_QW1", "RD32_WT", "CPL_QW1", "CPLD_QW1", "CPLD_QWN"}
    BY <2>1, <2>4 DEF Position
  <2> QED BY <2>1, <2>2, <2>3, <2>4 DEF RxTypeOK, RxStates
<1> QED BY <1>1, <1>2

(* A write advances by one position a clock at most.                       *)
LEMMA PositionClock ==
  ASSUME Pipe, Pipe', PartsOK, RxTypeOK', MemTypeOK', NEW rdy, NEW ready, EpClock(rdy, ready)
  PROVE  Position' <= Position + 1
<1> USE DEF NoPio, Beat
<1>1. RxClock /\ AccessClock /\ RxTypeOK /\ MemTypeOK
  BY DEF EpClock, PartsOK
<1>0. Pipe' /\ RxTypeOK' /\ MemTypeOK' => Positions'
  BY PositionIs, PTL
<1>2. Position \in 0..6 /\ Position' \in 0..6 /\ Positions /\ Positions'
  BY <1>0, <1>1, PositionIs DEF Positions
<1>3. ASSUME rx_state' \in {"RST", "RD32_QW1", "RD32_WT", "CPL_QW1", "CPLD_QW1", "CPLD_QWN"}
      PROVE  Position' <= 1
  BY <1>2, <1>3 DEF Positions, RxTypeOK
<1>4. CASE RxIdle \/ RxRead \/ RxReadAddress \/ RxReadWait \/ RxCplEnd \/ RxCpldFirst \/ RxCpldNext
  <2>1. rx_state' \in {"RST", "RD32_QW1", "RD32_WT", "CPL_QW1", "CPLD_QW1", "CPLD_QWN"}
    <3>1. CASE RxIdle BY <3>1 DEF RxIdle
    <3>2. CASE RxRead BY <3>2 DEF RxRead
    <3>3. CASE RxReadAddress BY <3>3 DEF RxReadAddress
    <3>4. CASE RxReadWait BY <3>4 DEF RxReadWait
    <3>5. CASE RxCpldFirst BY <3>5 DEF RxCpldFirst
    <3>6. CASE RxCpldNext BY <3>6 DEF RxCpldNext
    <3>7. CASE RxCplEnd BY <3>7 DEF RxCplEnd
    <3> QED BY <1>4, <3>1, <3>2, <3>3, <3>4, <3>5, <3>6, <3>7
  <2> QED BY <1>2, <1>3, <2>1
<1>5. ASSUME NEW n \in 1..MrdLen, RxCpld(n) \/ RxCpl(n) PROVE Position' <= Position + 1
  <2>1. rx_state' \in {"CPL_QW1", "CPLD_QW1"}
    BY <1>5 DEF RxCpld, RxCpl
  <2> QED BY <1>2, <1>3, <2>1
<1>6. CASE RxWrite
  <2>1. Position = 1 /\ Position' = 2
    BY <1>1, <1>2, <1>6 DEF Positions, RxWrite, RxTypeOK
  <2> QED BY <2>1
<1>7. CASE RxGap
  <2>1. CASE rx_state = "WR32_QW1"
    BY <1>1, <1>2, <1>7, <2>1 DEF Positions, RxGap
  <2>2. CASE rx_state # "WR32_QW1"
    <3>1. rx_state' \in {"RST", "RD32_QW1", "RD32_WT", "CPL_QW1", "CPLD_QW1", "CPLD_QWN"}
      BY <1>7, <2>2 DEF RxGap
    <3> QED BY <1>2, <1>3, <3>1
  <2> QED BY <2>1, <2>2
<1>8. CASE RxWriteData
  <2>1. Position = 2 /\ wr_en' = TRUE
    BY <1>1, <1>2, <1>8 DEF Positions, RxWriteData
  <2>2. Position' = 3
    BY <1>1, <1>2, <2>1 DEF Positions
  <2> QED BY <2>1, <2>2
<1>9. CASE RxWriteWait
  <2>1. InFlight
    BY <1>9 DEF RxWriteWait, Pipe
  <2>2. CASE mem_write_en
    <3>1. Position = 6
      BY <1>1, <1>2, <2>2 DEF Positions, MemTypeOK
    <3> QED BY <1>2, <3>1
  <2>3. CASE wr_en
    <3>1. Position = 3 /\ mem_state' = "READ"
      BY <1>1, <1>2, <2>3 DEF Positions, RxTypeOK, Pipe, AccessClock
    <3>2. Position' = 4
      BY <1>1, <1>2, <3>1 DEF Positions
    <3> QED BY <3>1, <3>2
  <2>4. CASE mem_state = "READ"
    <3>1. Position = 4 /\ mem_state' = "WRITE"
      BY <1>1, <1>2, <2>4 DEF Positions, AccessClock
    <3>2. Position' = 5
      BY <1>1, <1>2, <3>1 DEF Positions
    <3> QED BY <3>1, <3>2
  <2>5. CASE mem_state = "WRITE"
    <3>1. Position = 5 /\ Position' \in 0..6
      BY <1>1, <1>2, <2>5 DEF Positions
    <3> QED BY <3>1
  <2> QED BY <1>1, <2>1, <2>2, <2>3, <2>4, <2>5 DEF InFlight, MemTypeOK
<1> QED BY <1>1, <1>4, <1>5, <1>6, <1>7, <1>8, <1>9 DEF RxClock

(* The clock in which a register write lands.                              *)
LEMMA LandingWaits ==
  ASSUME Pipe, RxTypeOK, MemTypeOK, NEW rdy, NEW ready, EpClock(rdy, ready), mem_write_en = TRUE
  PROVE  RxWriteWait
<1>1. rx_state = "WR32_WT"
  BY DEF Pipe, InFlight, RxTypeOK, MemTypeOK
<1> QED BY <1>1 DEF EpClock, RxClock, RxIdle, RxRead, RxWrite, RxReadAddress, RxReadWait,
        RxWriteData, RxCpldFirst, RxCpldNext, RxGap, RxCpld, RxCpl, RxCplEnd

LEMMA Landing ==
  ASSUME Pipe, RxTypeOK, MemTypeOK, NEW rdy, NEW ready, EpClock(rdy, ready), mem_write_en = TRUE
  PROVE  /\ mem_wr_data = wr_data /\ accepted = wr_data /\ addr = RegisterOf(wr_data)
         /\ rx_state = "WR32_WT" /\ Position = 6
         /\ rx_state' = "RST" /\ dst_rdy' = FALSE /\ addr' = addr
<1>1. /\ accepted = wr_data /\ mem_wr_data = wr_data /\ addr = RegisterOf(wr_data)
      /\ rx_state = "WR32_WT" /\ wr_en = FALSE /\ mem_state = "RST"
  BY DEF Pipe, InFlight, RxTypeOK, MemTypeOK
<1>2. RxWriteWait
  BY LandingWaits
<1>3. rx_state' = "RST" /\ dst_rdy' = FALSE /\ addr' = addr
  BY <1>1, <1>2 DEF RxWriteWait, wr_busy, NoPio
<1>4. Position = 6
  BY PositionIs DEF Positions
<1> QED BY <1>1, <1>3, <1>4

LEMMA ResetAccepted ==
  ASSUME Legal, RxClock, NEW rdy, NEW ready, EpClock(rdy, ready), accepted' = "reset",
         wr_en' \in BOOLEAN, init_rst \in BOOLEAN, mwr_start \in BOOLEAN, mrd_start \in BOOLEAN
  PROVE  /\ init_rst = FALSE
         /\ accepted = "reset" \/ "reset" \in HostWrites
<1>1. CASE wr_en' = TRUE
  <2>1. wr_data' \in HostWrites /\ wr_data' = "reset"
    BY <1>1, NewWrite DEF EpClock, RxWriteData
  <2> QED BY <2>1, HostIsLegal
<1>2. CASE wr_en' = FALSE
  <2>1. accepted = "reset"
    BY <1>2 DEF EpClock
  <2> QED BY <2>1 DEF Legal
<1> QED BY <1>1, <1>2

LEMMA ResetProgressClock ==
  ASSUME MaxStall <= 4, Pipe, Pipe', Legal, ResetProgress, PartsOK, RxTypeOK', MemTypeOK',
         NEW rdy \in BOOLEAN, NEW ready, EpClock(rdy, ready), init_rst' \in BOOLEAN
  PROVE  ResetProgress'
<1>0. /\ \A p, q, s, m \in Int : p + 2 + m - s <= 7 /\ q <= p + 1 => q + 2 + m - (s + 1) <= 7
      /\ \A q, s \in Int : q <= 0 + 1 /\ s = 0 => q <= 1 /\ q + 2 + MaxStall - s <= 7
  BY EpSpanAssumption
<1>1. /\ RxTypeOK /\ MemTypeOK /\ MaxStall \in Nat /\ stall \in 0..MaxStall
      /\ stall' = (IF init_rst /\ ~rdy THEN stall + 1 ELSE 0)
      /\ init_rst \in BOOLEAN /\ mwr_start \in BOOLEAN /\ mrd_start \in BOOLEAN
  BY EpSpanAssumption DEF EpClock, PartsOK, HostTypeOK, TypeOK, FlagsOK
<1>2. accepted' = "reset" => stall' = 0
  BY <1>1, ResetAccepted DEF EpClock, RxTypeOK
<1>3. CASE init_rst' = FALSE
  BY <1>2, <1>3 DEF ResetProgress
<1>4. (Pipe /\ RxTypeOK /\ MemTypeOK)' => Positions'
  BY PositionIs, PTL
<1>5. CASE init_rst' = TRUE /\ init_rst = FALSE
  <2>1. mem_write_en = TRUE
    BY <1>1, <1>5 DEF EpClock, RegisterClock, MemTypeOK
  <2>2. Position' = 0
    BY <1>1, <1>4, <2>1, Landing DEF Positions
  <2>3. Position' + 2 + MaxStall - stall' <= 7 /\ Position' <= 1 /\ Position' <= 5
    BY <1>1, <1>5, <2>2
  <2> QED BY <1>2, <2>3 DEF ResetProgress
<1>6. CASE init_rst' = TRUE /\ init_rst = TRUE
  <2>1. Position \in 0..6 /\ Position' \in 0..6 /\ Position' <= Position + 1
    BY <1>1, <1>4, PositionIs, PositionClock DEF Positions
  <2>2. mwr_start \/ mrd_start => Position = 0
    BY <1>1, <1>6, PositionIs DEF Positions, Legal
  <2>3. TxBranch(rdy, FALSE, TRUE)
    BY DEF EpClock, TxClock
  <2>4. ASSUME tx_state' \notin MwrHeaderStates \cup {"MWR_QWN", "MRD_QW1"} PROVE ResetProgress'
    BY <1>2, <2>4 DEF ResetProgress
  <2> USE DEF Kept, KeepWriter, KeepDw
  <2>5. CASE IssueCompletion(rdy, FALSE) BY <2>4, <2>5 DEF IssueCompletion, MwrHeaderStates
  <2>6. CASE Idle(rdy, FALSE, TRUE) BY <2>4, <2>6 DEF Idle, MwrHeaderStates
  <2>7. CASE SendCompletion(rdy, FALSE) BY <2>4, <2>7 DEF SendCompletion, MwrHeaderStates
  <2>8. CASE LeaveCompletion(rdy, FALSE) BY <2>4, <2>8 DEF LeaveCompletion, MwrHeaderStates
  <2>9. CASE SendReadRequest(rdy, FALSE) BY <2>4, <2>9 DEF SendReadRequest, MwrHeaderStates
  <2>10. CASE IssueWrite(rdy, FALSE, TRUE) \/ IssueRead(rdy, FALSE, TRUE)
    <3>1. rdy = TRUE /\ (mwr_start \/ mrd_start) /\ tx_state' \in MwrHeaderStates \cup {"MRD_QW1"}
      BY <2>10 DEF IssueWrite, IssueRead, CanWrite, CanRead, MwrPending, MrdPending,
                   MwrHeaderStates
    <3>2. Position = 0 /\ stall' = 0
      BY <1>1, <2>2, <3>1
    <3>3. Position' <= 1 /\ Position' + 2 + MaxStall - stall' <= 7
      <4>1. stall' \in Int /\ Position' \in Int /\ Position' <= 0 + 1
        BY <1>1, <2>1, <3>2
      <4> QED BY <1>0, <3>2, <4>1
    <3> QED BY <1>2, <3>1, <3>3 DEF ResetProgress, MwrHeaderStates
  <2>11. CASE SendWriteHeader(rdy, FALSE)
    <3>1. tx_state = "MWR_QW1" /\ tx_state' \in {"RST", "MWR_QWN"}
      BY <2>11 DEF SendWriteHeader
    <3>2. CASE cur_mwr_dw_count = 0
      <4>1. DwSpan \in Nat /\ DwSpan > 3
        BY SpanAssumption
      <4>2. cur_mwr_dw_count' = (0 - 1) % DwSpan
        BY <2>11, <3>2 DEF SendWriteHeader, DwLeft
      <4>3. (0 - 1) % DwSpan = DwSpan - 1
        <5>1. \A q \in Int, r \in 0..(DwSpan - 1) : q = -1 => (q * DwSpan + r) % DwSpan = r
          BY <4>1
        <5>2. (-1 * DwSpan + (DwSpan - 1)) % DwSpan = DwSpan - 1
          BY <4>1, <5>1
        <5>3. -1 * DwSpan + (DwSpan - 1) = 0 - 1
          BY <4>1
        <5> QED BY <5>2, <5>3
      <4>4. ~EndOfTlp'
        BY <4>1, <4>2, <4>3 DEF EndOfTlp
      <4> QED BY <1>2, <3>1, <4>4 DEF ResetProgress, MwrHeaderStates
    <3>3. CASE cur_mwr_dw_count # 0
      <4>1. Position' <= 5
        BY <1>6, <2>1, <3>1, <3>3 DEF ResetProgress, MwrHeaderStates
      <4> QED BY <1>2, <3>1, <4>1 DEF ResetProgress, MwrHeaderStates
    <3> QED BY <3>2, <3>3
  <2>12. CASE SendWrite64Header(rdy, FALSE)
    <3>1. tx_state' = "MWR_QWN" /\ cur_mwr_dw_count' = 0
      BY <1>6, <2>12 DEF SendWrite64Header
    <3> QED BY <1>2, <3>1 DEF ResetProgress, MwrHeaderStates, EndOfTlp
  <2>13. CASE SendWritePayload(rdy, FALSE)
    <3>1. tx_state' \in {"RST", "MWR_QWN"} /\ cur_wr_count' = 0
      BY <1>6, <2>13 DEF SendWritePayload
    <3> QED BY <1>2, <3>1 DEF ResetProgress, MwrHeaderStates
  <2>14. CASE Stall(rdy, FALSE)
    <3>1. /\ rdy = FALSE /\ tx_state' = tx_state /\ cur_mwr_dw_count' = 0 /\ cur_wr_count' = 0
      BY <1>6, <2>14 DEF Stall
    <3>2. stall' = stall + 1
      BY <1>1, <1>6, <3>1
    <3>3. tx_state \in MwrHeaderStates \cup {"MRD_QW1"} => Position + 2 + MaxStall - stall <= 7
      BY <1>6 DEF ResetProgress
    <3>4. ASSUME tx_state' \in MwrHeaderStates \cup {"MRD_QW1"}
          PROVE  Position' + 2 + MaxStall - stall' <= 7
      <4>1. Position + 2 + MaxStall - stall <= 7
        BY <3>1, <3>3, <3>4 DEF MwrHeaderStates
      <4>2. stall \in Int /\ MaxStall \in Int /\ Position \in Int /\ Position' \in Int
        BY <1>1, <2>1
      <4>3. Position' <= Position + 1
        BY <2>1
      <4> QED BY <1>0, <3>2, <4>1, <4>2, <4>3
    <3>5. ~(tx_state' = "MWR_QWN" /\ cur_wr_count' # 0 /\ EndOfTlp')
      BY <3>1
    <3>6. ~(tx_state' \in MwrHeaderStates /\ cur_mwr_dw_count' # 0)
      BY <3>1
    <3> QED BY <1>2, <3>4, <3>5, <3>6 DEF ResetProgress, MwrHeaderStates
  <2>15. ~AbortDma(FALSE)
    BY DEF AbortDma
  <2> QED BY <2>3, <2>5, <2>6, <2>7, <2>8, <2>9, <2>10, <2>11, <2>12, <2>13, <2>14, <2>15 DEF TxBranch
<1> QED BY <1>1, <1>3, <1>5, <1>6

(* The pulse takes: when its end lands, both initiators have been reset,   *)
(* and none of the TLPs in flight makes them count once more.              *)
LEMMA PulseTakes ==
  ASSUME PartsOK, Pipe, Legal, ResetProgress, NEW rdy, TxBranch(rdy, FALSE, TRUE),
         init_rst = TRUE, Position = 6, rx_state = "WR32_WT"
  PROVE  (WriterReset /\ ReaderReset)' /\ mwr_start = FALSE /\ mrd_start = FALSE
<1> USE DEF Kept, KeepWriter, KeepReader
<1>1. mwr_start = FALSE /\ mrd_start = FALSE
  BY DEF Legal, PartsOK, TypeOK, FlagsOK
<1>2. tx_state \notin MwrHeaderStates \cup {"MRD_QW1"}
  <2>1. \A s \in 0..MaxStall : ~(6 + 2 + MaxStall - s <= 7)
    BY EpSpanAssumption
  <2>2. stall \in 0..MaxStall
    BY DEF PartsOK, HostTypeOK
  <2> QED BY <2>1, <2>2 DEF ResetProgress
<1>3. ASSUME tx_state' \notin MwrHeaderStates \cup {"MRD_QW1"}, KeepWriter, KeepReader
      PROVE  (WriterReset /\ ReaderReset)' /\ mwr_start = FALSE /\ mrd_start = FALSE
  BY <1>1, <1>3 DEF WriterReset, ReaderReset, MwrHeaderStates
<1>4. CASE IssueCompletion(rdy, FALSE) BY <1>3, <1>4 DEF IssueCompletion, MwrHeaderStates
<1>5. CASE Idle(rdy, FALSE, TRUE) BY <1>3, <1>5 DEF Idle, MwrHeaderStates
<1>6. CASE SendCompletion(rdy, FALSE) BY <1>3, <1>6 DEF SendCompletion, MwrHeaderStates
<1>7. CASE LeaveCompletion(rdy, FALSE) BY <1>3, <1>7 DEF LeaveCompletion, MwrHeaderStates
<1>8. ~IssueWrite(rdy, FALSE, TRUE) /\ ~IssueRead(rdy, FALSE, TRUE)
  BY <1>1 DEF IssueWrite, IssueRead, CanWrite, CanRead, MwrPending, MrdPending
<1>9. /\ ~SendWriteHeader(rdy, FALSE) /\ ~SendWrite64Header(rdy, FALSE)
      /\ ~SendReadRequest(rdy, FALSE) /\ ~AbortDma(FALSE)
  BY <1>2 DEF SendWriteHeader, SendWrite64Header, SendReadRequest, AbortDma, MwrHeaderStates
<1>10. CASE SendWritePayload(rdy, FALSE)
  <2>1. ~(EndOfTlp /\ LastInPayload)
    <3>1. EndOfTlp => cur_wr_count = 0
      BY <1>10 DEF SendWritePayload, ResetProgress
    <3>2. MwrCount # 0
      BY TransferAssumption, SpanAssumption
    <3> QED BY <3>1, <3>2 DEF LastInPayload
  <2>2. tx_state' \in {"RST", "MWR_QWN"} /\ KeepWriter /\ KeepReader
    BY <1>10, <2>1 DEF SendWritePayload
  <2> QED BY <1>3, <2>2 DEF MwrHeaderStates
<1>11. CASE Stall(rdy, FALSE)
  BY <1>2, <1>3, <1>11 DEF Stall
<1> QED BY <1>1, <1>4, <1>5, <1>6, <1>7, <1>8, <1>9, <1>10, <1>11 DEF TxBranch

(* What the registers do to the transmit engine is what its specification  *)
(* lets its environment do.                                                *)
LEMMA RegistersConform ==
  ASSUME PartsOK, Pipe, Legal, ResetProgress, NEW rdy, NEW ready, EpClock(rdy, ready)
  PROVE  RegisterFile
<1>1. /\ RegisterClock /\ RxTypeOK /\ MemTypeOK
      /\ init_rst \in BOOLEAN /\ mwr_start \in BOOLEAN /\ mrd_start \in BOOLEAN
  BY DEF EpClock, PartsOK, TypeOK, FlagsOK
<1>2. CASE mem_write_en = TRUE
  <2>1. /\ mem_wr_data = wr_data /\ accepted = wr_data /\ addr = RegisterOf(wr_data)
        /\ rx_state = "WR32_WT" /\ Position = 6 /\ wr_data \in Writes
    BY <1>1, <1>2, Landing DEF RxTypeOK
  <2>2. CASE addr = 0 /\ wr_data = "reset"
    <3>1. init_rst = FALSE /\ init_rst' = TRUE
      BY <1>1, <1>2, <2>1, <2>2 DEF Legal, RegisterClock
    <3>2. UNCHANGED <<mwr_start, mrd_start>>
      BY <1>1, <1>2, <2>2, <3>1 DEF RegisterClock, StartBits
    <3> QED BY <3>1, <3>2 DEF RegisterFile, BeginReset
  <2>3. CASE addr = 0 /\ wr_data # "reset"
    <3>1. init_rst' = FALSE
      BY <1>1, <1>2, <2>1, <2>3 DEF RegisterClock
    <3>2. CASE init_rst = FALSE
      <4>1. UNCHANGED <<mwr_start, mrd_start>>
        BY <1>1, <1>2, <2>3, <3>2 DEF RegisterClock, StartBits
      <4> QED BY <3>1, <3>2, <4>1 DEF RegisterFile, NoAccess
    <3>3. CASE init_rst = TRUE
      <4>1. (WriterReset /\ ReaderReset)' /\ mwr_start = FALSE /\ mrd_start = FALSE
        BY <2>1, <3>3, PulseTakes DEF EpClock, TxClock
      <4>2. mwr_start' = FALSE /\ mrd_start' = FALSE
        BY <1>1, <2>3, <3>3 DEF RegisterClock, StartBits
      <4> QED BY <3>1, <3>3, <4>1, <4>2 DEF RegisterFile, EndReset
    <3> QED BY <1>1, <3>2, <3>3
  <2>4. CASE addr = 1
    <3>1. wr_data \in {"write", "read", "both"}
      BY <2>1, <2>4 DEF RegisterOf, Writes
    <3>2. init_rst = FALSE /\ mwr_start = FALSE /\ mrd_start = FALSE
      BY <1>1, <2>1, <3>1 DEF Legal
    <3>3. /\ mwr_start' = (wr_data \in {"write", "both"})
          /\ mrd_start' = (wr_data \in {"read", "both"})
          /\ init_rst' = init_rst
      BY <1>1, <1>2, <2>1, <2>4 DEF RegisterClock, StartBits
    <3>4. /\ (wr_data \in {"write", "both"}) \in BOOLEAN /\ (wr_data \in {"read", "both"}) \in BOOLEAN
          /\ wr_data \in {"write", "both"} \/ wr_data \in {"read", "both"}
      BY <3>1
    <3>5. mwr_start' \in BOOLEAN /\ mrd_start' \in BOOLEAN /\ (mwr_start' \/ mrd_start')
      BY ONLY <3>3, <3>4
    <3> QED BY <3>2, <3>3, <3>5 DEF RegisterFile, StartDma
  <2>5. CASE addr = 18
    <3>1. UNCHANGED <<init_rst, mwr_start, mrd_start>>
      BY <1>1, <2>5 DEF RegisterClock, StartBits
    <3>2. init_rst = TRUE => mwr_start = FALSE /\ mrd_start = FALSE
      BY <1>1, <2>1 DEF Legal
    <3> QED BY <1>1, <3>1, <3>2 DEF RegisterFile, HoldReset, NoAccess
  <2> QED BY <1>1, <2>2, <2>3, <2>4, <2>5 DEF RxTypeOK
<1>3. CASE mem_write_en = FALSE
  <2>1. init_rst' = init_rst
    BY <1>1, <1>3 DEF RegisterClock
  <2>2. CASE init_rst = FALSE
    <3>1. UNCHANGED <<mwr_start, mrd_start>>
      BY <1>1, <1>3, <2>2 DEF RegisterClock, StartBits
    <3> QED BY <2>1, <2>2, <3>1 DEF RegisterFile, NoAccess
  <2>3. CASE init_rst = TRUE
    <3>1. CASE addr = 0
      BY <1>1, <2>1, <2>3, <3>1 DEF RegisterClock, StartBits, RegisterFile, HoldReset
    <3>2. CASE addr # 0
      <4>1. UNCHANGED <<mwr_start, mrd_start>> /\ mwr_start = FALSE /\ mrd_start = FALSE
        BY <1>1, <1>3, <2>3, <3>2 DEF RegisterClock, StartBits, Legal
      <4> QED BY <2>1, <2>3, <4>1 DEF RegisterFile, HoldReset
    <3> QED BY <3>1, <3>2
  <2> QED BY <1>1, <2>2, <2>3
<1> QED BY <1>1, <1>2, <1>3 DEF MemTypeOK

LEMMA ReadsConform ==
  ASSUME PartsOK, Pipe, RxClock PROVE ReadRequest
<1>1. req_compl' \in BOOLEAN
  BY RxTypeClock DEF PartsOK, TypeOK
<1>2. CASE req_compl = FALSE
  BY <1>1, <1>2 DEF ReadRequest
<1>3. CASE req_compl = TRUE
  <2>1. RxReadWait
    BY <1>3 DEF Pipe, RxClock, RxIdle, RxRead, RxWrite, RxReadAddress, RxWriteWait, RxWriteData,
       RxCpldFirst, RxCpldNext, RxGap, RxCpld, RxCpl, RxCplEnd
  <2> QED BY <1>3, <2>1 DEF RxReadWait, ReadRequest
<1> QED BY <1>2, <1>3 DEF PartsOK, TypeOK, FlagsOK

(* So every clock of the endpoint is one of the transmit engine's own.     *)
LEMMA EpClockIsClock ==
  ASSUME PartsOK, Pipe, Legal, ResetProgress, NEW rdy \in BOOLEAN, NEW ready \in BOOLEAN,
         EpClock(rdy, ready)
  PROVE  Clock(rdy, FALSE, TRUE) /\ Next
<1>1. Clock(rdy, FALSE, TRUE)
  BY RegistersConform, ReadsConform DEF EpClock, Clock
<1>2. FALSE \in Discontinues /\ TRUE \in BusMaster
  BY DEF Discontinues, BusMaster
<1> QED BY <1>1, <1>2 DEF Next

EndpointCore == PartsOK /\ Pipe /\ Legal /\ ResetProgress

LEMMA CoreInit == EpInit => EndpointCore
<1> SUFFICES ASSUME EpInit PROVE EndpointCore
  OBVIOUS
<1> USE EpSpanAssumption DEF EpInit
<1>1. TypeOK
  BY TransferInvInit
<1>2. RxTypeOK /\ MemTypeOK /\ IntrTypeOK
  BY DEF RxTypeOK, RxStates, Writes, MemTypeOK, IntrTypeOK
<1>3. HostTypeOK /\ SizeTypeOK
  <2>1. 0 \in 0..(CplSpan - 1) /\ 0 \in 0..(SizeSpan - 1) /\ 0 \in 0..MaxStall /\ 0 \in Nat
        /\ 0 \in 0..MrdLen
    BY SpanAssumption, TransferAssumption
  <2>2. HostTypeOK
    BY <2>1 DEF HostTypeOK
  <2>3. SizeTypeOK
    BY <2>1 DEF SizeTypeOK
  <2> QED BY <2>2, <2>3
<1>4. Pipe /\ Legal /\ ResetProgress
  BY DEF Init, Pipe, Legal, ResetProgress, InFlight
<1> QED BY <1>1, <1>2, <1>3, <1>4 DEF EndpointCore, PartsOK

LEMMA PartsStutter == PartsOK /\ Pipe /\ UNCHANGED epVars => PartsOK' /\ Pipe'
<1> SUFFICES ASSUME PartsOK, Pipe, UNCHANGED epVars PROVE PartsOK' /\ Pipe'
  OBVIOUS
<1> USE DEF epVars, vars, inputs, txVars, writer, reader, arbiter, trace, rx, cpld, access, mem,
            intr, turnoff, host, PartsOK
<1>1. TypeOK'
  BY DEF TypeOK, FlagsOK, CountersOK
<1>2. RxTypeOK' /\ MemTypeOK' /\ IntrTypeOK' /\ HostTypeOK' /\ SizeTypeOK'
  BY DEF RxTypeOK, MemTypeOK, IntrTypeOK, HostTypeOK, SizeTypeOK
<1>3. Pipe'
  BY DEF Pipe, InFlight
<1> QED BY <1>1, <1>2, <1>3

LEMMA CoreStutters == EndpointCore /\ UNCHANGED epVars => EndpointCore'
<1> SUFFICES ASSUME EndpointCore, UNCHANGED epVars PROVE EndpointCore'
  OBVIOUS
<1> USE DEF epVars, vars, inputs, txVars, writer, reader, arbiter, trace, rx, cpld, access, mem,
            intr, turnoff, host, EndpointCore
<1>1. PartsOK' /\ Pipe'
  BY PartsStutter
<1>2. Legal'
  BY DEF Legal
<1>3. ResetProgress'
  BY DEF ResetProgress, Position, EndOfTlp
<1> QED BY <1>1, <1>2, <1>3

(* The types and the way of a write do not depend on how long the core     *)
(* stalls.                                                                 *)
LEMMA PartsClock ==
  ASSUME PartsOK, Pipe, NEW rdy \in BOOLEAN, NEW ready \in BOOLEAN, EpClock(rdy, ready)
  PROVE  PartsOK' /\ Pipe'
<1> USE DEF PartsOK
<1>1. RxTypeOK' /\ MemTypeOK' /\ IntrTypeOK' /\ HostTypeOK' /\ SizeTypeOK'
  BY RxTypeClock, MemTypeClock, IntrTypeClock, HostTypeClock, SizeTypeClock
  DEF EpClock, TypeOK, FlagsOK
<1>2. /\ init_rst' \in BOOLEAN /\ mwr_start' \in BOOLEAN /\ mrd_start' \in BOOLEAN
      /\ req_compl' \in BOOLEAN
  BY RxTypeClock, MemTypeClock DEF EpClock, TypeOK
<1>3. TypeOK'
  BY <1>2, FlagsClock, CountersClock DEF EpClock, TxClock, TypeOK
<1>4. Pipe'
  BY PipeClock
<1> QED BY <1>1, <1>3, <1>4

LEMMA CoreClock ==
  ASSUME MaxStall <= 4, EndpointCore, NEW rdy \in BOOLEAN, NEW ready \in BOOLEAN,
         EpClock(rdy, ready)
  PROVE  EndpointCore' /\ Next
<1>1. PartsOK' /\ Pipe'
  BY PartsClock DEF EndpointCore
<1>2. Legal'
  BY LegalClock DEF EndpointCore
<1>3. ResetProgress'
  BY <1>1, ResetProgressClock DEF EndpointCore, PartsOK, TypeOK, FlagsOK
<1> QED BY <1>1, <1>2, <1>3, EpClockIsClock DEF EndpointCore

LEMMA PartsStep == PartsOK /\ Pipe /\ [EpNext]_epVars => PartsOK' /\ Pipe'
<1> SUFFICES ASSUME PartsOK, Pipe, [EpNext]_epVars PROVE PartsOK' /\ Pipe'
  OBVIOUS
<1>1. CASE UNCHANGED epVars
  BY <1>1, PartsStutter
<1>2. ASSUME NEW rdy \in BOOLEAN, NEW ready \in BOOLEAN, EpClock(rdy, ready)
      PROVE  PartsOK' /\ Pipe'
  BY <1>2, PartsClock
<1> QED BY <1>1, <1>2, EpClocks

LEMMA CoreStep ==
  ASSUME MaxStall <= 4, EndpointCore, [EpNext]_epVars PROVE EndpointCore' /\ [Next]_vars
<1>1. CASE UNCHANGED epVars
  BY <1>1, CoreStutters DEF epVars
<1>2. ASSUME NEW rdy \in BOOLEAN, NEW ready \in BOOLEAN, EpClock(rdy, ready)
      PROVE  EndpointCore' /\ [Next]_vars
  BY <1>2, CoreClock
<1> QED BY <1>1, <1>2, EpClocks

(* The composition implements the specification of the transmit engine by  *)
(* itself: registers, receive engine and reset pulses do to it only what   *)
(* that specification lets its environment do (BMD_EP_MEM.v, the states of *)
(* BMD_64_RX_ENGINE.v), for every transfer, as long as the core holds no   *)
(* beat for more than four clocks of a reset pulse.  With five it does not:*)
(* a header that waits through the pulse is counted in the next transfer.  *)
THEOREM EndpointImplementsTx ==
  ASSUME MaxStall <= 4 PROVE EpSpec => ImplementsTxEngine
<1>1. EpInit => Init /\ EndpointCore
  BY CoreInit DEF EpInit
<1>2. EndpointCore /\ [EpNext]_epVars => EndpointCore' /\ [Next]_vars
  BY CoreStep
<1> QED BY <1>1, <1>2, PTL DEF EpSpec, Spec, ImplementsTxEngine

(* An accepted register write changes the register it names, with its data,*)
(* before the next one is accepted: the receive engine waits for the access*)
(* controller (wr_busy).                                                   *)
THEOREM RegisterWritesLand == EpSpec => []WritesLand
<1>1. EpInit => PartsOK /\ Pipe
  BY CoreInit DEF EndpointCore
<1>2. PartsOK /\ Pipe /\ [EpNext]_epVars => PartsOK' /\ Pipe'
  BY PartsStep
<1>3. PartsOK /\ Pipe => WritesLand
  BY DEF PartsOK, MemTypeOK, RxTypeOK, Pipe, InFlight, WritesLand
<1> QED BY <1>1, <1>2, <1>3, PTL DEF EpSpec

(* After a reset pulse nothing is left of the transfer before: not in the  *)
(* counters of completions, nor in the error and done bits, nor in the     *)
(* interrupt controller (the init_rst_i branches of its state machines).   *)
THEOREM PulseClears == EpSpec => ResetClears
<1> DEFINE Clears == init_rst /\ ~init_rst' =>
             cpld_size' = 0 /\ ~malformed' /\ ~data_err' /\ ~mrd_done_o' /\ ~cpld_done'
             /\ rd_intr' = "RST" /\ wr_intr' = "RST"
<1>1. EpInit => PartsOK /\ Pipe
  BY CoreInit DEF EndpointCore
<1>2. PartsOK /\ Pipe /\ [EpNext]_epVars => PartsOK' /\ Pipe'
  BY PartsStep
<1>3. PartsOK /\ Pipe /\ [EpNext]_epVars => [Clears]_epVars
  <2> SUFFICES ASSUME PartsOK, Pipe, NEW rdy \in BOOLEAN, NEW ready \in BOOLEAN,
                      EpClock(rdy, ready), init_rst, ~init_rst'
               PROVE  Clears
    BY EpClocks
  <2>1. mem_write_en = TRUE /\ init_rst = TRUE
    BY DEF EpClock, RegisterClock, PartsOK, MemTypeOK, TypeOK, FlagsOK
  <2>2. RxWriteWait
    BY <2>1, LandingWaits DEF PartsOK
  <2>3. cpld_size' = 0 /\ ~malformed'
    BY <2>1, <2>2 DEF RxWriteWait, NoCpld, KeepSize, KeepReal, Kept
  <2>4. ~data_err' /\ ~mrd_done_o' /\ ~cpld_done'
    BY <2>1 DEF EpClock, DoneClock, data_err_Next, Kept
  <2>5. rd_intr' = "RST" /\ wr_intr' = "RST"
    BY <2>1 DEF EpClock, IntrClock
  <2> QED BY <2>3, <2>4, <2>5
<1> QED BY <1>1, <1>2, <1>3, PTL DEF EpSpec, ResetClears
=============================================================================
