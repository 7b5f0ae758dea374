---------------------------- MODULE BmdTxEngine ----------------------------
(***************************************************************************)
(* The 64-bit transmit engine of the bus-master DMA endpoint               *)
(* (fpga/BMD/BMD_64_TX_ENGINE.v): one state machine that multiplexes the   *)
(* completions of programmed reads (PIO), the memory-write TLPs of the     *)
(* write initiator and the memory-read TLPs of the read initiator onto the *)
(* transmit interface of the PCIe core.                                    *)
(*                                                                         *)
(* A step is one clock.  Non-blocking assignments read the old value of    *)
(* every register, so the initiator-reset block, which has no else, gives  *)
(* a register its reset value exactly when the state's own branch does not *)
(* assign it: that is Kept below.  Payload, tags and traffic classes are   *)
(* left out; what remains is when a TLP starts, which address it carries,  *)
(* how the counters move and when an initiator reports that it is done.    *)
(***************************************************************************)
EXTENDS Integers, Sequences

CONSTANTS
  MwrCount,   (* memory writes of one transfer: register 4                 *)
  MrdCount,   (* memory reads of one transfer: register 9                  *)
  MwrLen,     (* double words of a memory write: register 3, bits 10:0     *)
  MrdLen,     (* double words of a memory read: register 8, bits 10:0      *)
  MwrAddr,    (* byte address of the write buffer: register 2              *)
  MrdAddr,    (* byte address of the read buffer: register 7               *)
  Mwr64,      (* memory writes use 64-bit addresses: register 3, bit 19    *)
  MwrWrr,     (* weight of the writes in the round robin: register 17      *)
  MrdWrr,     (* weight of the reads in the round robin: register 17       *)
  CountSpan,  (* 2^16 in the code: the TLP counters wrap here              *)
  DwSpan,     (* 2^10 in the code: the double-word counter wraps here      *)
  AddrSpan,   (* 2^32 in the code: the TLP address wraps here              *)
  LowSpan,    (* 2^24 in the code: only these low address bits are added   *)
  WrrSpan,    (* 2^8 in the code: the round-robin counters wrap here       *)
  DstDiscontinues,   (* the core may abort a TLP with trn_tdst_dsc_n       *)
  BusMasterToggles,  (* the host may clear the bus-master enable bit       *)
  ResetTakes  (* a reset pulse ends only once it has reset the counters    *)

ASSUME SpanAssumption ==
  /\ CountSpan \in Nat \ {0} /\ DwSpan \in Nat /\ DwSpan > 3
  /\ AddrSpan \in Nat \ {0} /\ LowSpan \in Nat \ {0} /\ WrrSpan \in Nat \ {0}

(* The low address bits are a part of the address; the driver's buffers    *)
(* start at a double word.                                                 *)
ASSUME LowBitsAssumption == AddrSpan % LowSpan = 0
ASSUME AlignAssumption == MwrAddr % 4 = 0 /\ MrdAddr % 4 = 0

ASSUME TransferAssumption ==
  /\ MwrCount \in 1..(CountSpan - 1) /\ MrdCount \in 1..(CountSpan - 1)
  /\ MwrLen \in 1..DwSpan /\ MrdLen \in 1..DwSpan
  /\ MwrAddr \in 0..(AddrSpan - 1) /\ MrdAddr \in 0..(AddrSpan - 1)
  /\ MwrWrr \in 0..(WrrSpan - 1) /\ MrdWrr \in 0..(WrrSpan - 1)

ASSUME SwitchAssumption ==
  /\ Mwr64 \in BOOLEAN /\ ResetTakes \in BOOLEAN
  /\ DstDiscontinues \in BOOLEAN /\ BusMasterToggles \in BOOLEAN

VARIABLES
  (* what the register file and the receive engine present               *)
  init_rst, mwr_start, mrd_start, req_compl,
  (* the registers of the engine                                         *)
  tx_state, req_compl_q, compl_done,
  mwr_done, cur_wr_count, pmwr_addr, cur_mwr_dw_count,
  mrd_done, cur_rd_count, pmrd_addr,
  serv_mwr, serv_mrd, tmwr_wrr_cnt, tmrd_wrr_cnt,
  (* observers: the addresses of the headers accepted since the last     *)
  (* reset, whether a write was aborted after its header, the double     *)
  (* words sent of the last write, and the TLPs one initiator started in *)
  (* a row while the other one was waiting                               *)
  mwr_hdrs, mrd_hdrs, mwr_cut, mwr_dws, mwr_row, mrd_row

inputs  == <<init_rst, mwr_start, mrd_start, req_compl>>
writer  == <<mwr_done, cur_wr_count, pmwr_addr>>
reader  == <<mrd_done, cur_rd_count, pmrd_addr>>
arbiter == <<serv_mwr, serv_mrd, tmwr_wrr_cnt, tmrd_wrr_cnt>>
trace   == <<mwr_hdrs, mrd_hdrs, mwr_cut, mwr_dws, mwr_row, mrd_row>>
txVars  == <<tx_state, req_compl_q, compl_done, writer, cur_mwr_dw_count,
             reader, arbiter, trace>>
vars    == <<inputs, txVars>>

TxStates == {"RST", "CPLD_QW1", "CPLD_WIT", "MWR_QW1", "MWR64_QW1",
             "MWR_QWN", "MRD_QW1"}
MwrHeaderStates == {"MWR_QW1", "MWR64_QW1"}

FlagsOK ==
  /\ init_rst \in BOOLEAN /\ mwr_start \in BOOLEAN
  /\ mrd_start \in BOOLEAN /\ req_compl \in BOOLEAN
  /\ req_compl_q \in BOOLEAN /\ compl_done \in BOOLEAN
  /\ mwr_done \in BOOLEAN /\ mrd_done \in BOOLEAN
  /\ serv_mwr \in BOOLEAN /\ serv_mrd \in BOOLEAN
  /\ mwr_cut \in BOOLEAN /\ tx_state \in TxStates

CountersOK ==
  /\ cur_wr_count \in 0..(CountSpan - 1)
  /\ cur_rd_count \in 0..(CountSpan - 1)
  /\ pmwr_addr \in 0..(AddrSpan - 1) /\ pmrd_addr \in 0..(AddrSpan - 1)
  /\ cur_mwr_dw_count \in 0..(DwSpan - 1)
  /\ tmwr_wrr_cnt \in 0..(WrrSpan - 1) /\ tmrd_wrr_cnt \in 0..(WrrSpan - 1)
  /\ mwr_hdrs \in Seq(Nat) /\ mrd_hdrs \in Seq(Nat)
  /\ mwr_dws \in Nat /\ mwr_row \in Nat /\ mrd_row \in Nat

TypeOK == FlagsOK /\ CountersOK

Init ==
  /\ init_rst = FALSE /\ mwr_start = FALSE /\ mrd_start = FALSE
  /\ req_compl = FALSE /\ req_compl_q = FALSE /\ compl_done = FALSE
  /\ tx_state = "RST"
  /\ mwr_done = FALSE /\ cur_wr_count = 0 /\ pmwr_addr = 0
  /\ mrd_done = FALSE /\ cur_rd_count = 1 /\ pmrd_addr = 0
  /\ cur_mwr_dw_count = 0
  /\ serv_mwr = TRUE /\ serv_mrd = TRUE
  /\ tmwr_wrr_cnt = 0 /\ tmrd_wrr_cnt = 0
  /\ mwr_hdrs = <<>> /\ mrd_hdrs = <<>> /\ mwr_cut = FALSE
  /\ mwr_dws = 0 /\ mwr_row = 0 /\ mrd_row = 0
-----------------------------------------------------------------------------
(***************************************************************************)
(* Registers that a branch leaves alone.                                   *)
(***************************************************************************)
Kept(old, reset) == IF init_rst THEN reset ELSE old

KeepWriter ==
  /\ mwr_done' = Kept(mwr_done, FALSE)
  /\ cur_wr_count' = Kept(cur_wr_count, 0)
  /\ pmwr_addr' = Kept(pmwr_addr, 0)

KeepReader ==
  /\ mrd_done' = Kept(mrd_done, FALSE)
  /\ cur_rd_count' = Kept(cur_rd_count, 1)
  /\ pmrd_addr' = Kept(pmrd_addr, 0)

KeepServ == serv_mwr' = Kept(serv_mwr, TRUE) /\ serv_mrd' = Kept(serv_mrd, TRUE)
KeepWrr ==
  /\ tmwr_wrr_cnt' = Kept(tmwr_wrr_cnt, 0)
  /\ tmrd_wrr_cnt' = Kept(tmrd_wrr_cnt, 0)
KeepArbiter == KeepServ /\ KeepWrr
KeepDw      == cur_mwr_dw_count' = Kept(cur_mwr_dw_count, 0)
KeepCompl   == compl_done' = Kept(compl_done, FALSE)

(* An observer forgets the transfer at every clock of a reset pulse.       *)
KeepHdrs == mwr_hdrs' = Kept(mwr_hdrs, <<>>) /\ mrd_hdrs' = Kept(mrd_hdrs, <<>>)
KeepCut  == mwr_cut' = Kept(mwr_cut, FALSE)
KeepRows == mwr_row' = Kept(mwr_row, 0) /\ mrd_row' = Kept(mrd_row, 0)
KeepTrace == KeepHdrs /\ KeepCut /\ KeepRows /\ UNCHANGED mwr_dws

(***************************************************************************)
(* Addresses: a header carries its address with the two low bits cleared.  *)
(* 64-bit writes and all reads add the length in the low bits only.        *)
(***************************************************************************)
DwAligned(a)  == a - (a % 4)
(* Variant: the high bits are lost.                                        *)
AddLow_NoHigh(a, n) == ((a % LowSpan) + n) % LowSpan
AddLow(a, n)  == (a - (a % LowSpan)) + (((a % LowSpan) + n) % LowSpan)
mwr_len_byte  == 4 * MwrLen
mrd_len_byte  == 4 * MrdLen

(* Variant: the first TLP is not told apart, its address is an increment.  *)
tmwr_addr_NoFirst == (pmwr_addr + mwr_len_byte) % AddrSpan

tmwr_addr ==
  IF cur_wr_count = 0 THEN MwrAddr
  ELSE IF Mwr64 THEN AddLow(pmwr_addr, mwr_len_byte)
  ELSE (pmwr_addr + mwr_len_byte) % AddrSpan

(* Variant: reads counted from 0, as the writes are.                       *)

tmrd_addr ==
  IF cur_rd_count = 1 THEN MrdAddr ELSE AddLow(pmrd_addr, mrd_len_byte)

(* The observer of the write headers stops at a cut write: the engine has  *)
(* counted it, the host never receives it.                                 *)
RecordWrite ==
  mwr_hdrs' = IF init_rst THEN <<>>
              ELSE IF mwr_cut THEN mwr_hdrs
              ELSE Append(mwr_hdrs, DwAligned(tmwr_addr))

(* A row is counted up to one more than the weight allows.                 *)
LongerRow(row, weight) == IF row > weight + 1 THEN row ELSE row + 1
-----------------------------------------------------------------------------
(***************************************************************************)
(* The state machine, one action per branch.  rdy and dsc are the inputs   *)
(* trn_tdst_rdy_n and trn_tdst_dsc_n without their active-low sense, bm is *)
(* the bus-master enable bit.  A beat is accepted when rdy and not dsc.    *)
(***************************************************************************)
MwrPending == mwr_start /\ ~mwr_done
MrdPending == mrd_start /\ ~mrd_done

CanComplete_NoDone(rdy, dsc) == req_compl_q /\ rdy /\ ~dsc
CanComplete(rdy, dsc)     == req_compl_q /\ ~compl_done /\ rdy /\ ~dsc
CanWrite(rdy, dsc, bm)    == MwrPending /\ serv_mwr /\ rdy /\ ~dsc /\ bm
CanRead(rdy, dsc, bm)     == MrdPending /\ serv_mrd /\ rdy /\ ~dsc /\ bm

(* Weighted round robin: an initiator keeps its turn for its weight.       *)
WithinWeight_OneMore(cnt, weight) == cnt # weight + 1
WithinWeight(cnt, weight)         == cnt # weight

(* An idle clock in which the core is ready toggles both service bits.     *)
IdleServ_Kept(rdy) == KeepServ
IdleServ(rdy) ==
  IF rdy THEN serv_mwr' = ~serv_mwr /\ serv_mrd' = ~serv_mrd ELSE KeepServ

(* The double words left after n more; the last one or two end the TLP.    *)
DwLeft_NoWrap(n) == cur_mwr_dw_count - n
DwLeft(n)        == (cur_mwr_dw_count - n) % DwSpan
OnlyBeat         == cur_mwr_dw_count = 1
EndOfTlp_Early   == cur_mwr_dw_count \in {1, 2, 3}
EndOfTlp         == cur_mwr_dw_count \in {1, 2}

(* The last TLP: a write header compares the count before its increment,   *)
(* the payload beat after it; reads are counted from 1.                    *)
LastInHeader       == cur_wr_count = (MwrCount - 1) % CountSpan
LastInPayload_Early == cur_wr_count = (MwrCount - 1) % CountSpan
LastInPayload      == cur_wr_count = MwrCount
LastRead_Late      == cur_rd_count = (MrdCount + 1) % CountSpan
LastRead           == cur_rd_count = MrdCount

IssueCompletion(rdy, dsc) ==
  /\ tx_state = "RST"
  /\ CanComplete(rdy, dsc)
  /\ tx_state' = "CPLD_QW1"
  /\ compl_done' = FALSE
  /\ KeepWriter /\ KeepDw /\ KeepReader /\ KeepArbiter
  /\ KeepTrace

(* The writer gives its turn to pending reads; with no read pending nobody *)
(* is served until an idle clock toggles both.                             *)
IssueWrite(rdy, dsc, bm) ==
  /\ tx_state = "RST"
  /\ ~CanComplete(rdy, dsc) /\ CanWrite(rdy, dsc, bm)
  /\ tx_state' = IF Mwr64 THEN "MWR64_QW1" ELSE "MWR_QW1"
  /\ compl_done' = FALSE
  /\ cur_mwr_dw_count' = MwrLen % DwSpan
  /\ IF WithinWeight(tmwr_wrr_cnt, MwrWrr)
       THEN /\ serv_mwr' = TRUE /\ serv_mrd' = FALSE
            /\ tmwr_wrr_cnt' = (tmwr_wrr_cnt + 1) % WrrSpan
       ELSE /\ serv_mwr' = FALSE /\ serv_mrd' = MrdPending
            /\ tmwr_wrr_cnt' = 0
  /\ tmrd_wrr_cnt' = Kept(tmrd_wrr_cnt, 0)
  /\ KeepWriter /\ KeepReader /\ KeepHdrs /\ KeepCut
  /\ mwr_row' = IF MrdPending /\ ~init_rst THEN LongerRow(mwr_row, MwrWrr) ELSE 0
  /\ mrd_row' = 0
  /\ UNCHANGED mwr_dws

IssueRead(rdy, dsc, bm) ==
  /\ tx_state = "RST"
  /\ ~CanComplete(rdy, dsc) /\ ~CanWrite(rdy, dsc, bm) /\ CanRead(rdy, dsc, bm)
  /\ tx_state' = "MRD_QW1"
  /\ compl_done' = FALSE
  /\ IF WithinWeight(tmrd_wrr_cnt, MrdWrr)
       THEN /\ serv_mrd' = TRUE /\ serv_mwr' = FALSE
            /\ tmrd_wrr_cnt' = (tmrd_wrr_cnt + 1) % WrrSpan
       ELSE /\ serv_mrd' = FALSE /\ serv_mwr' = MwrPending
            /\ tmrd_wrr_cnt' = 0
  /\ tmwr_wrr_cnt' = Kept(tmwr_wrr_cnt, 0)
  /\ KeepWriter /\ KeepDw /\ KeepReader /\ KeepHdrs /\ KeepCut
  /\ mrd_row' = IF MwrPending /\ ~init_rst THEN LongerRow(mrd_row, MrdWrr) ELSE 0
  /\ mwr_row' = 0
  /\ UNCHANGED mwr_dws

Idle(rdy, dsc, bm) ==
  /\ tx_state = "RST"
  /\ ~CanComplete(rdy, dsc)
  /\ ~CanWrite(rdy, dsc, bm) /\ ~CanRead(rdy, dsc, bm)
  /\ tx_state' = "RST"
  /\ compl_done' = FALSE
  /\ IdleServ(rdy)
  /\ KeepWrr /\ KeepWriter /\ KeepDw /\ KeepReader
  /\ KeepTrace

SendCompletion(rdy, dsc) ==
  /\ tx_state = "CPLD_QW1" /\ rdy /\ ~dsc
  /\ tx_state' = "CPLD_WIT"
  /\ compl_done' = TRUE
  /\ KeepWriter /\ KeepDw /\ KeepReader /\ KeepArbiter
  /\ KeepTrace

(* The core takes the last beat, or discontinues one of the two beats.     *)
LeaveCompletion(rdy, dsc) ==
  /\ \/ tx_state = "CPLD_QW1" /\ dsc /\ tx_state' = "CPLD_WIT"
     \/ tx_state = "CPLD_WIT" /\ (rdy \/ dsc) /\ tx_state' = "RST"
  /\ KeepCompl /\ KeepWriter /\ KeepDw /\ KeepReader /\ KeepArbiter
  /\ KeepTrace

(* Header and first double word of a 32-bit write; a write of one double   *)
(* word ends here.                                                         *)
SendWriteHeader(rdy, dsc) ==
  LET lastTlp == OnlyBeat /\ LastInHeader IN
  /\ tx_state = "MWR_QW1" /\ rdy /\ ~dsc
  /\ pmwr_addr' = tmwr_addr
  /\ cur_wr_count' = IF lastTlp THEN 0 ELSE (cur_wr_count + 1) % CountSpan
  /\ mwr_done' = IF lastTlp THEN TRUE ELSE Kept(mwr_done, FALSE)
  /\ cur_mwr_dw_count' = DwLeft(1)
  /\ tx_state' = IF OnlyBeat THEN "RST" ELSE "MWR_QWN"
  /\ RecordWrite
  /\ mrd_hdrs' = Kept(mrd_hdrs, <<>>)
  /\ mwr_dws' = 1
  /\ KeepCompl /\ KeepReader /\ KeepArbiter /\ KeepCut /\ KeepRows

SendWrite64Header(rdy, dsc) ==
  /\ tx_state = "MWR64_QW1" /\ rdy /\ ~dsc
  /\ pmwr_addr' = tmwr_addr
  /\ cur_wr_count' = (cur_wr_count + 1) % CountSpan
  /\ mwr_done' = Kept(mwr_done, FALSE)
  /\ tx_state' = "MWR_QWN"
  /\ RecordWrite
  /\ mrd_hdrs' = Kept(mrd_hdrs, <<>>)
  /\ mwr_dws' = 0
  /\ KeepDw /\ KeepCompl /\ KeepReader /\ KeepArbiter /\ KeepCut /\ KeepRows

(* Two double words per beat, or the last one or two of the TLP.           *)
SendWritePayload(rdy, dsc) ==
  LET lastTlp == EndOfTlp /\ LastInPayload
      sent    == IF cur_mwr_dw_count = 1 THEN 1 ELSE 2
  IN
  /\ tx_state = "MWR_QWN" /\ rdy /\ ~dsc
  /\ cur_mwr_dw_count' = DwLeft(sent)
  /\ tx_state' = IF EndOfTlp THEN "RST" ELSE "MWR_QWN"
  /\ cur_wr_count' = IF lastTlp THEN 0 ELSE Kept(cur_wr_count, 0)
  /\ mwr_done' = IF lastTlp THEN TRUE ELSE Kept(mwr_done, FALSE)
  /\ pmwr_addr' = Kept(pmwr_addr, 0)
  /\ mwr_dws' = IF mwr_dws > MwrLen THEN mwr_dws ELSE mwr_dws + sent
  /\ KeepCompl /\ KeepReader /\ KeepArbiter /\ KeepHdrs /\ KeepCut /\ KeepRows

SendReadRequest(rdy, dsc) ==
  /\ tx_state = "MRD_QW1" /\ rdy /\ ~dsc
  /\ pmrd_addr' = tmrd_addr
  /\ cur_rd_count' = IF LastRead THEN 0 ELSE (cur_rd_count + 1) % CountSpan
  /\ mrd_done' = IF LastRead THEN TRUE ELSE Kept(mrd_done, FALSE)
  /\ tx_state' = "RST"
  /\ mrd_hdrs' = Kept(Append(mrd_hdrs, DwAligned(tmrd_addr)), <<>>)
  /\ mwr_hdrs' = Kept(mwr_hdrs, <<>>)
  /\ KeepCompl /\ KeepWriter /\ KeepDw /\ KeepArbiter /\ KeepCut /\ KeepRows
  /\ UNCHANGED mwr_dws

(* The core discontinues a DMA TLP.  Before its header was counted it is   *)
(* sent again; a write that loses its payload has been counted.            *)
AbortDma(dsc) ==
  /\ tx_state \in MwrHeaderStates \cup {"MWR_QWN", "MRD_QW1"} /\ dsc
  /\ tx_state' = "RST"
  /\ KeepCompl /\ KeepWriter /\ KeepDw /\ KeepReader /\ KeepArbiter
  /\ KeepHdrs /\ KeepRows
  /\ mwr_cut' = Kept(mwr_cut \/ tx_state = "MWR_QWN", FALSE)
  /\ UNCHANGED mwr_dws

(* The core accepts no beat: the branch assigns the state it is in.        *)
Stall(rdy, dsc) ==
  /\ tx_state # "RST" /\ ~rdy /\ ~dsc
  /\ tx_state' = tx_state
  /\ KeepCompl /\ KeepWriter /\ KeepDw /\ KeepReader /\ KeepArbiter
  /\ KeepTrace

TxBranch(rdy, dsc, bm) ==
  \/ IssueCompletion(rdy, dsc)
  \/ IssueWrite(rdy, dsc, bm) \/ IssueRead(rdy, dsc, bm) \/ Idle(rdy, dsc, bm)
  \/ SendCompletion(rdy, dsc) \/ LeaveCompletion(rdy, dsc)
  \/ SendWriteHeader(rdy, dsc) \/ SendWrite64Header(rdy, dsc)
  \/ SendWritePayload(rdy, dsc) \/ SendReadRequest(rdy, dsc)
  \/ AbortDma(dsc) \/ Stall(rdy, dsc)

(* One clock of the engine; req_compl_q is req_compl one clock later.      *)
TxClock(rdy, dsc, bm) == TxBranch(rdy, dsc, bm) /\ req_compl_q' = req_compl
-----------------------------------------------------------------------------
(***************************************************************************)
(* What drives the inputs.  Writing register 1 starts the initiators;      *)
(* writing 1 and then 0 to register 0 is a reset pulse, whose first clock  *)
(* also clears the start bits (common/BMD_EP_MEM.v).  The receive engine   *)
(* raises req_compl for a read request and holds it until it sees          *)
(* compl_done (BMD_64_RX_ENGINE.v, MEM_RD32_WT).                           *)
(***************************************************************************)
WriterReset == tx_state \notin MwrHeaderStates /\ cur_wr_count = 0 /\ ~mwr_done
ReaderReset == tx_state # "MRD_QW1" /\ cur_rd_count = 1 /\ ~mrd_done

StartDma ==
  /\ ~init_rst /\ ~mwr_start /\ ~mrd_start
  /\ mwr_start' \in BOOLEAN /\ mrd_start' \in BOOLEAN
  /\ mwr_start' \/ mrd_start'
  /\ UNCHANGED init_rst

BeginReset == ~init_rst /\ init_rst' = TRUE /\ UNCHANGED <<mwr_start, mrd_start>>

HoldReset ==
  /\ init_rst
  /\ UNCHANGED init_rst
  /\ mwr_start' = FALSE /\ mrd_start' = FALSE

EndReset ==
  /\ init_rst /\ ~mwr_start /\ ~mrd_start
  /\ init_rst' = FALSE
  /\ ResetTakes => (WriterReset /\ ReaderReset)'
  /\ UNCHANGED <<mwr_start, mrd_start>>

NoAccess == ~init_rst /\ UNCHANGED <<init_rst, mwr_start, mrd_start>>

RegisterFile == StartDma \/ BeginReset \/ HoldReset \/ EndReset \/ NoAccess

ReadRequest == IF req_compl THEN req_compl' = ~compl_done ELSE req_compl' \in BOOLEAN

Clock(rdy, dsc, bm) == TxClock(rdy, dsc, bm) /\ RegisterFile /\ ReadRequest

Discontinues == IF DstDiscontinues THEN BOOLEAN ELSE {FALSE}
BusMaster    == IF BusMasterToggles THEN BOOLEAN ELSE {TRUE}

Next ==
  \E rdy \in BOOLEAN, dsc \in Discontinues, bm \in BusMaster : Clock(rdy, dsc, bm)

Spec == Init /\ [][Next]_vars

(***************************************************************************)
(* The core is ready again and again.  Its readiness does not follow the   *)
(* state machine: if the engine is free for DMA (no completion to send)    *)
(* again and again, it is at some time free while the core is ready.       *)
(***************************************************************************)
FreeForDma == tx_state = "RST" /\ ~(req_compl_q /\ ~compl_done)
Fairness ==
  /\ WF_vars(Clock(TRUE, FALSE, TRUE))
  /\ SF_vars(FreeForDma /\ Clock(TRUE, FALSE, TRUE))
FairSpec == Spec /\ Fairness
-----------------------------------------------------------------------------
(***************************************************************************)
(* Safety.                                                                 *)
(***************************************************************************)

(* The write initiator reports done exactly when it has sent the number of *)
(* TLPs that register 4 asks for, and never starts one more.               *)
WriteDoneIsExact ==
  ~init_rst /\ ~mwr_cut =>
    /\ Len(mwr_hdrs) <= MwrCount
    /\ mwr_done <=> Len(mwr_hdrs) = MwrCount /\ tx_state # "MWR_QWN"

(* The read initiator stops after the number of requests register 9 asks   *)
(* for: a request too many would never be matched by expected data.        *)
ReadRequestsAreExact ==
  ~init_rst =>
    /\ Len(mrd_hdrs) <= MrdCount
    /\ mrd_done <=> Len(mrd_hdrs) = MrdCount

(* Consecutive writes cover the buffer from its beginning on, without gap  *)
(* or overlap.                                                             *)
WritesTileTheBuffer ==
  ~init_rst =>
    \A i \in 1..Len(mwr_hdrs) : mwr_hdrs[i] = MwrAddr + (i - 1) * mwr_len_byte

(* The same for the read requests.                                         *)
ReadsTileTheBuffer ==
  ~init_rst =>
    \A i \in 1..Len(mrd_hdrs) : mrd_hdrs[i] = MrdAddr + (i - 1) * mrd_len_byte

(* Nothing beyond the buffers: no TLP more than they have room for.        *)
NothingOutside ==
  ~init_rst =>
    /\ ~mwr_cut => Len(mwr_hdrs) <= MwrCount
    /\ Len(mrd_hdrs) <= MrdCount

(* All of it for both while the core may cut any TLP.  A write that is cut *)
(* behind its header is counted and never arrives: from there on no more   *)
(* headers are recorded (mwr_cut).                                         *)
TransfersTile == WritesTileTheBuffer /\ ReadsTileTheBuffer /\ NothingOutside

(* A write carries as much payload as the length field of its header says, *)
(* whatever stalls fall into it.                                           *)
PayloadMatchesHeader ==
  ~init_rst /\ ~mwr_cut /\ mwr_hdrs # <<>> /\ tx_state # "MWR_QWN" =>
    mwr_dws = MwrLen

(* Weighted round robin: while one initiator waits, the other sends at     *)
(* most its weight plus one TLPs.                                          *)
WeightBoundsTheRow == mwr_row <= MwrWrr + 1 /\ mrd_row <= MrdWrr + 1

-----------------------------------------------------------------------------
(***************************************************************************)
(* Why the safety properties hold: the counters agree with the headers     *)
(* sent, the last address with the last header, and the payload sent with  *)
(* the payload left.                                                       *)
(***************************************************************************)
WriteCounters ==
  ~init_rst /\ ~mwr_cut =>
    IF mwr_done
      THEN /\ cur_wr_count = 0 /\ Len(mwr_hdrs) = MwrCount
           /\ tx_state \notin MwrHeaderStates \cup {"MWR_QWN"}
      ELSE /\ cur_wr_count = Len(mwr_hdrs) /\ cur_wr_count <= MwrCount
           /\ tx_state # "MWR_QWN" => cur_wr_count < MwrCount

ReadCounters ==
  ~init_rst =>
    IF mrd_done
      THEN cur_rd_count = 0 /\ Len(mrd_hdrs) = MrdCount /\ tx_state # "MRD_QW1"
      ELSE cur_rd_count = Len(mrd_hdrs) + 1 /\ Len(mrd_hdrs) < MrdCount

WriteAddresses ==
  /\ WritesTileTheBuffer
  /\ ~init_rst /\ ~mwr_cut /\ cur_wr_count > 0 =>
       pmwr_addr = MwrAddr + (cur_wr_count - 1) * mwr_len_byte

ReadAddresses ==
  /\ ReadsTileTheBuffer
  /\ ~init_rst /\ cur_rd_count > 1 =>
       pmrd_addr = MrdAddr + (cur_rd_count - 2) * mrd_len_byte

PayloadLeft == IF cur_mwr_dw_count = 0 THEN DwSpan ELSE cur_mwr_dw_count

WritePayload ==
  ~init_rst /\ ~mwr_cut =>
    /\ tx_state \in MwrHeaderStates => PayloadLeft = MwrLen
    /\ mwr_hdrs # <<>> =>
         mwr_dws + (IF tx_state = "MWR_QWN" THEN PayloadLeft ELSE 0) = MwrLen

(* What a transfer has sent so far: count, addresses and payload are exact *)
(* at every clock, for writes, reads and completions in any order.  With   *)
(* TypeOK this conjunction is inductive when reset pulses take.            *)
TransferInv ==
  WriteCounters /\ ReadCounters /\ WriteAddresses /\ ReadAddresses /\ WritePayload

(***************************************************************************)
(* Liveness, while the core keeps accepting beats and bus mastering stays  *)
(* enabled.                                                                *)
(***************************************************************************)

(* A started transfer completes unless it is reset, however reads, writes, *)
(* PIO completions and stalls fall around each other: the round robin may  *)
(* find both service bits clear, or the bit of an initiator that has       *)
(* nothing to send.                                                        *)
WritesComplete == MwrPending ~> (mwr_done \/ init_rst)
ReadsComplete  == MrdPending ~> (mrd_done \/ init_rst)
TransfersComplete == WritesComplete /\ ReadsComplete
=============================================================================
