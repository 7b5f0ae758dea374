---------------------------- MODULE BmdEndpoint ----------------------------
(***************************************************************************)
(* The endpoint on its clock: the transmit engine of BmdTxEngine, composed *)
(* with the 64-bit receive engine (BMD_64_RX_ENGINE.v), the access         *)
(* controller and the registers (common/BMD_EP_MEM_ACCESS.v, BMD_EP_MEM.v),*)
(* the interrupt controller (BMD_INTR_CTRL.v) and the turn-off control     *)
(* (BMD_TO_CTRL.v).  Every action is one clock of one of them; a clock of  *)
(* the endpoint is their conjunction.                                      *)
(*                                                                         *)
(* The host reads and writes registers, answers read requests, in one      *)
(* completion or several, and clears a legacy interrupt.  Registers 0, 1   *)
(* and 18 are modelled, the others keep what a driver has programmed; all  *)
(* byte enables of a write are set, reads are of register 1, and           *)
(* interrupts are not disabled there.  What the host sends is well-formed, *)
(* and of a length the engine serves.  The read throttle has its metering  *)
(* input at 0 and passes mrd_start on.                                     *)
(* A definition with a suffix is the next one with a plausible bug.        *)
(***************************************************************************)
EXTENDS BmdTxEngine

CONSTANTS
  Env,        (* what the host and the core may do, see below              *)
  MaxStall,   (* clocks in a row, of a reset pulse, without a beat taken   *)
  CplSpan,    (* 2^7 in the code: the sizes of one completion wrap here    *)
  SizeSpan    (* 2^21 in the code: the expected size wraps here            *)

(* "wrongdata"  the host may return data that has not the pattern          *)
(* "refused"    the host may refuse a read request: a completion that has  *)
(*              no data and says so ends it                                *)
(* "pipelined"  the host may have two register reads on their way          *)
(* "gaps"       the core may pause inside a completion                     *)
(* "resetread"  the host may read a register within a reset pulse, as the  *)
(*              Windows interrupt routine does on a shared interrupt       *)
ASSUME EnvAssumption == Env \subseteq {"wrongdata", "refused", "pipelined", "gaps", "resetread"}
ASSUME EpSpanAssumption ==
  MaxStall \in Nat /\ CplSpan \in Nat \ {0, 1} /\ SizeSpan \in Nat \ {0}

(* The data of one transfer, in double words, fits the counter.            *)
Total == MrdLen * MrdCount
ASSUME TotalAssumption == Total < SizeSpan

VARIABLES
  (* the receive engine                                                    *)
  rx_state, dst_rdy, addr, wr_en, wr_data,
  cpld_size, cpld_tlp_size, cpld_real_size, malformed, checked, data_err,
  (* the access controller and the registers                               *)
  mem_state, mem_write_en, mem_wr_data, rd_d, legacyclr,
  expect, size_q, cpld_done, mrd_done_o,
  (* the interrupt controller and the turn-off control                     *)
  msi, intr_state, rd_intr, wr_intr, trn_pending, turnoff_ok,
  (* the host: reads not answered, double words it owes, those to come of  *)
  (* the completion on the bus, those it has refused to send, and whether  *)
  (* it has sent wrong ones; how long the core has stalled in a reset pulse*)
  asked, owed, togo, refused, wrong, stall,
  (* observers: the state of the legacy wire at the host, whether a reset  *)
  (* has come while it was asserted or data was owed, and the write that   *)
  (* has been accepted                                                     *)
  intx, orphan, stale, accepted

rx      == <<rx_state, dst_rdy, req_compl, addr, wr_en, wr_data>>
cpld    == <<cpld_size, cpld_tlp_size, cpld_real_size, malformed, checked, data_err>>
access  == <<mem_state, mem_write_en, mem_wr_data>>
mem     == <<rd_d, legacyclr, expect, size_q, cpld_done, mrd_done_o>>
intr    == <<msi, intr_state, rd_intr, wr_intr, intx, orphan>>
turnoff == <<trn_pending, turnoff_ok>>
host    == <<asked, owed, togo, refused, wrong, stall, stale, accepted>>
epVars  == <<vars, rx, cpld, access, mem, intr, turnoff, host>>

RxStates == {"RST", "RD32_QW1", "RD32_WT", "WR32_QW1", "WR32_WT", "CPL_QW1",
             "CPLD_QW1", "CPLD_QWN"}
Writes == {"reset", "release", "write", "read", "both", "clear", "unclear"}
RegisterOf(w) ==
  CASE w \in {"reset", "release"} -> 0 [] w \in {"clear", "unclear"} -> 18 [] OTHER -> 1

EpTypeOK ==
  /\ TypeOK
  /\ rx_state \in RxStates /\ dst_rdy \in BOOLEAN /\ addr \in {0, 1, 18}
  /\ wr_en \in BOOLEAN /\ wr_data \in Writes
  /\ cpld_size \in Nat /\ cpld_tlp_size \in 0..(CplSpan - 1)
  /\ cpld_real_size \in 0..(CplSpan - 1) /\ malformed \in BOOLEAN
  /\ checked \in BOOLEAN /\ data_err \in BOOLEAN
  /\ mem_state \in {"RST", "READ", "WRITE"} /\ mem_write_en \in BOOLEAN
  /\ mem_wr_data \in Writes /\ legacyclr \in BOOLEAN
  /\ rd_d \in [reg : {0, 1, 18}, mwr : BOOLEAN, mrd : BOOLEAN, err : BOOLEAN]
  /\ expect \in 0..(SizeSpan - 1) /\ size_q \in 0..(SizeSpan - 1)
  /\ cpld_done \in BOOLEAN /\ mrd_done_o \in BOOLEAN
  /\ msi \in BOOLEAN /\ intr_state \in {"RST", "RD", "WR"}
  /\ rd_intr \in {"RST", "ACT", "ACT2", "DUN"} /\ wr_intr \in {"RST", "ACT", "ACT2", "DUN"}
  /\ trn_pending \in BOOLEAN /\ turnoff_ok \in BOOLEAN
  /\ asked \in 0..2 /\ owed \in 0..(2 * Total) /\ wrong \in BOOLEAN
  /\ togo \in 0..MrdLen /\ refused \in Nat
  /\ stall \in 0..MaxStall /\ stale \in BOOLEAN /\ accepted \in Writes \cup {"none"}
  /\ intx \in BOOLEAN /\ orphan \in BOOLEAN

EpInit ==
  /\ Init
  /\ rx_state = "RST" /\ dst_rdy = TRUE /\ addr = 0 /\ wr_en = FALSE /\ wr_data = "release"
  /\ cpld_size = 0 /\ cpld_tlp_size = 0 /\ cpld_real_size = 0 /\ malformed = FALSE
  /\ checked = FALSE /\ data_err = FALSE
  /\ mem_state = "RST" /\ mem_write_en = FALSE /\ mem_wr_data = "release"
  /\ rd_d = [reg |-> 0, mwr |-> FALSE, mrd |-> FALSE, err |-> FALSE] /\ legacyclr = FALSE
  /\ expect = 0 /\ size_q = 0 /\ cpld_done = FALSE /\ mrd_done_o = FALSE
  /\ msi \in BOOLEAN /\ intr_state = "RST" /\ rd_intr = "RST" /\ wr_intr = "RST"
  /\ trn_pending = FALSE /\ turnoff_ok = FALSE
  /\ asked = 0 /\ owed = 0 /\ togo = 0 /\ refused = 0 /\ wrong = FALSE
  /\ stall = 0
  /\ intx = FALSE /\ orphan = FALSE /\ stale = FALSE /\ accepted = "none"
-----------------------------------------------------------------------------
(***************************************************************************)
(* The receive engine, one action per branch.  The init_rst_i block has no *)
(* else here either: a branch overrides it, so the state is never reset.   *)
(***************************************************************************)
KeepSize_NoReset == UNCHANGED <<cpld_size, cpld_tlp_size>>
KeepSize == cpld_size' = Kept(cpld_size, 0) /\ cpld_tlp_size' = Kept(cpld_tlp_size, 0)
KeepReal_NoReset == UNCHANGED <<cpld_real_size, malformed>>
KeepReal == cpld_real_size' = Kept(cpld_real_size, 0) /\ malformed' = Kept(malformed, FALSE)
NoData   == checked' = FALSE /\ wrong' = Kept(wrong, FALSE)
NoCpld   == KeepSize /\ KeepReal /\ NoData /\ togo' = togo
NoPio    == wr_en' = FALSE /\ req_compl' = FALSE /\ UNCHANGED <<addr, wr_data>>

(* The host: a read of it is answered by the last beat of a completion,    *)
(* and it owes the data of a read request when the core has taken it.      *)
Answered  == tx_state = "CPLD_WIT" /\ tx_state' = "RST"
Requested == tx_state = "MRD_QW1" /\ tx_state' = "RST"
Ask(n) == asked' = asked + n - (IF Answered /\ asked > 0 THEN 1 ELSE 0)
Settle(sent, not) ==
  /\ owed' = owed - sent - not + (IF Requested THEN MrdLen ELSE 0)
  /\ refused' = Kept(refused, 0) + not
Pay(n)    == Settle(n, 0)
Refuse(n) == Settle(0, n)
Same   == Ask(0) /\ Pay(0)

(* A bound: with legacy interrupts (~msi) the host waits for the interrupt *)
(* instead of polling, sends right data and refuses nothing, clears an     *)
(* interrupt before it resets, and starts nothing once a reset has         *)
(* overtaken one (orphan).                                                 *)
InResetPulse == init_rst \/ (mem_write_en /\ mem_wr_data = "reset")
CanAsk ==
  /\ msi
  /\ asked < IF "pipelined" \in Env THEN 2 ELSE 1
  /\ "resetread" \in Env \/ ~InResetPulse

(* The first beat is the header.  Without a valid one the engine waits.    *)
RxIdle ==
  /\ rx_state = "RST"
  /\ rx_state' = "RST" /\ dst_rdy' = TRUE
  /\ NoPio /\ NoCpld /\ Same

RxRead ==
  /\ rx_state = "RST" /\ dst_rdy /\ CanAsk
  /\ rx_state' = "RD32_QW1" /\ dst_rdy' = TRUE
  /\ NoPio /\ NoCpld /\ Ask(1) /\ Pay(0)

(* A driver resets the engine, starts a transfer, by register 1, in one    *)
(* that is neither in reset nor started, and clears a legacy interrupt     *)
(* while it is asserted; the end of a reset pulse may come at any time.    *)
(* The bound: data of at most one reset transfer is on its way.            *)
HostStarts == IF mwr_start \/ mrd_start \/ orphan THEN {} ELSE {"write", "read", "both"}
HostResets == IF (stale /\ owed > 0) \/ intx \/ legacyclr THEN {} ELSE {"reset"}
HostClears == IF legacyclr THEN {"unclear"} ELSE IF intx THEN {"clear"} ELSE {}
HostWrites ==
  IF init_rst \/ HostStarts \cup HostResets = {} THEN {"release"} \cup HostClears
  ELSE HostStarts \cup HostResets \cup HostClears

RxWrite ==
  /\ rx_state = "RST" /\ dst_rdy
  /\ rx_state' = "WR32_QW1" /\ dst_rdy' = TRUE
  /\ NoPio /\ NoCpld /\ Same

(* The second beat has the register and the data.                          *)
RxReadAddress ==
  /\ rx_state = "RD32_QW1"
  /\ addr' = 1
  /\ rx_state' = "RD32_WT" /\ dst_rdy' = FALSE
  /\ req_compl' = TRUE /\ wr_en' = FALSE
  /\ NoCpld /\ Same /\ UNCHANGED wr_data

RxReadWait_OneClock ==
  /\ rx_state = "RD32_WT"
  /\ rx_state' = "RST" /\ dst_rdy' = FALSE
  /\ NoPio /\ NoCpld /\ Same
RxReadWait ==
  /\ rx_state = "RD32_WT"
  /\ rx_state' = IF compl_done THEN "RST" ELSE "RD32_WT"
  /\ dst_rdy' = FALSE /\ req_compl' = ~compl_done /\ wr_en' = FALSE
  /\ NoCpld /\ Same /\ UNCHANGED <<addr, wr_data>>

RxWriteData_NoWait ==
  /\ rx_state = "WR32_QW1"
  /\ wr_data' \in HostWrites /\ addr' = RegisterOf(wr_data')
  /\ rx_state' = "RST" /\ dst_rdy' = TRUE
  /\ wr_en' = TRUE /\ req_compl' = FALSE
  /\ NoCpld /\ Same
RxWriteData ==
  /\ rx_state = "WR32_QW1"
  /\ wr_data' \in HostWrites /\ addr' = RegisterOf(wr_data')
  /\ rx_state' = "WR32_WT" /\ dst_rdy' = FALSE
  /\ wr_en' = TRUE /\ req_compl' = FALSE
  /\ NoCpld /\ Same

wr_busy == wr_en \/ mem_state # "RST"
RxWriteWait ==
  /\ rx_state = "WR32_WT"
  /\ rx_state' = IF wr_busy THEN "WR32_WT" ELSE "RST"
  /\ dst_rdy' = FALSE
  /\ NoPio /\ NoCpld /\ Same

(* A completion counts with its header, before its data.                   *)
RxCpld(n) ==
  /\ rx_state = "RST" /\ dst_rdy
  /\ rx_state' = "CPLD_QW1" /\ dst_rdy' = TRUE
  /\ cpld_size' = cpld_size + n /\ cpld_tlp_size' = n % CplSpan
  /\ cpld_real_size' = 0 /\ malformed' = Kept(malformed, FALSE)
  /\ togo' = n
  /\ NoPio /\ NoData /\ Ask(0) /\ Pay(n)

(* One without data, of an unsuccessful request, has one beat more.        *)
RxCpl(n) ==
  /\ rx_state = "RST" /\ dst_rdy
  /\ msi /\ ~wrong /\ refused = 0 /\ "refused" \in Env
  /\ rx_state' = "CPL_QW1" /\ dst_rdy' = TRUE
  /\ NoPio /\ NoCpld /\ Ask(0) /\ Refuse(n)

RxCplEnd ==
  /\ rx_state = "CPL_QW1"
  /\ rx_state' = "RST" /\ dst_rdy' = TRUE
  /\ NoPio /\ NoCpld /\ Same

(* The beats of data: one double word, then two, or one at the end.  The   *)
(* end of the TLP and the double words of its last beat are the bus's      *)
(* (trn_reof_n, trn_rrem_n), the size they are compared with the engine's  *)
(* own, which a reset clears.  What is on the bus is compared one clock    *)
(* later.  The bound: the host sends one wrong beat, or refuses once, in a *)
(* transfer.                                                               *)
Beat(n) ==
  /\ togo' = togo - n
  /\ checked' \in IF msi /\ ~wrong /\ refused = 0 /\ "wrongdata" \in Env THEN BOOLEAN ELSE {FALSE}
  /\ wrong' = (Kept(wrong, FALSE) \/ checked')
  /\ dst_rdy' = TRUE
  /\ NoPio /\ KeepSize /\ Same

RxCpldFirst ==
  /\ rx_state = "CPLD_QW1" /\ Beat(1)
  /\ cpld_real_size' = (cpld_real_size + 1) % CplSpan
  /\ malformed' = IF togo = 1 /\ cpld_tlp_size # 1 THEN TRUE ELSE Kept(malformed, FALSE)
  /\ rx_state' = IF togo = 1 THEN "RST" ELSE "CPLD_QWN"

Whole(n) == cpld_tlp_size = (cpld_real_size + n) % CplSpan
RxCpldNext ==
  /\ rx_state = "CPLD_QWN"
  /\ LET n == IF togo = 1 THEN 1 ELSE 2
         end == togo \in {1, 2}
     IN
     /\ Beat(n)
     /\ cpld_real_size' = (cpld_real_size + n) % CplSpan
     /\ rx_state' = IF end THEN "RST" ELSE "CPLD_QWN"
     /\ malformed' = IF end /\ ~Whole(n) THEN TRUE ELSE Kept(malformed, FALSE)

(* A clock without a valid beat: the state waits, but in a completion the  *)
(* comparison takes what is on the bus, whatever trn_rsrc_rdy_n says.      *)
RxGap ==
  /\ \/ rx_state \in {"RD32_QW1", "WR32_QW1", "CPL_QW1"} /\ checked' = FALSE
     \/ /\ rx_state \in {"CPLD_QW1", "CPLD_QWN"} /\ "gaps" \in Env
        /\ checked' \in BOOLEAN
  /\ rx_state' = rx_state /\ dst_rdy' = TRUE /\ wrong' = Kept(wrong, FALSE)
  /\ NoPio /\ KeepSize /\ KeepReal /\ togo' = togo /\ Same

RxClock ==
  \/ RxIdle \/ RxRead \/ RxWrite \/ RxReadAddress \/ RxReadWait
  \/ RxWriteData \/ RxWriteWait \/ RxCplEnd \/ RxCpldFirst \/ RxCpldNext \/ RxGap
  \/ \E n \in 1..MrdLen : n =< owed /\ (RxCpld(n) \/ RxCpl(n))

(* A wrong beat sets the error for good.                                   *)
data_err_Last == ~init_rst /\ checked
data_err_Next == ~init_rst /\ (data_err \/ checked)
-----------------------------------------------------------------------------
(***************************************************************************)
(* The access controller reads, merges and writes a register; the registers*)
(* follow in the clock in which it asks them to.                           *)
(***************************************************************************)
AccessClock ==
  /\ mem_state' = CASE mem_state = "RST" -> IF wr_en THEN "READ" ELSE "RST"
                    [] mem_state = "READ" -> "WRITE"
                    [] mem_state = "WRITE" -> "RST"
  /\ mem_write_en' = (mem_state = "WRITE")
  /\ mem_wr_data' = IF mem_state = "WRITE" THEN wr_data ELSE mem_wr_data

(* Initiator reset clears the start bits while register 0 is addressed.    *)
StartBits_Kept ==
  IF mem_write_en /\ addr = 1
    THEN mwr_start' = (mem_wr_data \in {"write", "both"})
         /\ mrd_start' = (mem_wr_data \in {"read", "both"})
    ELSE UNCHANGED <<mwr_start, mrd_start>>
StartBits ==
  IF addr = 0 /\ init_rst THEN mwr_start' = FALSE /\ mrd_start' = FALSE
  ELSE IF mem_write_en /\ addr = 1
    THEN mwr_start' = (mem_wr_data \in {"write", "both"})
         /\ mrd_start' = (mem_wr_data \in {"read", "both"})
    ELSE UNCHANGED <<mwr_start, mrd_start>>

(* The read data is a register: the one of the address a clock ago.        *)
RegisterClock ==
  /\ init_rst' = IF mem_write_en /\ addr = 0 THEN mem_wr_data = "reset" ELSE init_rst
  /\ StartBits
  /\ legacyclr' = IF mem_write_en /\ addr = 18 THEN mem_wr_data = "clear" ELSE legacyclr
  /\ rd_d' = [reg |-> addr, mwr |-> addr = 1 /\ mwr_done,
              mrd |-> addr = 1 /\ mrd_done_o, err |-> addr = 1 /\ data_err]

(* The done bit of the reads: the size that has been announced equals the  *)
(* product of the registers, both two clocks ago.                          *)
DoneClock ==
  /\ expect' = Kept(Total % SizeSpan, 0)
  /\ size_q' = Kept(cpld_size % SizeSpan, 0)
  /\ cpld_done' = Kept(expect = size_q, FALSE)
  /\ mrd_done_o' = Kept(mrd_done_o \/ (mrd_start /\ cpld_done), FALSE)
-----------------------------------------------------------------------------
(***************************************************************************)
(* The interrupt controller: a finished direction asks for an interrupt,   *)
(* the other one when the first is through.  ready is the core's answer.   *)
(***************************************************************************)
ReadTurn ==
  CASE intr_state = "RST" -> mrd_done_o
    [] intr_state = "RD"  -> TRUE
    [] intr_state = "WR"  -> mrd_done_o /\ wr_intr = "DUN"
WriteTurn_NotSecond == (intr_state = "RST" /\ ~mrd_done_o /\ mwr_done) \/ intr_state = "WR"
WriteTurn ==
  CASE intr_state = "RST" -> ~mrd_done_o /\ mwr_done
    [] intr_state = "RD"  -> mwr_done /\ rd_intr = "DUN"
    [] intr_state = "WR"  -> TRUE

Asserts(s, turn)   == s = "RST" /\ turn
Deasserts(s)       == s = "ACT2" /\ legacyclr
Requests(s, turn)  == Asserts(s, turn) \/ Deasserts(s)

NextIntr(s, turn, ready) ==
  CASE s = "RST"  -> IF turn /\ ready THEN "ACT" ELSE "RST"
    [] s = "ACT"  -> IF msi THEN "DUN" ELSE "ACT2"
    [] s = "ACT2" -> IF legacyclr /\ ready THEN "DUN" ELSE "ACT2"
    [] s = "DUN"  -> "DUN"

(* What the core takes for a legacy interrupt: cfg_interrupt_n and         *)
(* cfg_interrupt_assert_n, the conjunctions of both directions' wires.     *)
Requesting == Requests(rd_intr, ReadTurn) \/ Requests(wr_intr, WriteTurn)
Asserting  == Asserts(rd_intr, ReadTurn) \/ Asserts(wr_intr, WriteTurn)
               \/ (wr_intr \in {"ACT", "ACT2"} /\ ~Deasserts(wr_intr))

IntrClock(ready) ==
  /\ intr_state' = IF init_rst THEN "RST"
                   ELSE IF intr_state # "RST" THEN intr_state
                   ELSE IF mrd_done_o THEN "RD" ELSE IF mwr_done THEN "WR" ELSE "RST"
  /\ rd_intr' = IF init_rst THEN "RST" ELSE NextIntr(rd_intr, ReadTurn, ready)
  /\ wr_intr' = IF init_rst THEN "RST" ELSE NextIntr(wr_intr, WriteTurn, ready)
  /\ intx' = IF msi \/ ~(ready /\ Requesting) THEN intx ELSE Asserting
  /\ orphan' = (orphan \/ (init_rst /\ intx'))
  /\ UNCHANGED msi

(* Power-off: turnoff_ok is the acknowledgement that a request at this     *)
(* clock would get.                                                        *)
trn_pending_Stuck == trn_pending \/ req_compl
trn_pending_Next ==
  IF ~trn_pending /\ req_compl THEN TRUE ELSE trn_pending /\ ~compl_done
TurnoffClock ==
  /\ trn_pending' = trn_pending_Next
  /\ turnoff_ok' = ~trn_pending
-----------------------------------------------------------------------------
(* One clock.  rdy: the core takes a beat of the transmit engine; ready:   *)
(* it takes an interrupt.                                                  *)
EpClock(rdy, ready) ==
  /\ rdy \/ stall < MaxStall
  /\ stall' = IF init_rst /\ ~rdy THEN stall + 1 ELSE 0
  /\ TxClock(rdy, FALSE, TRUE)
  /\ RxClock /\ data_err' = data_err_Next
  /\ AccessClock /\ RegisterClock /\ DoneClock
  /\ IntrClock(ready) /\ TurnoffClock
  /\ stale' = IF init_rst THEN owed' > 0 ELSE stale
  /\ accepted' = IF wr_en' THEN wr_data' ELSE IF mem_write_en THEN "none" ELSE accepted

EpNext == \E rdy, ready \in BOOLEAN : EpClock(rdy, ready)

(* The clock runs; some time the core accepts a beat and an interrupt and  *)
(* delivers the next beat of what it has begun with.                       *)
EpFairness == WF_epVars(EpClock(TRUE, TRUE) /\ ~RxGap)
EpSpec == EpInit /\ [][EpNext]_epVars /\ EpFairness
-----------------------------------------------------------------------------
(***************************************************************************)
(* Properties.                                                             *)
(***************************************************************************)
(* The transmit engine's own specification, with its environment reduced   *)
(* to RegisterFile and ReadRequest and with reset pulses that take, is what*)
(* the composition does: what is proved of it holds of the endpoint.       *)
ImplementsTxEngine == Spec

(* At the end of any clock the transfer the engine has done so far is exact*)
(* whatever the registers and the receive engine did meanwhile.  A         *)
(* well-formed completion, however it is split, is taken for a malformed   *)
(* one only if its size is cleared under it, and no longer than the reset  *)
(* pulse that does so.                                                     *)
NoFalseAlarm == malformed => init_rst
EpInv == EpTypeOK /\ TransferInv /\ NoFalseAlarm

(* An accepted register write changes the register it names, with its data,*)
(* before the next one is accepted.                                        *)
WritesLand ==
  /\ mem_write_en => accepted = mem_wr_data /\ addr = RegisterOf(accepted)
  /\ rx_state = "WR32_QW1" => accepted = "none"

(* No register read is answered twice.                                     *)
AnsweredOnce == [][Answered => asked > 0]_epVars

(* The completion of a register read carries that register, and a done bit *)
(* in it means that all data has come in this transfer, none was refused,  *)
(* and the data error is told.  Completions of the transfer before are     *)
(* counted too, so nothing is said of a transfer they reach into (stale).  *)
StatusIsReal ==
  [][tx_state = "CPLD_QW1" /\ tx_state' = "CPLD_WIT"
       => /\ rd_d.reg = addr
          /\ rd_d.mrd /\ ~stale => /\ owed = 0 /\ refused = 0
                                   /\ Len(mrd_hdrs) = MrdCount /\ (wrong <=> rd_d.err)
          /\ rd_d.mwr => Len(mwr_hdrs) = MwrCount]_epVars

(* After a reset pulse nothing is left of the transfer before.             *)
ResetClears ==
  [][init_rst /\ ~init_rst' =>
       cpld_size' = 0 /\ ~malformed' /\ ~data_err' /\ ~mrd_done_o' /\ ~cpld_done'
       /\ rd_intr' = "RST" /\ wr_intr' = "RST"]_epVars

(* The two directions never use the interrupt request at the same time,    *)
(* and a legacy interrupt is asserted and deasserted in turn, unless a     *)
(* reset came while it was asserted.                                       *)
LegacyAlternates ==
  /\ ~(Requests(rd_intr, ReadTurn) /\ Requests(wr_intr, WriteTurn))
  /\ ~msi /\ ~orphan /\ Requesting => (Asserting <=> ~intx)

(* What the comment of the turn-off control says: acknowledged if no       *)
(* transaction is pending.  The last beat of the completion may be.        *)
TurnoffIsIdle == turnoff_ok => tx_state \notin {"CPLD_QW1", "CPLD_WIT"}

(* Every register read is answered, whatever DMA is under way: a host that *)
(* waits for one does not wait for ever.                                   *)
ReadsAnswered == []<>(asked = 0)

(* With MSI both directions get their interrupt, unless a reset clears the *)
(* done bit: none is owed for ever.  With either kind they never mix their *)
(* requests to the core.                                                   *)
InterruptOwed ==
  /\ msi /\ ~init_rst
  /\ (mwr_done /\ wr_intr # "DUN") \/ (mrd_done_o /\ rd_intr # "DUN")
InterruptsArrive == []LegacyAlternates /\ []<>~InterruptOwed

(* A power-off is acknowledged some time, and never while the first beat of*)
(* a completion waits for the core, although it takes two clocks to see the*)
(* request for the completion.                                             *)
TurnoffIsQuiet == turnoff_ok => tx_state # "CPLD_QW1"
TurnoffIsSafe  == []TurnoffIsQuiet /\ []<>turnoff_ok
=============================================================================
