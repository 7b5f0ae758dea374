# Verification of the XAPP1052 bus-master DMA performance demo

The repository holds a PCI Express bus-master DMA (BMD) endpoint in Verilog, a
Linux character driver with a GTK application, and a Windows driver with an
application, all of which measure DMA throughput. This directory holds TLA+
models of its parts, TLC configurations that check them on small instances and
TLAPS proofs. Paths below are relative to `src/dma_performance_demo/`.

## 1. Inventory

### How one transfer runs

    application --ioctl/WriteFile--> driver --PIO writes--> RX engine --> register file
                                                               |              | mwr_start, mrd_start, counts, addresses, init_rst
                                                               | completions  v
    host memory <----- memory write / read TLPs ---------- TX engine <---- round robin
         |                                                      |
         +-- completions --> RX engine (counts, checks data)    +-- mwr_done, mrd_done
                                                                        |
    driver ISR/DPC or application poll <---- interrupt / status bits ---+

The host writes addresses, lengths, counts and start bits to the register file
with PIO writes. The TX engine turns them into TLPs, the RX engine counts the
completions, the register file derives the done bits, the interrupt controller
signals them. On Linux the application sleeps and reads the done bits; on
Windows the driver's ISR reads them and a DPC completes the request.

### Components

| Component | State | Operations | Hard behaviour | Correct when |
|---|---|---|---|---|
| TX engine (`fpga/BMD/BMD_64_TX_ENGINE.v`) | FSM state, TLP counters, last addresses, double words left, service bits, round-robin counters, done flags | start a completion / write / read, send a beat, stall, abort, reset | three sources share one FSM; reset without `else`; stalls and aborts at any beat; wrapping counters; both service bits clear | done exactly with the last TLP, addresses tile the buffer, payload matches the header, weights bound the turns, everyone finishes |
| RX engine (`fpga/BMD/BMD_64_RX_ENGINE.v`) | FSM state, request latches, completion size counters, data-error flag | PIO read, PIO write, completion with data, throttling, data check | hand-shakes with the TX engine and the register file; late completions after a reset | one completion per PIO read; every completion counted once |
| Register file (`fpga/BMD/common/BMD_EP_MEM.v`, `BMD_EP_MEM_ACCESS.v`) | registers 0-19, performance counters, `cpld_done`, `mrd_done_o`, access FSM | read, write, reset, counters | a write is a multi-clock read-modify-write; expected size wraps; reset clears start bits in a later clock than other registers | done bits mean the data arrived; counters stop with the transfer |
| Interrupt controller (`common/BMD_INTR_CTRL.v`) | read and write interrupt FSMs | request MSI or legacy, wait for ready, de-assert | two FSMs share the request wire; a legacy interrupt needs the host to clear it | one interrupt per finished direction, none lost |
| Read throttle (`common/BMD_RD_THROTTLE.v`) | outstanding read requests / completions high-water marks | meter reads | credits shared with completion order | reads outstanding stay under the limit, reads go on |
| Configuration reader (`common/BMD_CFG_CTRL.v`) | FSM, latched configuration fields | walk MSI, device and link capability | waits for `cfg_rd_wr_done` | fields latched once after reset |
| Link retraining (`common/BMD_GEN2.v`, Virtex-6 builds) | FSM | speed and width change | timeout state | leaves every waiting state |
| Turn-off control (`common/BMD_TO_CTRL.v`) | pending flag | acknowledge power-off | an outstanding PIO read | off only with nothing outstanding |
| 32- and 128-bit engines | as the 64-bit engines | as above | other beat layouts | as above |
| 7-series port (`pcie_7x_0_example/.../bmd`) | near copy of `fpga/BMD` with an AXI bridge | TRN to AXI conversion | beat order and straddling | bridge loses no beat |
| Windows driver requests (`win32_sw/win32_driver/source/s3_1000.c`) | per direction: current IRP, queue, lock, stall count, offset, length; one shared DPC, timer, busy flag | dispatch, cancel, start DMA, ISR, timer, DPC, stall/restart/cleanup | every pair of these interleaves; one DPC serves both directions | each request completed once, never touched afterwards, never lost, success only after the hardware finished |
| Windows driver PnP (`win32_sw/win32_driver/source/pnp.c`) | started / stop-pending / remove-pending flags, remove lock | start, stop, remove, cancel, surprise, power | requests in flight at a stop; remove-lock balance | no request touches a stopped device |
| Windows control codes (`s3_1000.c`, `Control`) | registers through PIO, `ReadDone`, `WriteDone`, lengths | set / get / reset | a reset while a DPC is queued | the control path resets what the DPC uses |
| Windows application (`win32_application/source/DriverMgr/s3_1000.cpp`) | device handle, operation, transfer registers | open, set, start, poll, verify | asynchronous request with a stack structure; retries | the status reported is that of the run |
| Linux driver (`linux_sw/xbmd/xbmd.c`) | buffers, status flags, register window | open, read, write, ioctl, init, exit | resource acquisition that fails half-way | exit releases what init acquired |
| Linux DMA run (`linux_sw/xbmd/bmd.cpp`) | register images, buffers, results | set up, start, sleep, read status, compare | fixed sleep instead of a done wait; stale success flags; prefilled buffers | success only after both directions finished with the right data |
| Linux configuration reader (`linux_sw/xbmd/cfg.cpp`) | capability offsets, fields | walk the capability list | an unknown capability ends the walk | the link shown is the link there is |
| Linux GUI (`linux_sw/xbmd/xbmd_main.cpp`) | widget sensitivity, run results | start, link configuration | failure paths leave the GUI insensitive; critical result | stops when the run says so |
| Windows GUI (`win32_application/source/GUI/Main.frm`) | form state | buttons, timer | polling | shows the status of the run |

Interactions: RX and TX engines share `req_compl`/`compl_done`; the register
file drives both engines and reads their done bits; both drivers see only the
register file, host memory and (on Windows) the interrupt. The drivers have no
code in common.

Not built: `linux_sw/xbmd/run_xbmd.cpp` and `read_cfg.cpp` are in no target of
the Makefile; `BMD_INTR_CTRL_DELAY.v` is instantiated nowhere; `BMD_GEN2.v` is
compiled only with `PCIE2_0`.

Not core: `BMD_design/`, `GVI_PCIe_x1_Gen1/` (generated cores and the vendor
PIO example), `download/` (bit streams), the generated IP, simulation and
implementation scripts, `MersenneTwister.h` (third party), the MIDL and COM
boilerplate of `DriverMgr`.

## 2. Modules and plan

| Module | Models | Extends | Run by |
|---|---|---|---|
| `BmdTxEngine` | the 64-bit TX engine, its inputs free | | `BmdTxEngineMC`: `tx_safety`, `tx_cut` |
| `BmdTxEngineProofs` | types and counters of it, proved | `BmdTxEngine` | |
| `BmdTxTransferProofs` | addresses, payload and turns of it, proved | `BmdTxEngineProofs` | |
| `BmdEndpoint` | RX engine, registers, interrupts and turn-off around the TX engine | `BmdTxEngine` | `BmdEndpointMC`: `endpoint` |
| `BmdEndpointProofs` | register writes, reset pulses and the refinement of the TX engine, proved | `BmdEndpoint`, `BmdTxTransferProofs` | |
| `BmdEndpointHostProofs` | what the host owes, register reads, interrupts and the status, proved | `BmdEndpointProofs` | |
| `S3Requests` | what the Windows driver promises for a request | | |
| `S3Irp` | request life cycle of the Windows driver | | `S3IrpMC`: `s3_stop`, `s3_threads`, `s3_live`, `s3_duplex` |
| `S3IrpProofs` | theorems about it | `S3Irp` | |
| `S3Pnp` | Plug and Play of the Windows driver | | `s3_pnp` |
| `S3PnpProofs` | the handlers call by call, hardware and queues, proved | `S3Pnp` | |
| `S3App` | Windows application over driver and device | | `s3_app`, `s3_harsh` |
| `S3AppProofs` | what the form starts and shows, proved | `S3App` | |
| `XbmdDriver` | load and unload of the Linux driver | | |
| `XbmdApp` | Linux program, driver calls and device | `XbmdDriver` | `XbmdMC`: `xbmd`, `xbmd_masked` |
| `XbmdProofs` | theorems about what the driver holds and the program shows | `XbmdApp` | |

Abstract specifications and refinements: `S3Irp` implements `S3Requests`
(`ImplementsRequests`; its safety half is proved, `RequestsImplemented`),
`BmdEndpoint` implements `BmdTxEngine!Spec` (`ImplementsTxEngine`, proved by
`EndpointImplementsTx`), `XbmdApp` implements `XbmdDriver`'s `DriverSpec`
(proved, `ImplementsDriver` of `XbmdProofs`).

Proved: every safety property of the passing runs, `CompletedOnce` of `S3Irp` under
several threads and `SuccessIsReal` for several passes apart; the assumptions are in sections 3 to 7.

Only model-checked:

* Liveness, which is out of the prover's reach: `TransfersComplete`, `ReadsAnswered`,
  `RequestsComplete`, `StopsComplete`, `QueueResumes`, `RunsEnd`, `RunEnds`, and the
  liveness halves of `TurnoffIsSafe`, `InterruptsArrive`, `ImplementsRequests` and
  `PnpCompletes`.
* `SuccessIsReal` of `s3_live`, for a request of two passes: `SuccessReal` assumes
  that requests fit one pass.
* `CompletedOnce` of `s3_threads`: the proof would have to follow several requests
  through a queue with `SelectSeq`, which the provers cannot expand.

Not done: the 32- and 128-bit engines, if their beat layouts turn out to matter.

Definitions with a suffix (`DwLeft_NoWrap`, ...) are plausible bugs, each beside
the definition it varies; no specification uses them. They show that a property
can fail.

Every module with an `Env` names there what its environment may do. A passing
run says with which members its properties hold. Members that break a property
are listed in sections 8 and 9 with the line of code that is the reason: they
stand for behaviour of the code, not for a weakness of the model.

## 3. `BmdTxEngine`

One step is one clock of `BMD_64_TX_ENGINE.v`. `tx_state` is
`bmd_64_tx_state`; the other variables have the names of the registers (`_o`
dropped). Each branch of the `case` is one action; `rdy`, `dsc` and `bm` are
the inputs `trn_tdst_rdy_n`, `trn_tdst_dsc_n` and `cfg_bm_en` in that clock.

* The `init_rst_i` block has no `else`, and the state's branch follows it in
  the same `always` block: a register takes the reset value only when the
  branch does not assign it. `Kept(old, reset)` is that rule, the `Keep*`
  operators apply it to each register.
* The register file's part is `RegisterFile`: it writes the start bits, begins
  and ends a reset pulse. `HoldReset` is the further clock in which reset is
  set and the start bits are already clear. `ReadRequest` is the RX engine's
  `req_compl` pulse.
* `ResetTakes` restricts the environment: a pulse ends only after a clock in
  which the registers have their reset values. With `ResetTakes = FALSE` in
  `BmdTxEngine.cfg`, `ReadRequestsAreExact` fails: a read request accepted in
  the last clock of the pulse keeps its count (`BMD_64_TX_ENGINE.v:788`), and
  the next transfer starts with it.
* Variables below the comment "observers" record the header addresses, the
  double words sent and the turns taken; no action reads them in a guard.

Left out: payload contents, tags, byte enables, traffic class, the completion's
fields, the completion-data path to the register file.

### Runs

| Run | Shows | Result |
|---|---|---|
| `tx_safety` | 4 writes and 4 reads mixed with PIO completions, stalls and effective resets: done flags, addresses, payload, round robin, and both initiators finish | holds |
| `tx_cut` | 64-bit writes, a core that discontinues TLPs, bus mastering toggled: addresses and payload | holds |

`TransfersTile` says that the headers follow each other without gap or overlap
and are never more than the count (`NothingOutside`). Headers are recorded up to
the first write that is cut behind its header: that one was counted and never
arrives (`BMD_64_TX_ENGINE.v:778`), so nothing exact can be said from there on.
`WeightBoundsTheRow` bounds a row by the weight plus one, which is what the
counters of the code give.

Bounds. The register widths are CONSTANTS: 2^16 TLPs become 8, 2^10 double words
4, 2^32 bytes 128 and 2^24 low bytes 64. They keep what matters: the greatest
length equals the span, so the double-word counter starts at 0 and wraps; the
buffers of the `tx_cut` run lie beyond the low address bits, so lost high bits
show; the count is greater than either weight plus one, so the round robin
comes round. `LongerRow` caps the observer of the turns one above the bound it
is compared with. Every register is finite, so the state space is complete.

Fairness (`FairSpec`): `WF(Clock(TRUE, FALSE, TRUE))`, the core keeps being
ready without discontinuing, and strong fairness of a clock in which a DMA
branch finds the engine free and the core ready. PCIe flow control returns
credits, so readiness recurs. Weak fairness alone is not enough: a core that
happens to be not ready in the one idle clock after each PIO completion, for
ever, delays DMA for ever, as completions have priority.

### Proofs (`BmdTxEngineProofs`)

* `TypeCorrect`: `Spec => []TypeOK` for every value of the constants.
* `WriteDone`, `ReadRequests`: with `ResetTakes = TRUE`, `Spec =>
  []WriteDoneIsExact` and `Spec => []ReadRequestsAreExact`, whatever the
  counts, lengths, weights, stalls, aborts and PIO traffic.

The invariant is `WriteCounters /\ ReadCounters` with `TypeOK`:
`WriteDoneIsExact` alone is not inductive, as nothing ties the counter to the
number of headers sent. `WriteCounters` says that they agree while the transfer
goes on, and that a header state is only entered below the count. `CountersStep`
and its lemmas cover one action each; `ResetForgets` covers the reset: in a
pulse that ends, counters and observers are clear. Leaves with flags and leaves
with arithmetic are separate steps.

### Proofs (`BmdTxTransferProofs`)

* `PayloadExact`: with `ResetTakes = TRUE`, `Spec => []PayloadMatchesHeader`, for
  every length up to the span of the double-word counter.
* `TransferCorrect`, `TransfersCover`: with `BuffersFit` as well, `Spec =>
  []TransferInv` and `Spec => []TransfersTile` (of writes, up to the first cut). `BuffersFit` is the only
  assumption about addresses: the last TLP begins below the span of the register
  that is added to (the low bits, or the whole of a 32-bit write address). The
  drivers' buffers do; a buffer across that border wraps.
* `RoundRobinFair`: with `DstDiscontinues = FALSE` and `BusMasterToggles = FALSE`,
  `Spec => []WeightBoundsTheRow`. Without them it is false: an aborted grant hands
  the turn back and the row starts again without the other one being served.

`TransferInv` is inductive with `TypeOK`: `WriteAddresses` and `ReadAddresses` say
that the last address plus one length is the next header's, which carries the
arithmetic of the low bits (`AddLowExact`, `TlpOffsets`) through one header at a
time; `WritePayload` relates the double words sent, those left and the beat.
`RowInv` ties the observers of the turns to the round-robin counters: a row is
at most the counter, or it has just taken its last turn and the service bit is
with the other initiator, which is still pending (`StartBitsStay`).

Only model-checked: `TransfersComplete` (liveness is out of the prover's reach).

## 4. `BmdEndpoint`

One step is one clock of the whole endpoint: `EpClock` is the conjunction of one
clock of each component, all of which read the registers of the clock before.
The TX engine is `TxClock` of `BmdTxEngine`, unchanged; its inputs, free there,
are here what the other components drive.

* `RxClock`: the receive engine, one action per branch (`RxRead` to `RxCpldNext`),
  and its counters `cpld_size`, `cpld_tlp_size`, `cpld_real_size`. The end of a
  completion and the double words of its last beat are the bus's (`togo`, for
  `trn_reof_n` and `trn_rrem_n`); the engine compares them with its own size,
  which a reset clears. `RxCpl` and `RxCplEnd` are the completions without data.
  `data_err_Next` is the second `always` block, the data check one beat behind.
* `AccessClock`: the write state machine of `BMD_EP_MEM_ACCESS.v`, which keeps
  `wr_busy` set for the clocks in which it reads, merges and writes.
* `RegisterClock`, `DoneClock`: registers 0, 1 and 18 of `BMD_EP_MEM.v` and the
  two-stage comparison of the expected with the received size.
* `IntrClock`: both state machines of `BMD_INTR_CTRL.v`, MSI (`msi`) or legacy,
  and the arbitration between them. `TurnoffClock`: `BMD_TO_CTRL.v`.
* The host is external: it reads register 1, writes what a driver writes
  (`HostWrites`), answers read requests with completions split anywhere (`owed`
  double words left) or refuses what is left of one with a completion without data
  (`refused`), and clears a legacy interrupt. `rdy` and `ready` are the
  core's acceptance of a beat and of an interrupt.
* Observers: `intx` (the legacy wire as the host sees it), `orphan`, `stale`
  (data of a reset transfer still on its way), `accepted`, `wrong`.

`endpoint` checks, with one write of one double word (which ends in the header
beat, the case `tx_safety` has not), one read of two, MSI and legacy, and a host
that may send wrong data or refuse the read:

| Property | Says |
|---|---|
| `EpInv` | type; `TransferInv` of the TX engine at every clock; a well-formed completion is taken for a malformed one only within a reset pulse that clears its size under it |
| `ImplementsTxEngine` | the composition does only what `BmdTxEngine!Spec` allows with `ResetTakes`: the theorems apply to it |
| `WritesLand` | an accepted register write reaches its register before the next |
| `AnsweredOnce`, `ReadsAnswered` | each register read is answered, and once, whatever DMA, stall or reset falls around it |
| `StatusIsReal` | a done bit the host reads means all data of this transfer came, none was refused, and the data error is told |
| `ResetClears` | nothing of the transfer before is left after a pulse |
| `InterruptsArrive` | the two directions never mix their requests, and with MSI each gets its interrupt |
| `TurnoffIsSafe` | a power-off is acknowledged some time, and not while a completion's first beat waits |

`StatusIsReal` exempts the reads of a transfer into which completions of a reset
transfer reach (`stale`). The code cannot tell them apart, and counts them
(`BMD_64_RX_ENGINE.v:341`): a done bit is false there.
`NoFalseAlarm` is as strong as the code allows: a completion on the bus while the
pulse clears `cpld_tlp_size` (263-268) ends in a mismatch and sets
`cpld_malformed_o`, which the rest of the pulse clears again.

Bounds. `MaxStall = 1` limits the clocks in a row without an accepted beat, and
only inside a reset pulse: the drivers hold it for at least two register
writes, many clocks, so a TLP in progress gets out. This is what discharges
`ResetTakes`. Outside a pulse a stall may last for ever, but for fairness. The
legacy host neither polls, sends wrong data nor refuses; one wrong beat or one
refusal per transfer;
data of at most one reset transfer is owed. 2^7 and 2^21, the spans of the
size counters, become 4 and 8: with a span of 2 for the first, a cleared size
would equal one of two double words, and no false alarm would be met. With
`MrdLen = 3`, and any number of refusals, the safety properties hold too (741,999
states). `TotalAssumption` keeps the transfer below the latter span, as the drivers' buffers do.

Fairness (`EpFairness`): weak fairness of a clock in which the core accepts both
a beat and an interrupt and does not pause inside a completion. A core that
delivers neither is a dead link.

### Proofs (`BmdEndpointProofs`, `BmdEndpointHostProofs`)

All for every count, length, address, weight, split of completions and order of
bus events; only the assumptions named here are made.

| Theorem | Property | Assumes |
|---|---|---|
| `EndpointImplementsTx` | `ImplementsTxEngine` | `MaxStall <= 4` |
| `RegisterWritesLand` | `WritesLand` | |
| `PulseClears` | `ResetClears` | |
| `EndpointCorrect` | `EpInv` | `MaxStall <= 4`, `ResetTakes`, `BuffersFit` |
| `ReadsAnsweredOnce` | `AnsweredOnce` | no `pipelined`, no `resetread` |
| `TurnoffQuiet` | `TurnoffIsQuiet`, the safety half of `TurnoffIsSafe` | the same |
| `InterruptsAlternate` | `LegacyAlternates`, the safety half of `InterruptsArrive` | |
| `StatusReal` | `StatusIsReal` | `MaxStall <= 4`, `ResetTakes`, `Env` at most `wrongdata` and `refused` |

`EndpointCore` is what the refinement rests on.

* `Pipe`: one register write is on its way at a time, from `wr_en` through READ
  and WRITE of the access controller to `mem_write_en`, and the receive engine
  waits for it in `WR32_WT`.
* `Legal`: what the host looked at when it chose a write still holds when the
  write lands, so a start lands outside a pulse and with both start bits clear.
* `Position` counts the clocks between two landings, at least six. With
  `ResetProgress` it shows that a TLP the engine has begun is out before the pulse
  ends: the clocks that remain cover the header, `MaxStall` stalled clocks and the
  return to RST. This discharges `ResetTakes`. `MaxStall <= 4` is sharp: at 5 TLC
  finds a header that waits through the pulse and is counted in the next transfer.

`OwedInv` bounds what the host owes: outside a pulse by what was asked for since,
and the whole of one more transfer if that was reset (`stale`); within a pulse
the rest of the old one plus what the engine may still ask for.

`CplInv` is why no alarm outlives its pulse: outside a pulse the engine's size of a
completion is what it has counted plus what the bus still brings (`togo`). The
write that ends the pulse is waited for in `WR32_WT`, so a completion on the bus
has ended before, and the pulse still clears what it has set.

`Handshake` is the protocol of `req_compl`, `req_compl_q` and `compl_done` in all
states of both engines. `req_compl_q` stays set one clock after the request has
gone, and only `compl_done`, set until then, keeps the transmit engine from a
second completion. A reset clears `compl_done` alone, so a read within a pulse
breaks it; hence the assumption, and section 9. `IntrInv` says which machine has
the request, and when the legacy wire is asserted. `StatusInv` adds that data
received, owed and refused is what was asked for, and that the comparison of the
sizes lags the counter by one clock and the done bit by one more, which is why a
done bit is true although the comparison alone is true after every pulse. A pause
inside a completion (`gaps`) gives a false data error, hence its assumption.

Only model-checked: the liveness halves of `TurnoffIsSafe` and
`InterruptsArrive`, and `ReadsAnswered`.

## 5. `S3Irp` and `S3Requests`

`s3_1000.c` writes its read half and its write half twice, over two sets of
variables. `S3Irp` has the code once, over functions of the direction: `Irp[d]`
is `ReadIrp` or `WriteIrp`, `Queue[d]` the two lists, `QueueLock[d]` the two
spin locks, `Length[d]`, `Offset[d]`, `TotalLength[d]`, `SGL[d]`,
`stallcount[d]`, `abortstatus[d]`, `evStop[d]` the fields of those names.
`timer`, `busy` and `iotimeout` exist once, as in the device extension.

* Actors. `pc[i]` is the place of request `i`'s thread in `Dispatch`;
  `cancelling` holds the requests whose cancel routine waits for the lock;
  `dpc`, `dpcDir`, `dpcIrp` are the place, direction and request of
  `DpcForIsr`; `pnp`, `pnpDir`, `pnpIrp`, `pnpDev` those of the Plug and Play
  thread in the routines that `pnp.c` calls. `BDMA_Isr` and `CheckTimer` are one
  step each, since `KeSynchronizeExecution` runs them apart. The DPC does not overlap
  itself: the interrupt has one target processor.
* Granularity. An access that another actor can see is a step of its own. What
  runs under a queue lock is one step, unless it also touches state that others
  use without the lock; so `StartDMARead` / `StartDMAWrite` are three steps
  (timer, length, current request) wherever they are called from.
* Data. Lengths are counted in map registers. A scatter/gather list or an
  address is a pass, `<<request, offset>>`: the request it belongs to and where
  in it the pass begins (`PassData` are its map registers). Mapping succeeds or
  fails at once.
* Device. `start`, `done`, `addr`, `target`, `intr` are the endpoint as the
  driver sees it. `DeviceDone` may happen when `start` is set and `done` is
  not; `moved` then gains the data of the pass whose address the device started
  with.
  After a surprise removal the interrupt is disconnected and the timer stopped.
* Observers: `completions`, `moved`, `touched`, `bugcheck`. Only `bugcheck` is
  read in a guard: after it nothing happens any more.

The driver is only correct for an application that keeps to some discipline,
and `Env` names what may happen beyond it: by default one thread makes a run
(reset, a request, start), waits for it, and starts the next one after the DPC
is through. The members of `Env` are `threads` (several threads, without regard
to each other), `hurry` (a request while the DPC still handles another), `reset`
(a reset under a pending request), `duplex` (a run in both directions), `blind`
(a start without a mapped buffer), `timeout` (the timer expires before the
device has finished), `anytick` (even while the request is being started),
`cancel`, `stop`, `unstop` (a cancelled stop), `remove`, `sgfail` (a mapping
fails), `shared` (interrupts of another device on the vector). A passing run
says under which of them a property holds, the violations below under which it
does not.

`S3Requests` is the promise to the application: a request is new, pending, then
done; it is completed once; its status then stays; a pending request is
eventually done. `ImplementsRequests` maps `phase` to "done" once a completion is
counted and to "pending" once `Dispatch` is entered; one step may complete
several requests (`CleanupRequests`).

### Runs

| Run | Requests and `Env` | Shows | Result |
|---|---|---|---|
| `s3_stop` | writes `w1`, `w4`, a write `w3` that is too long, read `r1`; cancel, remove, shared, stop | success is real, owner, mapped buffer, a stopped driver is quiet | holds |
| `s3_threads` | three writes; cancel, remove, stop, threads | no two paths complete the same request | holds |
| `s3_live` | a write of two passes `w2` and `r1`; cancel, stop, timeout | success is real whichever of interrupt and timer is first, every request is completed, every stop ends, `S3Requests` is implemented | holds |
| `s3_duplex` | one write and one read; duplex | success for data not moved | violated |

`s3_live` has no `shared`: with it the second pass of `w2` is completed with success
though it was never started (section 9). Requests of one pass meet foreign
interrupts in `s3_stop`, and with timeouts as well in the theorem `SuccessReal`.
A multi-pass request without `shared` is never completed with success at all: the
driver sets up the second pass and does not start it (`s3_1000.c:1465-1472`), so the
timer ends it, and `SuccessIsReal` says that the status is then not a success.

Bounds. Three requests of one direction are the fewest for a queue of two behind
a current request. Four with both directions in
`s3_stop` leave two completed runs in one direction: a stop event left by the
first can be mistaken for one of the second. `MapRegMax = 1` and `MaxTransfer = 2`
give a request that fits one pass, one that needs two and one that is refused.
`SYMMETRY` is used in the safety run whose requests are all alike, never
with liveness. No counter is unbounded: a request is made once, and every other
counter moves with requests. Deadlock is not checked because the driver stops
when every request is completed.

Fairness (`FairSpec`): weak fairness of each thread in `Dispatch`, of each
cancel routine, of `BDMA_Isr`, `CheckTimer`, `DpcForIsr` and the Plug and Play
thread. `CheckTimer` is the driver's I/O timer, which runs every second
from create to close; the others are threads, an interrupt and a DPC that the
system schedules. Neither the device nor the
application is fair: a device that never finishes is what the timer is for, and
`RequestsComplete` holds because of it.

### Proofs (`S3IrpProofs`)

For every set of requests, directions, lengths, and every `MapRegMax` and
`MaxTransfer`:

| Theorem | Property | Assumes of `Env` |
|---|---|---|
| `LockExcludesAll` | `LockInv` | `SingleRelease`: no `remove`, and not both `cancel` and `threads` |
| `TypeCorrect` | `TypeOK` | no `remove`, or `OneThread` |
| `OwnersFound` | `EveryRequestHasAnOwner` | `OneThread` |
| `CompletedOnceOnly` | `CompletedOnce` | `OneThread` |
| `SuccessReal` | `SuccessIsReal` | `OneThread`, and `FitsOnePass`: every accepted request fits one pass |
| `NeverTouched` | `NotTouchedAfterCompletion` | `OneThread` |
| `StopQuiet` | `StoppedIsQuiet` | `OneThread` |
| `BufferHeld` | `BufferIsHeld` | `OneThread`, no `timeout` |
| `RequestsImplemented` | `Requests!Init /\ [][Requests!Next]`, the safety half of `ImplementsRequests` | `OneThread` |

`OneThread` admits `cancel`, `remove`, `shared`, `stop` and `timeout`, in any order
and number. It leaves out `threads`, `hurry`, `reset`, `duplex`, `blind`, `anytick`,
`unstop` and `sgfail`: most of them break these properties, with the line in
sections 8 and 9. `anytick` is the one that a single thread meets: the timer may tick
between the release of the lock and `IoMarkIrpPending`. `NeverTouched` therefore does
not speak of that race; what it says is that the DPC never meets a direction with a
length and no request, nor uses a foreign device object.

* `Typed` and `Plug`. A field has its type only because of the others: a stall
  count is 0 or 1 because `Plug` says which directions the Plug and Play thread has
  stalled so far and not yet restarted. `CleanupRequests` takes what is not being
  cancelled out of a queue with `SelectSeq`, of which the provers know nothing; so
  types need either that no removal comes, or that it finds the queue empty, which
  `NothingQueued` shows of one thread: with one request live only a stalled
  direction queues, and a removal comes while none is stalled.
* `LockHeld`: a request between its lock and its release has the queue's lock,
  and is alone with it. The two ways to release it twice are the assumptions: the
  removed device's path, which drops the lock and goes on to release it, and a
  request that is already cancelled when `Dispatch` looks, among several threads.
* `OneThreadInv` is inductive with these. `OneRequest`: at most one request is
  live, nothing else moves while it is dispatched. `Owners`: what is current, queued
  and being cancelled is that request and no other, and it is one of them. `Mapped`:
  buffer, address and target are passes of the current request, and a pass with a
  length has one; without it the DPC might serve a direction nobody waits for. `Deferred`:
  the DPC runs, or is queued, only for a request whose device or time has finished.
  `Taken`: a restart has taken a request whose buffer is not mapped yet. `Waiting`:
  a direction for which the stop has waited is quiet and stays so, as a stop event
  is only left by the request waited for.

* `PassInv` is inductive on top of it, for `SuccessReal`. A live request fits one
  pass, its direction has its length and offset 0, so that the address and the
  target are the whole request; a done bit means that the target's data have moved;
  and the DPC never sets up a second pass. `FitsOnePass` is what
  `s3_1000.c:1740-1741` says of the application ("transfers larger than the map
  register limit, although this is not supported by the application/driver
  combination"); without it section 9 has the counterexample.

`BufferHeld` needs no `timeout`: the timer releases the buffer and nobody stops the
device (section 9). TLC checked `OneThreadInv` on three writes and one read
(3.2 million states), and `PassInv` on the same requests with all of `OneThread`
(2.9 million), before they were proved.

`PassStays` carries `PassInv` over the many steps that neither complete with success
nor bring a request.

Only model-checked: `CompletedOnce` with `threads` (`s3_threads`), where the
invariant would have to follow several requests through one queue with
`SelectSeq` and `RemoveFirst`, and all liveness.

## 6. `S3Pnp`

The Plug and Play manager sends one request at a time. `Handler` gives, for each
minor function, the calls of its handler in `pnp.c` in their order; `todo` is
what is left of them, and each call is one step (`GetDMAInfo`,
`IoConnectInterrupt`, `StallRequests`, `WaitForCurrentIrp` in its three parts,
`SendIrpSync`, `IoCompleteRequest`, ...), so requests of the application come
between any two. A handler that fails leaves by the path the code has.
`DevicePnPState` and `PreviousPnPState` are the fields of the device extension,
`SetPnPState` the macros `SET_NEW_PNP_STATE` and `RESTORE_PREVIOUS_PNP_STATE`;
`RemoveLock` counts what `IoAcquireRemoveLock` counts; `InterruptObject` and
`adapter` are null, held, or given back with the pointer kept. The manager is
external: `NewRequests` and `FollowUps` are the sequences it may send, `Refusals`
what a lower driver may refuse. Observers: `completions` of the present request,
`misuse` (what was given back twice).

`s3_pnp` (`Env` = failure, surprise) checks `HardwareInv` (a transfer under way
has its interrupt and its adapter; each is given back once), `QueueInv` (a queue
is stalled exactly while the device is not started, nothing is current while a
stop or removal is pending, nothing is queued after a surprise), `PnpCompletes`
(each request is completed, once but for three paths, and answered some time)
and `QueueResumes` (a queued request is started on this device, or completed).
`HardwareInv` exempts a direction that a surprise has aborted: there the code
disconnects the interrupt of a transfer under way (`pnp.c:1023`) and gives interrupt
and adapters back again at the removal (`pnp.c:706`). `PnPCancelStopDevice` restarts
the queues with the bus driver's device object (`restartPhysical`): a request it
takes from a queue becomes a `stray`, current here and started nowhere. In `s3_pnp`
no request is queued when a stop is cancelled; with one (`unstop`) `QueueResumes` is
false (section 9). `MaxDrift = 3` bounds how far the remove lock falls below
zero (see section 9); all other variables are finite. Fairness: the manager goes
on with what it has begun, the driver's thread runs, and the timer or the device
ends every transfer that has an interrupt object.

### Proofs (`S3PnpProofs`)

For every order and number of the manager's requests and of the application's,
every `MaxDrift`, and `Env` at most failure, surprise and restartfail (`Usual`;
so no QUERY_STOP is refused, the adapters are had, and no request is queued when a
stop is cancelled, which the assertion `Unqueued` carries through its handler):

| Theorem | Property | Assumes besides |
|---|---|---|
| `HandlersCorrect` | `PnpInv`, the invariant | |
| `HardwareCorrect` | `HardwareInv` | no restartfail (`Restarts`) |
| `TransfersConnected` | `HardwareIsConnected` of `HardwareInv` | |
| `QueuesCorrect` | `QueueInv` | |
| `AnswersOnce` | `CompletedOnce`, the safety half of `PnpCompletes` | |

None of the properties is inductive: what a handler may rely on depends on the
calls it has made. `PnpInv` is therefore an annotation of the handlers. `Starting`,
`QueryingStop`, ... are their calls written out, and the lemmas `...Is` show that
`Handler` is this sequence (`PnPCancelStopDevice` and the others that ask for the
state: in the state in which they are called). `todo` is one of them from its
`k`-th call on (`From`), with or without a wait before it (`Waiting`), and an
assertion in `k` says what holds then: of a query, that after the second wait
neither direction is current, and that a stop event set since the event was
cleared is one of the request waited for; of a surprise, that a queue is aborted
before it is emptied and both before the hardware goes. Between two requests the
device is as the manager assumes (`AtRest`), and when the next is sent as its
minor function needs it (`Sent`). The application's steps change no assertion
(`PartsStay`): a stalled direction starts nothing, an aborted one takes nothing.
TLC checked `PnpInv` on all states of `s3_pnp`, and with restartfail, before it was
proved.

The members left out are behaviour of the code (sections 8 and 9): after a refused
QUERY_STOP, and after a `GetDMAInfo` that fails with a success for the manager, the
cancellation or the next request finds a state no handler expects; after a failed
restart the interrupt and the adapters of the start before are given back again.

## 7. `S3App`, `XbmdDriver` and `XbmdApp`

`S3App`. `pc` is the place of the form's one thread between the calls of
`btnStart_Click` and `Timer1_Timer`; `Operation` is the `DriverMgr` object's,
`Mode` the check boxes, `text` the panels. `Submit` and `DpcForIsr` are what the
application sees of `S3Irp`: one request per direction and a queue. `addr` tells
whether an address register has the virtual address that `SetDMAWrite` puts
there or the bus address the driver puts over it. `buffer` is what
`TLPWriteBuffer` holds: it is a pointer, so the `memset` at `s3_1000.cpp:533`
clears one double word ("cut") and not the buffer. The timer event that finds the
transfer done is four steps, `GetDMAStatus`, `GetCycleTime`, `VerifyDMAWrite` and
the rest, between which the DPC may run. A pattern equal to the fill (0x12345678,
line 576) is not told apart from the fill.

| Run | `Env` | Bounds | Checks |
|---|---|---|---|
| `s3_app` | failure, dataerror | `Runs = 3`, `MaxQueue = 2` | `AppInv`, `ShownIsReal`, `RunEnds` |
| `s3_harsh` | all | `Runs = 2`, `MaxQueue = 1` | `StartsNoLess`, `NumbersAreReal` |

`s3_app` has the failures after which the driver holds no request, and a DPC that
is through when the buffer is compared: no request is left between runs, the
averages divide by what they sum, the cycle time is the table's, panels are right,
and runs end. That the device moves what was asked for with mapped buffers
(`StartsAsAsked`) holds there too, as `StartsCorrect` proves; after a late failure a
start may add a write to a read (section 9). `s3_harsh`
lets every call fail at every place, turns interrupts off and delays the DPC; what
remains true is that a start leaves out nothing and that a number is about this
run's data. `Runs = 3` repeats a good run twice, so an average can go wrong;
`MaxQueue = 2` is more than a correct run ever queues, and 1 is enough to strand a
request behind a current one. Fairness: the form's thread, the timer, the device
and the DPC. The device's: the form polls for ever otherwise.

`XbmdDriver`. `InitOrder` and `ExitOrder` are the order in which `XPCIe_init`
acquires and `XPCIe_exit` gives back; `held` is what this load has, `left` what
failed loads before it left, `gStatFlags` the flags. Each acquisition may fail.
`DriverInv` holds in every step: the interrupt handler finds its registers
mapped, a load that succeeds owns everything, an unload keeps only the enabled
device.

`XbmdApp`. `pc` is the place of the program: the walk of the capability list, the
redraws of `verify_link_config`, the main loop, the steps of one iteration in
`on_start_button_clicked` and `run_xbmd`. The GUI's handlers are actions of their
own. They run wherever events are served: in `gtk_main`, and at the two redraws
before it (`home` = width, speed, idle), where a whole run may come before the link
is known; in the middle of a run only the closing of the window is left. `quit`
says that `gtk_main` has been told to return: before it runs, the call is lost.
`gWriteBuffer`, `addr`, `regLen`, `regPat` are the driver's buffer and the
device's registers, `dev`, `moved`, `dataError` its progress. The device runs
between any two steps of the program. `xbmd` (`Env` = late, fatal, and every
resource may fail) checks `DriverInv`, `AppInv` (the file operations find their
resources; the link of the main loop is the link there is), `ShownIsReal` (the
device is started with this load's addresses; a success is a transfer that
finished with its pattern in the buffer, and a finished write is no mismatch if
the device can write the pattern), `IterationsAreGood` (no iteration after a
verdict other than success; a critical condition is no verdict, see section 9)
and `RunsEnd`. `MaxIter = 2` is the fewest that have an
iteration after a failed one, `MaxSize = 2` tells a short run after a long one;
`MaxChanges = 3` settings per process let a user enable both directions and
change size, count or pattern in between. Boards: the one fpga/BMD builds, whose
write pattern register stores the constant 62222434 (`own`), one with the register
of `pcie_7x_0_example`, which stores what is written (`any`), and a narrower link
than it could have, one with a slower link, two with an unknown capability.
Fairness: the program's thread; not the device, which may be late.

`xbmd_masked` shows a claim of the code's comments violated (section 8).

### Proofs (`S3AppProofs`)

For every number of runs, every board and every `MaxQueue`:

| Theorem | Property | Assumes of `Env` |
|---|---|---|
| `TypeCorrect` | `TypeOK` | |
| `FormCorrect` | `AverageIsNotInflated`, `CycleTimeIsTabulated` of `AppInv` | |
| `AppCorrect` | `AppInv` | at most failure, dataerror (`Calm`) |
| `StartsCorrect` | `StartsAsAsked` | `Calm` |
| `ShownReal` | `ShownIsReal` | `Calm` |
| `StartsEnough` | `StartsNoLess` | |
| `NumbersReal` | `NumbersAreReal` | |

`FormInv` (types and `Averages`) is inductive in every environment, and so is
`Gathered` with it: the write buffer is filled before its request is made, a start
has at least what is asked for, and from the poll to the end of the timer event the
directions of the run stay done. `RunInv` needs `Calm` and has three parts. `Requested`: the current requests are those of this run
that have been submitted (`Asked`), programmed with a bus address and nothing is
queued behind them, and `Operation` is what was asked for. `Prepared`: a run has a
direction, and from the fill on the write buffer holds nothing of an earlier run.
`Moving`: the device runs only between its start and the poll, and the first DPC
ends all requests. The last is why two directions under way are safe here although
`DpcForIsr` serves each of them at once: the timer event goes on only when every
direction of the run is done.

With latefailure a `WriteFile` fails after `Operation` is set; with
interruptsoff the DPC never runs and a request stays current beyond its run; with
latedpc it runs after the next run has begun. Each breaks `Requested` in the code
itself, so the three theorems under `Calm` leave them out; in particular they say
nothing of a left-over `Operation`.

### Proofs (`XbmdProofs`)

* `DriverCorrect`: `DriverSpec => []DriverInv`.
* `ImplementsDriver`: `Spec => DriverSpec`. Program, user and device change none
  of the driver's variables, so every step of the composition is a step of the
  driver or a stutter.
* `ResourcesCorrect`: `Spec => []DriverInv`, from these two.

`LoadedOwnsAll` is not inductive: a module that is up owns its card only if
nothing of it was kept by a load before. `IInv` adds the two reasons. In `init`
and `exit` what is held follows from the step reached (`Before` of the order), and
so do the flags; and a failed load leaves either at most the mapping behind, or
the region too, and then no later load gets beyond its second step. The two
orders enter as facts, entry by entry (`InitOrderFacts`, `ExitOrderFacts`). The
number of loads and unloads is not bounded; the only assumption used is that what
may be refused is one of the resources.

Of the program:

| Theorem | Property | Assumes of `Env` |
|---|---|---|
| `AppCorrect` | `AppInv` | no `early`, no `rmmod` |
| `LinkCorrect` | `LinkIsReal` of `AppInv` | |
| `IterationsGood` | `IterationsAreGood` | no `linkdown`, no `nolog` |
| `WriteShownReal` | the parts of `ShownIsReal` about starts and writes | no `early`, `rmmod`, `linkdown`, `nolog` |
| `ShownReal` | `ShownIsReal` | at most `late`, `fatal` |

`ProgramInv` needs no assumption: types, the device counts up to its length, a
run counts its iterations and its average never has more summands than it is
divided by, the link of the main loop is the board's. `Owned` adds that the module
stays while the program runs. That is an assumption on the user and not a promise of
the code: the driver has no owner in its file operations and opens before it
has its addresses, so `rmmod` and `early` are left out (section 9). `Resulting`:
a verdict is one of this run; a configuration read that fails (`linkdown`) or a log
file that does not open (`nolog`) leaves the verdict of the run before. `Transferred`: from the registers on, length and
pattern are this run's, and every unit moved so far has its pattern in the buffer.
With `dataerror` a read of wrong data is shown as a success (the finding of
`xbmd_masked`), so the whole of `ShownIsReal` is proved without it. It covers both
kinds of write pattern register: a good write of a pattern the device cannot write
is shown as a mismatch, and is (`Writable`).

Only model-checked: `RunsEnd`.

## 8. Findings

* `s3_duplex` (`s3_1000.c:1758`): `DpcForIsr` serves every direction whose
  length is set, not the one whose done bit the ISR saw. In a run that both
  reads and writes, the first interrupt completes both requests.
* `xbmd_masked` (`bmd.cpp:604`): the mask `0x11110000` drops bit 31 of the control
  register, the only bit that tells a data error. A read of wrong data is shown
  as a success.

## 9. Further behaviour

No run is kept for these. Adding the members to the `Env` of a run of the module
and the property to its cfg reproduces them.

| Module | Property | `Env` | Line | Behaviour |
|---|---|---|---|---|
| `S3Irp` | `SuccessIsReal` | shared, a request of two passes (`w2`) | `s3_1000.c:1708` | `~WriteDone` is a bitwise complement and never zero, so the done bit that line 1713 means to take once ("One write operation only per run") is taken by every interrupt while `busy` is set: after the first pass, which leaves both, a foreign interrupt completes the request with STATUS_SUCCESS. Lines 1740-1741 say that such requests are not supported |
| `S3Irp` | `EveryRequestHasAnOwner` | threads, three writes | `s3_1000.c:1813` | the DPC clears length and current request after the completion and without the lock; a request dispatched in between is lost, against lines 1736-1738 ("the driver queue supports additional requests for transfers received while operations are currently active") |
| `S3Irp` | `DequeuedIsStarted` | threads, three writes | `s3_1000.c:1842` | of several queued requests the DPC starts the last and forgets the others, against the same lines |
| `S3Irp` | `LockExcludes` | remove, threads | `s3_1000.c:659`, 677 | two branches of `Dispatch` release the queue lock that the common path releases again, when another request may hold it |
| `S3Irp` | `BufferIsHeld` | timeout | `s3_1000.c:1765` | a timeout releases the buffer, nobody stops the device |
| `S3Irp` | `StopsComplete` | blind, stop, timeout | `s3_1000.c:938` | a stop waits for a request that ended before |
| `S3Irp` | `NotTouchedAfterCompletion` | hurry, stop, two requests of a direction | `s3_1000.c:1850` | the DPC starts a null request |
| `S3Irp` | `NotTouchedAfterCompletion` | stop, unstop | `pnp.c:767` | a cancelled stop restarts with the wrong device object |
| `S3Irp` | `NotTouchedAfterCompletion` | anytick | `s3_1000.c:705` | the request is marked pending after the timer completed it |
| `S3Irp` | `CompletedOnce` | sgfail, timeout | `s3_1000.c:1404` | a failed mapping leaves the completed request current |
| `S3Irp` | `RequestsComplete` | reset, timeout | `s3_1000.c:146` | a reset zeroes the length by which the DPC finds the request |
| `S3Pnp` | `QueueResumes` | unstop | `pnp.c:767`, 769 | `PnPCancelStopDevice` means to "restart any read IRP's" and passes `PhysicalDeviceObject`: the queued request becomes current and is started on the bus driver's extension, nothing of this device runs, and the next stop waits for ever |
| `S3Pnp` | `PendingIsQuiet` | veto | `pnp.c:798` | after a refused stop the cancellation restores NotStarted with open queues; the next query does not stall |
| `S3Pnp` | `StallMatchesState` | adapterfail | `pnp.c:467` | a start without adapters is reported as a success, the device stays stalled in NotStarted while the manager uses it |
| `S3Pnp` | `ReleasedOnce` | restartfail | `pnp.c:706` | a stop keeps the pointers it gives back; when the next start fails, the removal gives them back again |
| `S3App` | `StartMatchesMode` | latefailure | `s3_1000.cpp:679` | a `WriteFile` that fails leaves `Operation` at write; the next run, a read, starts both, against "Set the appropriate start bits" (line 734) and "Write is always called first by the GUI" (line 578) |
| `S3App` | `StartsMapped` | latefailure | `s3_1000.cpp:679` | the left-over write is started to a virtual address |
| `S3App` | `RunEnds`, `NoRequestLeft` | latefailure | `Main.frm:792` | a start that fails after a request leaves it current without a length; later requests are queued behind it |
| `S3App` | `GoodWriteIsNotFailed`, `NoRequestLeft`, `RunEnds` | latedpc | `s3_1000.cpp:782` | the buffer is compared, and the device reset, before the DPC has given it back |
| `XbmdApp` | `ShownWriteIsReal`, `NoIterationAfterFailure` | linkdown or nolog | `xbmd_main.cpp:444` | a critical error before the verdict goes on with the result of the run before |
| `XbmdApp` | `PatternIsSet` | (none) | `BMD_EP_MEM.v:501` | register 5 stores the constant `32'h62222434`; the program's call "sets the pattern for writes" (`bmd.cpp:468`), and a write of any other pattern is a mismatch |
| `XbmdApp` | `StopsAtCritical` | fatal | `xbmd_main.cpp:442` | after a fatal error of the device the loop shows the text, looks at the success flags only and goes on, against "If DMA transfer returns critical condition, stop and display failing" (line 444) |
| `XbmdApp` | `CloseEnds` | (none) | `xbmd_main.cpp:379` | a window closed in the redraws before `gtk_main` (218-223) calls `gtk_main_quit` in vain and the program stays with no window, against "GTK_MAIN_QUIT called which closes GUI" (line 368) |
| `XbmdApp` | `CallsFindResources` | rmmod | `xbmd.c:426` | the file operations have no owner, the module can go while the file is open |
| `XbmdApp` | `StartsMapped` | early | `xbmd.c:547` | the device file can be opened before the card has its addresses |
| `BmdEndpoint` | `AnsweredOnce` | resetread | `BMD_64_TX_ENGINE.v:431` | a register read within a reset pulse is answered twice: `compl_done` is cleared, `req_compl_q` is one clock behind |
| `BmdEndpoint` | `ReadsAnswered` | pipelined | `BMD_64_RX_ENGINE.v:378` | of two outstanding register reads one is lost |
| `BmdEndpoint` | `StatusIsReal` | gaps | `BMD_64_RX_ENGINE.v:518` | a pause inside a completion gives a false data error |

`TurnoffIsIdle` of `BmdEndpoint`, the comment of `BMD_TO_CTRL.v` taken literally,
is false: the last beat of a completion may wait while a power-off is
acknowledged. With `ResetTakes = FALSE` `ReadRequestsAreExact` is false, see
section 3, and with `DstDiscontinues` a last write cut after its header makes the
engine write on beyond the buffer (`BMD_64_TX_ENGINE.v:778`): the count is passed
and never equal again.

Seen while modelling, outside what the models tell apart:

* `pnp.c:302`: QUERY_STOP, an unexpected CANCEL_STOP or CANCEL_REMOVE, and
  SURPRISE complete their request twice; `pnp.c:1103` gives the remove lock back
  more often than it was taken (`RemoveLock` falls, hence `MaxDrift`);
  `pnp.c:466` returns SUCCESS when `GetDMAInfo` failed; a removal after a
  surprise disconnects the interrupt and puts the adapters again.
* `s3_1000.cpp:525` keeps the OVERLAPPED structure of a pending request on the
  stack; `IOCTL_DMA_START` returns STATUS_PENDING without completing; with the
  interrupts off the next reset zeroes the length of a pending request.
* Register 18, which clears a legacy interrupt, is written by neither driver.
* The Linux exit frees the buffers twice (`kfree`, `pci_free_consistent`);
  `gSem` is never initialised; `pci_set_master` is never called; the ioctl
  always returns success; `WRDMISCCONT` writes register 18 though DMISCCONT is 17.

## 10. Not modelled

See `PROJECT.json`, components with status `not_modelled`, each with its reason.
Of the modelled parts: payload contents and header layouts, performance
counters, the read throttle (its metering input is 0), registers that only hold
a value, power requests of the Windows driver, PIO file access, logging and
layout of both applications, and the lifetime of C memory.
