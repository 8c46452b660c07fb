# ForgeDrive: TLA+ models, model checking and proofs

ForgeDrive is a motor-control firmware (`ForgeDriveMC`) for permanent-magnet
motors on STM32 microcontrollers, with a simulation build for a PC
(`platform/host`), a driver and middleware library (`fdlib`), a second
application skeleton (`EcoJM`) and a PC tool (`ForgeTool`). This directory holds
TLA+ models of the parts of it in which the order of events decides whether the
program is right, the TLC runs that check them on small instances, and proofs,
checked by TLAPS, of what matters most for every instance.

Source paths below are relative to the repository root (`src/` there is the
tree `fdlib/`, `ForgeDriveMC/`, ... of this checkout).

1. [The system](#1-the-system)
2. [The modules](#2-the-modules)
3. [The runs](#3-the-runs)
4. [The proofs](#4-the-proofs)
5. [Where the code departs from its text](#5-where-the-code-departs-from-its-text)
6. [What is not modelled](#6-what-is-not-modelled)
7. [Plan](#7-plan)

## 1. The system

### Who runs, and what interrupts whom

The firmware has no preemptive scheduler. `Sys::init` (`ForgeDriveMC/sys.cpp`)
ends in a loop

    fd_usbxch_update -> fd_usbxch_read -> abfStream.process -> daq_session.process -> fd_delay

and everything else happens in interrupts:

| context | runs | shares state with |
|---|---|---|
| main loop ("thread") | USB update/read/write, frame decoding, DAQ session, mode changes | everyone |
| USB interrupt | `USBD_XCH_TxComplete`, `USBD_XCH_DataOut` (RxComplete, GetRxStorage) | the two byte rings, the busy flag, `tx_to_release` |
| ADC interrupt (priority 0) | `INTERNAL_mc3p_ADC_JEOS_IRQ` and `PmsmControlCore::pwmLoop`, at the PWM frequency | everything of the control core and of the bridge driver |
| ticker interrupt | `PmsmControlCore::xmcLoop`; the ADC interrupt preempts it | the same |
| tick interrupt of `cortos` | `CORTOS_Ticker_IRQ` | the states of all tasks |

On the microcontroller the thread changes the motor's mode with interrupts
masked; it does not mask them around the USB rings, which rely on one producer and
one consumer. On the host build the interrupts are threads, and the critical
section (`fd_atomic_start`, `CORTOS_PortEnterCritical`) is a mutex. Fast and slow
loop are called from one thread and so exclude each other; but that thread takes
no mutex, so a mode change may fall inside either, and the ticker of `cortos`
takes none, so it may fall inside a call of the scheduler.

### Components

| component | state | operations | with whom | what makes it hard | what makes it correct |
|---|---|---|---|---|---|
| byte ring `fdlib/fd/fd_ring.h` | head, tail, storage | size, free, reserve and commit for both sides | USB driver | each side's index is volatile and read several times in one call | a reservation is free (or full) memory whatever the other side does meanwhile |
| USB exchange driver `fdlib/driver/stm32*/fd_usbxch.c`, class glue `usbd_xch.c` | two rings, busy flag, length to release, armed regions | init, update, write, flush, read, clear; TxComplete, RxComplete, GetRxStorage | main loop, USB core | completions between any two stores of the thread; bus reset in mid-transfer | every accepted byte arrives once, in order, eventually |
| motor control core `PmsmControlCore*.cpp` | mode, identification stage and sub-stage, sample counter, accumulators, clock, setpoints | pwmLoop, xmcLoop, setControlMode | bridge driver, API | the fast loop inside the slow one; `switch` blocks that fall through; re-entry after an abort | each parameter is computed from settled samples of its own stage; identification ends |
| motor control API `PmsmControl.cpp` | configuration | configControlMode and the other setters | core | mode changes at any moment | modes change through Idle only |
| field-oriented loops `PmsmControlCore_Foc.cpp`, `PosDriver.cpp` | currents, integrators, angle | pwmLoop, xmcLoop | bridge driver | fixed-point arithmetic | numerical, not a matter of order |
| scheduler `fdlib/middleware/cortos` | task states, wake times, notifications, tick | Sleep, NotifyWait, NotifyTake, Notify, Suspend, Resume, Ticker_IRQ, the scheduling loop | applications, ports | interrupts inside the scan and inside a call, counter wrap, priority | a notification that ends a wait is there to be taken, timeouts exact, top task runs next |
| framing `fdlib/middleware/ABFStream.cpp` | decoder state, header, position, distance to next zero | encode, process, reset | DAQ session, USB | chunks cut anywhere; refused writes; arbitrary bytes | frames arrive whole or not at all; a loss does not spread |
| DAQ session `DAQStream.cpp`, `DAQSessionAPP.h` | registered streams, channels, discovery | send, process, discovery | framing, codec | send is two writes, results unread | discovery completes |
| sample codec `DAQCodec.h` | byte ring, marks, a difference state per channel; the reader's byte machine and block | pushSample, flush, readNext; decode | session | bounded rings, chunks of two kinds, lost chunks | a block is a run of the samples pushed, at the place its counter names |
| bridge driver `fd_mc3p.c` | injected ranks, calibration sums, offsets, sector, phase states, DMA double buffer | offset calibration, read_sync, write_svm, write_trap, write_float, background read | core | the end-of-scan interrupt against the thread; ranks that change during a scan | offsets are the mean of their own readings; a reading is of the phase it is taken for |
| PC tool `ForgeTool` | I/O thread, ring, object tree | connect, read, write, process | libusb, TCP | threads, reconnection, ring overflow | the decoder recovers; no stale handle |
| host platform | software timers, TCP server | timers, threads | core | polling thread | as on the MCU |

`PROJECT.json` lists these and the remaining parts (mathematics, GUI,
serialisation, board files) with their status, every hazard found while reading
with its line, and, for every definition that models code, the lines it models.

## 2. The modules

One module per component; a `*Proofs` module holds its theorems; an `MC*`
module instantiates it for TLC.

### FdRing

The functions of `fd_ring.h` as operators over indices, each index a parameter
*as often as the C code reads it*: `WriteCont(head, tailCmp, tailUse)` has one
tail for the comparison and one for the subtraction, because the compiler must
load the volatile field twice and an interrupt may come between. Assignment to
`uint16_t` is `U16`. One slot stays empty. `FdRingProofs` has what every user of
the ring needs: free + used = capacity - 1; a reservation never leaves the
storage; commits compose.

### UsbxchTx: device to host

Variables follow the handle: `head`, `tail`, `buf` (`h->tx`, `tx_storage`),
`busy`, `toRelease`, then the endpoint `ep`, the thread's program counter and
locals, and the history `written`/`wire`. Byte *n* of the history is the number
*n*, so that order and duplication show without any payload alphabet.

The thread is split wherever it touches what the interrupt touches:
`WriteStart` (the free test), `WriteCompare` and `WriteGrant` (two readings of
`tail`), `WriteCopy` (both memcpys), `WriteCommit`; `Update`/`Flush`, then
`StartTransmit` (`USBD_XCH_Transmit`), `StartRelease` and `StartBusy` (the two
stores after it). `SendPacket` and `TxComplete` are the bus and the interrupt;
`TxComplete` releases, and clears the flag (`EndTransfer`) or starts the next
contiguous part (`ChainTransfer`). `Clear`, `BusReset` and `SetConfig` complete
the interface in `FullSpec`. `SlowBus` is an assumption about hardware: that no
transfer completes before `usbxch_start_tx` returns. It is TRUE where the rest
of the driver is examined and FALSE where the assumption itself is.

### UsbxchRx: host to device

`arm` is the OUT endpoint (`h->r1`, `h->c1`, bytes got). `ReceivePacket`
stores a packet of 1..MaxPacket bytes and completes on a short or last packet;
`DataOut` is RxComplete, GetRxStorage and PrepareReceive in the order of
`USBD_XCH_DataOut`. `fd_usbxch_read` is six actions, one per reading of the
producer's head, including its final partial copy.

`HostFits` says that the host never sends more than the endpoint was armed
with. It is an assumption, and not one about a real host: nothing tells the host
how much was armed, the USB core takes whole packets whatever was armed, and the
repository's own tool (`ForgeTool/Usbxch.cpp`) sends any length. The code needs it
all the same (section 5). What is shown of the receive path is therefore
about the interleaving of completions with the steps of a read, on transfers that fit, and
not about the size of a transfer; that the armed memory is free and
the indices stay in the ring (`ArmedIsFree`, `RxTypeOK`) is checked under the
assumption and claimed by no theorem.

### ByteChannel

What either direction promises: bytes are delivered in the order they were
accepted, each once, at most `Limit` in between, eventually all. Both driver
modules are shown to implement it (`ImplementsChannel`), with `accepted` the
committed bytes and `delivered` what the other side has got.

### PmsmControl

Modes, fast loop, slow loop and the identification sequence R, Ld, rest, Lq.
The slow loop `SComm_xmcLoop` is a `switch` whose cases LD_ID, REST0 and LQ_ID
fall through, each block beginning with a new `switch (idsub)`. It is modelled as one
action per block (`RS_Block`, ..., `LQ_Block`). The port is chosen in `Init`:
on the microcontroller at most `Preempts` fast loops may run between the blocks
of one slow loop (1 in the runs, on the assumption that a slow loop is shorter than two
PWM periods), on the host none, since one thread runs both loops. The
theorems hold for any number. Within a block `Computes`,
`SettledTo`, `StartSettling` are its branches. Samples carry the stage,
the injection and the number of fast loops the injection has lasted (`held`):
these ghosts are what lets a property speak of *where a result came from*.
`elapsed` is `pTicks - eSettle_start_tick` cut at `Settle + 1`, the first value
beyond the only comparison made with it.

`configControlMode` is the whole path of the API call: the guard (through Idle
only), the critical section, and `setControlMode`, which selects `RS_ID` and
nothing else of the previous identification. On the microcontroller it comes
between two slow loops only. On the host it may come between any two blocks of one,
and then entering self-commissioning is two steps, since the slow loop that is under
way reads the stage and not the mode: `SComm_onEnter` stores `RS_ID`, and
`StoreMode` the mode. (Inside a fast loop it makes no difference: that reads mode, stage
and counter once each, and what it does is what it would do before or after.) `torn`
is history: since the last mode change something, that change included, has come
inside a slow loop.

### Cortos

The scheduling loop looks at one task per step (`Skip`, `Dispatch`), so that
interrupts come between any two; `Idle`/`EndIdle` is the port's idle call. A
blocking call is one action on the MCU (PRIMASK). On the host the mutex does not
exclude the ticker, and each store of the call is an action: `Block` for the
state, then in `FinishBlock` the `StoreNotify` of `xTaskNotifyWait`, `StoreWake`,
`StoreFlags`, and `StoreEndless` if the wait is endless. It does exclude the calls of other threads
(`Excluded`). `Ticker_IRQ` is one step on both ports; on the host the test of a task
and the store of READY are two in the code, and what a wake stored late does to a
newer call of the task is left out. Both ports are in
one run: `port` is chosen in `Init`. They also differ in the idle call: the host
remembers an earlier wake, the MCU waits for the next interrupt (WFI). The tick
counter has `W` values and the test is the code's signed difference.

### AbfStream

`SendHeader` and `SendPayload` are the two writes of `DAQSessionAPP::send`, each accepted
whole or refused by a link with `Room` bytes. `Read(n)` takes a chunk of any
length, and `Process` decodes one byte per step, one action per branch of
`Stream::process`. That includes the branches which call `reset()` and then go
on: `Incomplete` stores its byte, `HeaderEnd` with a bad checksum still enters
the payload. The checksum is an abstract function of the three header bytes.
`Shared = TRUE` is the set-up of `sys.cpp`, where the chunk is read into the
very buffer the decoder stores the payload in.

### Mc3p

The bridge driver of the STM32F4. The thread is `mc3p_offset_calibration`, one
action per access of shared state: a rank register written (`SetRank`), a sum
cleared (`ClearSum`), the count of samples armed (`Arm`), the wait on it
(`Wait`), the means stored (`Store`), and at the end `write_float` (`Finish`). The
converter is the environment: `StartScan` is the timer's trigger, and
`EndScanCalib`/`EndScanLoop` the interrupt at the end of a scan, with all it
does: `JEOS_IRQ` adds the readings while the calibration wants some, and after
the calibration the fast loop calls `read_sync` and one of the three writes. A
write of the rank register during a scan restarts the scan on the new ranks (the
reference manual says so of JSQR), so `SetRank` replaces the scan under way.
`taken` and `total` are history: the ranks and phase states each summed scan was
taken under, and the sum without its wrap at 16 bits.

A reading is known by its channel; `read_sync` records which channels it took
for which fields, whose scale it gave them, and what the half bridges were doing.
`SectorOf` is the code's arithmetic on the two components, with its shift and
its coefficients.

### SampleChannel, DaqCodec, DodCode

`SampleChannel` is the promise of the DAQ codec: the blocks handed out are runs
of accepted samples at the place their counter names, in order; and on a link
that loses nothing no accepted sample is left out between two blocks.

`DaqCodec` is the writer and the reader of `DAQCodec.h` with the chunks between
them. The writer's ring is the sequence `stream` of its bytes, with `marks`, the
places of its control chunks, relative to the read position as in the code.
`pushSample` is the whole call: the
backpressure, the reserve, the resync every `period` samples, the code of each
channel's second difference. `readNext` cuts the next chunk at the next mark, or
is refused when a control chunk does not fit. `Receive` hands the chunk to
`decode`, which begins by turning a pending resync into a new block
(`syncUpdate`) and then goes on byte by byte through the machine of `DodCode`.
`Lose` drops a chunk instead. `setup` gathers the parameters that two instances
must agree on, so that one run has both the lossy stream of one channel and the
lossless one of two.

`DodCode` is the code of one residual, written and read: the arithmetic of 16-bit
wrap, the zigzag and the three lengths of a code. It stands by itself so that it can
be proved about.

`decode` and `decodeSample` give the states that may follow as a set (of
one element), so that each is computed once.

## 3. The runs

All bounds are CONSTANTs of the modules and are named there.

| run | bounds | checks | what it shows |
|---|---|---|---|
| `usbxch_tx` | ring 4, writes up to 3, packets of 2, 7 bytes | `TxTypeOK`, `TxInOrder`, `BusyMatchesTransfer`, `GrantIsFree`, `AllSent`, `ImplementsChannel` | with `SlowBus`, exactly-once, ordered, eventual delivery for all interleavings |
| `usbxch_rx` | ring 4, reads of 2, packets of 2, 8 bytes | `RxTypeOK`, `RxInOrder`, `ArmedIsFree`, `AllRead`, `ImplementsChannel` | the same of the receive path on the assumption `HostFits` |
| `usbxch_tx_fastbus` | as `usbxch_tx` | `TxInOrder` fails | an early completion sends bytes twice |
| `usbxch_tx_reset` | as `usbxch_tx` | `IdleBusStarts` fails | a bus reset in mid-transfer silences the device |
| `scomm` | 2 samples, settling 2, 3 mode changes; on the MCU one preemption of a slow loop by a fast one, on the host mode changes inside a slow loop | `CtlTypeOK`, `CountExact`, `ResultsAreMeans`, `ResistanceSound`, `OwnSamples`, `SettledSamples`, `StepByStep`, `Commissions` | the counts are exact and the first resistance is sound on both ports; R, Ld and Lq come in turn from every entry that nothing comes into; where the loops exclude each other the first parameters are sound and the identification ends |
| `scomm_stuck` | one preemption, one mode change | `SamplingEnds` fails | a preemption at one place ends the identification for good |
| `cortos` | 2 tasks, counter of 4, delays 0, 1, 2 and endless, one bit, both ports | `CortosTypeOK`, `FindsNotification`, `OneOvertake`, `ExactTimeouts`, `TopRuns`, `TimeoutsEnd` | no wait clears the notification that ended it; exact timeouts across the wrap on the MCU, finite waits end on both; priority |
| `abf` | bytes 0..2, 6 payloads, 3 frames, link of 6, receive buffers of 1 and 2 | `AbfTypeOK`, `Intact`, `LossBounded` | frames whole and in order; a loss costs one more frame at most |
| `abf_shared` | bytes 0..7, buffer of 7, link of 14 | `Intact` fails | the shared buffer alters frames |
| `mc3p` | 2 samples a sum, sums of 10 bits, 2 different scans, components -1..1 | `McTypeOK`, `OffsetsOwn`, `OffsetIsMean`, `TrapMeasures`, `BridgeMatchesSector`, `CalibrationEnds` | the calibration never sums a scan of other ranks; a reading belongs to the phase it is used for; the driver knows what the bridge does |
| `codec` | 6 samples, one flush and the last, resync every 3; one channel with one lost chunk, and two channels without | `CodecTypeOK`, `Room`, `InBounds`, `ImplementsChannel`, `BackpressureClears`, `AllHandedOut` | blocks are runs of accepted samples in their places, also after a loss; no buffer overflows; backpressure ends |
| `codec_gap` | two channels, residuals of 120 | `Lossless` fails | residuals of a certain size come out as two samples |

**Why the bounds are enough.** A ring of four slots (three usable) is the least
in which a write of three bytes wraps in every position and a transfer
is chained across the wrap; 7 and 8 bytes take the indices round twice. Packets of two
bytes give transfers of less than one, one, and more than one packet. In the
control core the settling time and the number of samples are only ever compared
with a counter, so 2 gives before, at and beyond; three mode changes are
enter, abort, enter again. In the scheduler two tasks are the least with a
priority, and a counter of four values wraps inside each behaviour; its delays are
all the finite ones, of which 2 has a tick that must not end it and one that must. In the
framing, three byte values are the least in which a code, a sync byte and
a payload byte can be mistaken for each other; with a code's range that small, `W - 1`
bytes without a zero (255 in the code) is the payload `1,2`, so the wrap of the code to zero
is reached; the link holds less than the largest frame, so that in some behaviours a
header is refused and in others a payload; the
buffer of one byte makes `BufferSmall` happen. In the bridge driver two
samples are the least that make a sum; 10 bits hold a large and a small reading but
not two large ones, so that both sides of the condition of `OffsetIsMean`
happen; the components -1, 0 and 1 reach every sector and the zero vector. In the codec
six samples with a resync every three give two or three blocks; residuals of 0 and about
1000 take the one-byte and the two-byte code; the one channel's ring of 32 bytes
with a reserve of 16 fills, so that samples are refused and backpressure comes and
goes; the block of four of the second set-up is as small as its period allows. That
a block is longer than the period is assumed (`GoodSetup`), and that the ring of
marks is never full holds for the marks of so few samples, so a full block and a
lost mark are outside these runs; rings of a power of two are what the code asserts.
The theorems of section 4 have none of these bounds.

**Fairness, and why the code justifies it.**

- USB: `WF(Thread)` and `SF(AppDone)`: the main loop goes on for ever and its
  application part, a finite piece of code, comes to an end in each round.
  `WF(Bus)`: an enabled host polls the IN endpoint and interrupts are served.
  After a reset `WF(SetConfig)`: the host enumerates the device again. Nothing
  makes the application write.
- Receive: `WF(Read)` and `WF(DataOut)`; the host may stop sending at any time.
- Control core: both loops are periodic interrupts. `SF(pwmLoop)` because the
  number of fast loops inside one slow loop is bounded, so that the action is
  disabled now and then; weak fairness for the slow loop and its blocks. Nothing
  makes the thread change the mode.
- Scheduler: `WF(Scheduler)`: it keeps running and every task's function returns
  (the tasks are cooperative). `WF(Ticker_IRQ)`. No task has to call anything
  and no interrupt has to notify.
- Bridge driver: `WF(Thread)`, `WF(StartScan)`, `WF(EndScanCalib)`: the
  thread's loop goes on, the timer triggers, and a scan ends with its interrupt.
- Codec: `WF(Receive)`: the caller goes on sending what `readNext` gives, and a
  bounded number of chunks is lost; `WF(Close)`: it flushes when it is done.
- Framing: none; its properties are safety properties, over behaviours that may
  stop anywhere. What must have arrived is asked where the link is drained.

**Deadlock** is checked where the system cannot stop, and switched off in
`usbxch_rx` (the host has sent all it may), in the codec's runs (the caller
has pushed its last sample and closed) and in the control runs (the bounded
mode changes may end with the core uninitialised, mode `None`, where no loop
does anything).

**Notes on single properties.**
`GrantIsFree` is about `fd_ring_write_reserve` reading `tail` twice: if the
interrupt advances `tail` past the wrap between the two, the 16-bit subtraction
wraps; the property says that the memory handed out is free and is what the
commit publishes all the same. `FindsNotification` needs the mutex of the host: without it a notification between the
store of the state and that of `notify_value` ends the wait and is then cleared, and the task
runs with nothing to take. It says nothing of a notification *before* the wait, which
`xTaskNotifyWait` clears (section 5). `CountExact` is quoted from the header
("Remaining samples for current step"): it is what stays true when an aborted
identification is entered again with its old counter. `OwnSamples` and
`SettledSamples` are stated for the host and for the first entry only: on the
microcontroller finding 3 has relatives (section 5), and a second entry keeps the
old sub-stage. `StepByStep` is stated for both ports and every entry, but while not `torn`:
a fast loop inside a slow one lets the MCU skip Ld, and a mode change inside one lets the host
compute Lq first, the block under way storing its next stage over `RS_ID`; the next
entry that nothing comes into is in order again. `OneOvertake` bounds priority inversion: the scan is not
atomic, so a task made ready behind the scan waits for one task that was found
first, and no more. `LossBounded` finds every frame that got in whole after one
that did, in order, among what was delivered; that there may be *more* delivered
is the subject of section 5. `OffsetsOwn` depends on the order of the stores in
`mc3p_offset_calibration` (ranks, then sums, then the count): a scan that was under way
ends between two of them. `TrapMeasures` relates three places that a
commutation must change together: the rank register, the phases, and `sector_last`,
by which the next reading is interpreted. `ImplementsChannel` of the codec says
*where* a sample comes out, not only that it does: a loss may cost samples, but a
block's counter still names its first sample.

## 4. The proofs

Every statement called THEOREM or LEMMA is proved to the last leaf.

| theorem | establishes | from |
|---|---|---|
| `UsbxchTxProofs!TxTypeCorrect` | `FullSpec => []TxTypeOK`: no operation, reset, clear or early completion takes an index or a transfer out of the ring | ring lemmas |
| `UsbxchTxProofs!TxExactlyOnceInOrder` | `SlowBus`: `TxSpec => []TxInOrder` | `TxInv` |
| `UsbxchTxProofs!TxBusyExact` | `SlowBus`: `TxSpec => []BusyMatchesTransfer` | `TxInv` |
| `UsbxchTxProofs!TxGrantIsFree` | `SlowBus`: `TxSpec => []GrantIsFree` | `TxInv` |
| `UsbxchTxProofs!TxIsChannel` | `SlowBus`: `TxSpec => Channel!ChanSafeSpec`: every step delivers the next bytes, accepts bytes within the limit, or stutters | `TxInv` |
| `UsbxchRxProofs!RxReadInOrder` | `HostFits`: `RxSpec => []RxInOrder` | `RxInv` |
| `UsbxchRxProofs!RxIsChannel` | `HostFits`: `RxSpec => Channel!ChanSafeSpec` | `RxInv` |
| `PmsmControlProofs!CtlTypeCorrect` | `[]CtlTypeOK` | inductive as it stands |
| `PmsmControlProofs!CountCorrect`, `MeansCorrect` | `[]CountExact`, `[]ResultsAreMeans` | `CountInv` |
| `PmsmControlProofs!ResistanceIsSound` | `[]ResistanceSound` | `RFirst` |
| `PmsmControlProofs!SamplesAreOwn`, `SamplesAreSettled` | `[]OwnSamples`, `[]SettledSamples` | `HostFirst` |
| `PmsmControlProofs!InSteps` | `StepByStep`, on both ports | `OrderInv` |
| `CortosProofs!CortosTypeCorrect` | `[]CortosTypeOK` | inductive as it stands |
| `CortosProofs!NotificationFound` | `[]FindsNotification`, on both ports | `Heard` |
| `CortosProofs!AtMostOneOvertake` | `[]OneOvertake` | `Overtaken` |
| `CortosProofs!TimeoutsExact` | `ExactTimeouts` (of the MCU), for delays of up to half the counter's range and one tick | `Timed` |
| `AbfStreamProofs!AbfTypeCorrect` | `[]AbfTypeOK`: whatever bytes arrive, shared buffer or not, the decoder stays in bounds | `AbfInv` |
| `AbfStreamProofs!AbfIntact` | `~Shared`: `[]Intact`: any frames, cut anywhere, come out whole, in order, once | `FrameInv` |
| `AbfStreamProofs!AbfLossBounded` | `~Shared`: `[]LossBounded`: refused writes cost no more than their frame and the next | `FrameInv` |
| `Mc3pProofs!McTypeInv` | `[]McTypeOK` | `IInv` |
| `Mc3pProofs!OffsetsAreOwn`, `OffsetsAreMeans` | `[]OffsetsOwn`, `[]OffsetIsMean` | `CalibInv`, `MeanInv` |
| `Mc3pProofs!TrapReadings`, `SectorIsBridge` | `[]TrapMeasures`, `[]BridgeMatchesSector` | `ScanInv`, `TrapInv` |
| `Mc3pProofs!SectorOfNonzero` | every voltage vector but zero has a sector | arithmetic |
| `DaqCodecProofs!RoundTrip`, `GapMisread` | the byte machine takes a code for its residual outside the gap, and for 120 inside it | arithmetic |
| `DaqCodecProofs!StatesAgree` | the second difference restores the sample and the channel's state, through every wrap | arithmetic |
| `DaqCodecProofs!CodecTypeCorrect` | `[]CodecTypeOK`: the marks lie in the stream on control bytes, the reader stays in its states, whatever is lost | `CodecInv` |
| `DaqCodecProofs!CodecRoom` | `[]Room`: the reserve is enough for what is pushed without a look at the room | `CodecInv` |
| `DaqCodecProofs!CodecInBounds` | `Spec /\ []Healthy => []InBounds`: no byte finds the residual buffer full | `PromiseInv` |
| `DaqCodecProofs!CodecLossless` | `Spec /\ []Healthy => []Lossless`: what is reconstructed is what was offered | `PromiseInv` |
| `DaqCodecProofs!CodecImplements` | `Spec /\ []Healthy => ImplementsChannel`: blocks are runs of accepted samples, and none is left out | `PromiseInv` |
| `DaqCodecProofs!CodecPromise` | `Spec /\ Tame(setup)` implies the three: their condition from the setup alone | `TameInv` |

The constants are arbitrary, under the named assumptions of their modules
(capacity 2..32768, so that a negative difference of two indices wraps in
`uint16_t` to more than any write; positive sizes; `W > 2`; buffers shorter than `W`;
any voltage vector and any readings that are natural numbers).

*The transmit path.* `TxInOrder` is not inductive: to know that the next packet
carries the right bytes one must know what the ring holds and where the
transfer stands. `TxInv` adds: `InvFlag` (flag, release count and endpoint
agree, with the two stores of `usbxch_start_tx` still to come); `InvFlight`
(the transfer covers the oldest pending bytes, and the host has exactly what
was released plus what the transfer has sent); `InvData` (the used slots hold
the last bytes written, in order); `InvWrite` (what a write in progress may rely
on: the free space it saw can only have grown, and if the tail it compared with
lay above head then its bytes end below that tail). The step of the write's
second reading of `tail` is the subtle one: the comparison may have seen an old tail,
but then the region up to the end of the storage, or up to that old tail, is
long enough. `SlowBus` is used in one place, to exclude `TxComplete` in the states
`k_release` and `k_busy`. For `TxIsChannel` the invariant gives in every
state that what the host has is an initial part of what was written
(`ChannelState`), and `TxSimulates` looks at the three steps that change
either: a commit accepts, a packet delivers, the rest stutters.

*The receive path.* `RxInv` mirrors `TxInv` with the roles changed: here the
interrupt moves head while the thread reads it three times. `InvReader` says what
each reading is still good for afterwards (there is at least what it saw, since only the
thread takes bytes away), `InvTransfer` that the bytes of the transfer under way
lie behind head in order, although they are not counted yet, and `ArmedIsFree` is itself a
part of the invariant: it is what keeps a packet off the bytes being read.
`HostFits` is needed in one place, `ReceivePacket`, and without it the claim is
false (section 5). The two conjuncts of `RxInv` that are properties of the run as well,
the types and `ArmedIsFree`, are not among the theorems: on that assumption they would
say little more than the assumption does.

*The control core.* `CountInv` joins the types with `CountExact` and
`ResultsAreMeans`: a result is the accumulator at a moment when the counter is
0, hence of full length. `RInv` says, as long as identification was entered once:
waiting in stage R means that the d voltage has been applied for at least
`elapsed` fast loops, so that the samples taken after the settling test have
been held for more than `Settle`; `Fresh` and `Stages` say from where the stage
is entered and that no block of another stage runs while it lasts. `RFirst` is `FirstEntry => RInv` with the types. For the inductances `HInv` is
the same for the stages Ld and Lq where the loops exclude each other, and needs
in addition `Flow`: with which stage and sub-stage a block can be entered by
falling through. Without it the block LQ_ID could find the stage REST0 settled,
which is finding 3; with the fast loop excluded the clock does not advance
between the two blocks. `HostFirst` conjoins all three. `Order` keeps `Flow` for every
entry on either port, not the first only, and adds which parameter was computed last in which
stage. `OrderInv` claims it while nothing has come inside a slow loop (`~torn`), and
in every state that a stage which settles has all its samples to go (`AllToGo`): the
disturbed entries before leave any stage, sub-stage, counter and sums behind, and this is
all that the next one needs of them.

*The scheduler.* `Heard` strengthens `FindsNotification` with what the running task is: one
that has not called yet is ready, so that no notification ends a wait of
it, and one among the stores of a call is not among those heard, because the critical
section keeps `xTaskNotify` out.
`Overtaken` says how an overtaking can look: the first task is ready since, and
the scheduler is in the task it found instead or about to look at the first. For
the timeouts `Timed` connects the wake time with the ticks still to go (`due`,
a history variable) modulo the counter's width; the lemma `ReachedExactly` is the signed
comparison at the next tick, and holds for delays up to half the range and one:
the bound is sharp, for one tick more the comparison finds the wake time in
the past at once.

*The bridge driver.* `CalibInv` tells, for each place of the thread, how far the
ranks are set and what may be in the sums: until `Arm` nothing is counted
(`remaining = 0`), and from then on a scan under way is of the ranks set
(`ScanInv`), because a rank written in mid-scan restarts it. `MeanInv` says a sum is
its total as long as that fits. `TrapInv` adds for the fast loop that in a
trapezoidal sector the rank register is the sector's row of the table.

*The code of the DAQ stream.* No state and no induction: a code has one to three
bytes, so the machine's steps are written out. `Gap` is the set of residuals whose
code the machine misreads, -128 to -120 and 120 to 127; that the two theorems share
it shows that it is exactly the set.

*The codec.* `CodecTypeOK` is not inductive: that the first mark left is still on
its control byte after a chunk is taken needs `MarksOK`, the marks in order and
not over one another; and that the bytes taken leave the reader in one of its
states needs the machine's (`Parser`: how many bytes of a code each state has).
`Room` needs the length of what is pushed, five bytes and four a channel for a
resync (`ResyncBytesSize`), three a channel at most for a sample (`CodesSize`),
against a reserve of 16 a channel. `FlattenSeq` and `decodeSample` are recursive
functions; that each exists, and what it gives, is shown with the least element of
the places where it would not. The assumption `GoodSetup` has at most 14 channels,
the most the reader's scratch buffer can resynchronise, and with 16 `Room` is false.

*The codec's promise.* It does not hold of every good setup: a residual in the gap is
read as two (section 5), a mark for which the mark ring has no room leaves control bytes
among samples, and after a lost resync the block goes on. `Healthy` says that none of
these has happened: no losses, fewer marks than the ring holds, and no accepted sample
with a residual in the gap. That a block is longer than the resync period is in
`GoodSetup`, as an assumption: nothing in the code compares the two. `Tame` gives `Healthy` from the setup (vectors, mark ring,
bounds), and the two channels of `codec` are tame.
The invariant, `PromiseInv`, has ghosts under its existential quantifier: items
`it[1 .. n]`, all that was ever written, each a resync, a sample or a flush; `en`, where
each one's bytes end; and `c`, how many bytes the reader has taken. It conjoins

- `Chain`: each item stands for what was offered: a resync for the first sample
  of a block with the channels' states after it, a sample's codes for the residuals to
  the state before it, and between a block and the next resync no sample was accepted;
- `Layout` and `MarksAt`: the items' bytes from `c` on are the stream, and the marks are
  the control items among them, so that a chunk has either no control byte in it or
  is one control item (`DataItems`, `ControlItems`);
- `WriterAt`: the writer's states are those after the last sample offered, and `till` counts
  from the last resync;
- `At`, of the reader once a pending resync is taken (`Synced`): its block is that
  of the last item it took whole, and in the middle of a sample the byte machine holds the
  residuals of the channels passed and the bytes of the code at hand (`InSample`);
  the last block handed out ends where the present one begins.

`ByteAt` is the step of one byte, and `ChunkAt` carries it through `decodeSample` by
the least chunk length for which it would fail; `ControlTaken` is that of a resync
and a flush, where a block is handed out; `BaseGrows` that of the writer. It is
`RoundTrip` that takes a code for its residual and `StatesAgree` that makes the reader's
state the writer's.

*The framing, types.* `AbfInv` adds the types of the histories. Its interesting steps
are the branches that go on after `reset()`, where the position is 0 or 1
although the state is the hunt; and that the distance to the next zero
exists (`DistanceCorrect`, by the least element of a set of naturals).

*The framing, content.* `Intact` and `LossBounded` say what has been delivered, and
say nothing of the bytes on their way. `FrameInv` does, with four ghosts under its
existential quantifier instead of variables in the model: `T`, all the bytes
ever put on the link; `off`, where in `T` each frame starts; `c`, the number of bytes
processed; `place`, where each frame is among the delivered ones. It conjoins

- `Layout`: the frames follow each other in `T`, a frame being a header or nothing and then an
  encoded payload or nothing, and the bytes from `c` on are the chunk and then the link;
- `Tracks`: where the decoder is, given where `c` is. Inside a frame whose header got
  in it is `Reading` that frame (the header so far stored, the payload so far
  decoded, the countdown that of the next place) or it `Skips` the frame, hunting:
  because the frame's start was lost, or because it is longer than the buffer and was given
  up. Inside a frame without a header it may be doing anything but reading
  a header (`Between`). After a frame that got in whole it is hunting: this is
  what limits the damage of a refused write to the next frame;
- `Placed`: a frame that got in whole after such a frame is among the delivered ones, in order;
- `Counted`, while all writes were accepted: those the buffer holds, and no others, are.

`FrameStep` is the heart: a byte of a frame, in every state `Tracks` allows, does what `Outcome` says.
It rests on two facts of the code: no encoded byte is zero (`NoZeros`), so that a
decoder which hunts finds the next sync byte and none before; and a byte decoded is
the byte sent and leaves the countdown right for the next place (`DecodeStep`), also
through its wrap for 255 bytes without a zero. `Regular` is the premise under which
the invariant says anything: no write was refused or no code in a header is zero; a step
never makes it true again (`RegularBefore`). `~Shared` is needed where a byte is
read, and without it `Intact` is false (section 5).

*Only model-checked.* All liveness (`AllSent`, `AllRead`, `Commissions`,
`TopRuns`, `TimeoutsEnd`, `CalibrationEnds`, `BackpressureClears`,
`AllHandedOut`), since the prover handles no fairness; of `ImplementsChannel` of
the two USB directions only the liveness part. Of the codec on a link that
loses chunks, `InBounds` and `ImplementsChannel`: after a lost resync the block goes on,
so that they hold only for sizes with enough to spare, like those of the runs, and with
several channels `ImplementsChannel` does not (section 7).

## 5. Where the code departs from its text

Five runs find a property violated. Each states what a comment, a document or
a test of the repository says.

1. `usbxch_tx_fastbus`. `usbxch_start_tx` starts the transfer and then
   stores its length and the busy flag; its comment says it is safe with
   interrupts enabled. If the completion comes in between, it releases the
   length of the *previous* transfer, and bytes are sent twice. A full-speed bus
   takes microseconds for the shortest packet, so this needs a long interrupt
   in that window; the ADC interrupt is one.
2. `usbxch_tx_reset`. A bus reset closes the endpoint without a completion, and
   nothing clears the busy flag: after re-enumeration `fd_usbxch_update` never
   starts a transfer on the idle bus.
3. `scomm_stuck`. REST0 falls through to LQ_ID with the stage still REST0. If the
   fast loop's tick between the two makes the settling time pass, LQ_ID starts sampling in a stage
   in which the fast loop takes no samples: the counter never reaches 0.
4. `abf_shared`. The main loop reads into the decoder's own payload buffer. A
   frame that two reads share is decoded over its own input: the payload
   `0,0`, header and payload in two reads, is delivered as `0,1` without error.
5. `codec_gap`. A second difference of magnitude 120 to 127 (and -128) is written as the
   byte 240 and one more; the reader takes only bytes above 240 for that form, so
   it reads a residual of 120 and then another. The repository's codec test
   requires that what is decoded be what was encoded.

Other behaviour seen in the models or while reading, which no run states; where a
text says otherwise it is quoted:

- `fd_usbxch_clear` with a transfer in flight: the completion then releases bytes of an
  empty ring, and old ones are sent again. (`TxTypeCorrect` covers it: indices
  stay in range.)
- The OUT endpoint is armed with the contiguous free memory, possibly less than
  a packet; the core accepts whole packets, so a longer one is stored past it.
  And it is armed at configuration and in the completion only, also with 0 bytes when the
  ring is full: the core then still accepts one packet. `fd_usbxch.h:103-106` says
  of `fd_usbxch_update` that it "Prepares OUT endpoints for next reception", which the
  code contradicts: the function does nothing to them (it is no action of `UsbxchRx`),
  and an endpoint armed with nothing stays so however much the main loop reads. With a ring of 5, packets of 3 and
  `HostFits = FALSE`, head passes the end of the storage and `fd_usbxch_read`
  computes a read beyond it (`RxTypeOK` fails).
- The README calls Idle "Safe state, motor disabled"; `setControlMode` never
  calls `fd_mc3p_write_float`, and the timer keeps the duties of the last fast
  loop. It happens in every behaviour that leaves a running mode (`bridge` keeps
  its value), so a run would only repeat the assignment.
- Under preemption the stage Ld can be skipped or Lq computed from samples of
  another stage in the same way as finding 3 (`OwnSamples` with `Preempts = 1`);
  a second entry starts with the old sub-stage, so without settling (the same
  properties without `FirstEntry`).
- On the host a mode change may fall inside a slow loop. The block under way then
  stores its next stage over the `RS_ID` of the new entry, and the identification begins
  there: Lq before R, for instance (`StepByStep` without `~torn`; it
  fails on both ports).
- On the host port a tick between the store of the state and that of the wake
  time wakes a task by its previous wake time, and one between the two stores of the
  flags ends an endless wait (`ExactTimeouts` is about the MCU). A ticker that stores
  READY late ends whatever the task has called since; the model has no such delay.
- `xTaskNotifyWait` clears the notifications first: one that comes between
  `xTaskNotifyTake` and the wait is dropped, a wakeup lost, and an endless wait may
  then never end. The models have it; no property says it cannot happen. A finite delay of more than
  half the counter's range and one tick ends at the next tick.
- The payload of a frame has no checksum: a header whose payload was refused,
  followed by a payload of the same length whose header was refused, is one
  good frame to the reader. The code of 255 bytes without a zero is 0, which
  looks like a sync byte to a reader that has lost its place. A bad header
  checksum is reported, yet the payload is read and delivered (a test expects it).
- `fd_mc3p_write_svm` never sets the injected ranks: `mc3p_adc_mode` is called
  by `write_trap` only, and by that before it refuses a sector which is not
  trapezoidal. In SVM `read_sync` takes the fields from the data registers 1, 1, 2,
  3 while their scales are those of ranks 1 to 4. `TrapMeasures` is therefore
  stated for the trapezoidal sectors.
- The zero vector has no sector (all three phases count as nonnegative):
  `write_svm` then stores FLOAT as the sector while the bridge goes on switching, and
  the next read takes the bus voltage only. `BridgeMatchesSector` allows for it, and
  `SectorOfNonzero` proves it is the only such vector.
- The 16-bit sums of the calibration wrap for means above 511 of 4095 with the
  128 samples of the code; `OffsetIsMean` and its theorem are stated below that.
- A block no longer than the resync period is full before the resync that would begin
  the next: `emitSample` refuses, `current_channel` stays where it was, and the next
  residual is stored past the end of `dod_buf`. The writer's user
  chooses the period and the reader's the block; nothing compares them.
- With several channels the residuals of half a sample survive a resync
  (`current_channel` is not reset): after one loss every later sample is shifted by a channel
  until another loss. The lossy set-up therefore has one channel.
- `marks.push` in the writer has its result unread: a mark that finds the ring of
  marks full leaves control bytes among samples. The reserve of 16 bytes a channel is
  kept in 8 bits and is 0 for 16 channels. `Writer::reset` leaves the marks of a
  stream it has emptied.
- `decodeResyncDod` copies as many bytes as the chunk has, beginning after its first:
  it reads one byte past the chunk. The byte is never used, so the model's
  `pending` is the rest of the chunk and no more.
- A block may be handed out twice: a flush makes the present block ready, and the
  next resync makes it ready again (a stutter of `SampleChannel`).

## 6. What is not modelled

- *Arithmetic.* Fixed-point transforms, controllers, the motor simulation, the
  numerical values of R, Ld and Lq: formulas without interleavings, over a range
  far beyond enumeration. What a result is *computed from* is modelled.
- *Registers and vendor code.* Timer and ADC programming, HAL, the USB core. The
  USB core appears as the environment of the driver: it takes packets from, or
  stores packets in, the armed memory, and calls back.
- *`fd_usbxch_connected`* and control-endpoint requests: the flag is never set.
- *Task creation and profiling* in the scheduler: before the start, and never
  read, respectively.
- *Statistics of `ABFStream`*: declared, never written.
- *Background conversions* of the bridge driver (the double buffer filled by DMA):
  `fd_mc3p_read_bg` has no caller, so that nothing fixes who would read when.
  Timer and converter set-up, dead-time compensation and the scaling in fixed point
  are left out with the registers and the arithmetic.
- *`Writer::reset` and `Writer::reset_state`* of the codec: nothing calls them on a
  stream in use. Nor is the counter of samples wrapped (it has 32 bits; the model
  keeps its low byte, for fewer samples than that).
- *The DAQ session and the PC tool*: see the plan. `DAQSessionAPP::send` alone is
  modelled, as the writer of frames.
- *The host's software timers, the plant simulation and the GUI*: only in the
  simulation build.
- *Vendored code* (CMSIS, HAL, ImGui, the USB core, libusb), which is nearly all of the
  tree's lines: used, not part of the program.

## 7. Plan

The order followed what a fault would cost and how hard it would be to see in a
test: the USB exchange driver with its ring, the control core, the scheduler, the
framing, the bridge driver, the sample codec. What remains:

1. **`DaqSession`** over `AbfStream`: discovery as a burst of frames over a link that
   refuses (the results of `send` are unread); property: a repeated request completes the
   discovery. The handler resets its reader without giving it the frame's data, so the
   request has no marker yet: first the intended protocol must be settled.
2. **`ToolLink`** (`ForgeTool`): I/O thread, ring overflow in the middle of a frame,
   disconnect and reconnect; composed with the decoder of `AbfStream`, whose
   `LossBounded` would then be asked of a cut at any byte.
3. **The codec with losses on several channels**, once the reader resets its residuals
   on a resync.
4. **Host timers**: polling thread against reconfiguration.

The theorem worth proving next is the codec's promise for one channel when chunks are
lost: `PromiseInv` with a reader that is out of place from the loss to the next resync,
and a block large enough for the samples of two periods.
