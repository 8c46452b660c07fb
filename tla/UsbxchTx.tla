------------------------------ MODULE UsbxchTx ------------------------------
(***************************************************************************)
(* The device-to-host half of the USB exchange driver                      *)
(* (fdlib/driver/stm32f4/fd_usbxch.c, the stm32f1 file is the same code):  *)
(* the main-loop thread writes into the tx ring and starts IN transfers;   *)
(* the USB interrupt completes them and chains the next one.  An interrupt *)
(* runs to completion between any two steps of the thread, so a thread     *)
(* operation is split wherever it reads or writes state the interrupt also *)
(* touches; interrupt handlers are single actions.                         *)
(***************************************************************************)
EXTENDS FdRing, Sequences

CONSTANTS
    MaxWrite,    \* the longest fd_usbxch_write of the application
    MaxPacket,   \* the endpoint's maximum packet size
    MaxBytes,    \* bound on the bytes written in a behaviour
    SlowBus      \* TRUE: no IN transfer completes before start_tx returns

ASSUME TxAssumption == /\ MaxWrite \in Nat \ {0}
                       /\ MaxPacket \in Nat \ {0}
                       /\ MaxBytes \in Nat
                       /\ SlowBus \in BOOLEAN

VARIABLES
    head, tail,    \* h->tx
    buf,           \* h->tx_storage; slot value n is the n-th byte written
    busy,          \* h->flags & USBXCH_FLAG_TX_BUSY
    toRelease,     \* h->tx_to_release
    configured,    \* the host has selected a configuration
    ep,            \* the IN endpoint: armed?, next slot, bytes left
    pc,            \* what the thread does next
    wlen,          \* write: count, wcmp: the compared tail, wc1: cont1
    wcmp, wc1,
    kc1,           \* start_tx: c1
    written,       \* number of bytes committed by the thread
    wire           \* history: the bytes the host has received

vars == <<head, tail, buf, busy, toRelease, configured, ep, pc,
          wlen, wcmp, wc1, kc1, written, wire>>
ring == <<head, tail, buf>>
locals == <<wlen, wcmp, wc1, kc1>>

PC == {"update", "app", "w_compare", "w_grant", "w_copy", "w_commit",
       "k_transmit", "k_release", "k_busy", "c_head"}

EpOff == [on |-> FALSE, slot |-> 0, left |-> 0]
EpArmed(slot, n) == [on |-> TRUE, slot |-> slot, left |-> n]

TxInit ==
    /\ head = 0 /\ tail = 0 /\ buf = [i \in Index |-> 0]
    /\ busy = FALSE /\ toRelease = 0
    /\ configured = TRUE /\ ep = EpOff
    /\ pc = "update"
    /\ wlen = 0 /\ wcmp = 0 /\ wc1 = 0 /\ kc1 = 0
    /\ written = 0 /\ wire = << >>

-----------------------------------------------------------------------------
(* Thread: the main loop calls fd_usbxch_update, then runs the application. *)

MutPendingTx == RingSize(head, tail) > 1   \* mutant: off by one
PendingTx == RingSize(head, tail) > 0

\* fd_usbxch_update
Update ==
    /\ pc = "update"
    /\ pc' = IF ~busy /\ PendingTx THEN "k_transmit" ELSE "app"
    /\ UNCHANGED <<ring, busy, toRelease, configured, ep, locals, written, wire>>

\* The application part of a main-loop round ends.
AppDone ==
    /\ pc = "app" /\ pc' = "update"
    /\ UNCHANGED <<ring, busy, toRelease, configured, ep, locals, written, wire>>

\* fd_usbxch_flush, when it does not return at once
Flush ==
    /\ pc = "app" /\ ~busy /\ pc' = "k_transmit"
    /\ UNCHANGED <<ring, busy, toRelease, configured, ep, locals, written, wire>>

\* fd_usbxch_write accepts n bytes: count > fd_ring_free fails; otherwise the
\* reserve goes on to read tail again, twice.
WriteStart(n) ==
    /\ pc = "app" /\ written + n <= MaxBytes
    /\ n <= RingFree(head, tail)
    /\ wlen' = n /\ pc' = "w_compare"
    /\ UNCHANGED <<ring, busy, toRelease, configured, ep, wcmp, wc1, kc1, written, wire>>

WriteCompare ==
    /\ pc = "w_compare"
    /\ wcmp' = tail /\ pc' = "w_grant"
    /\ UNCHANGED <<ring, busy, toRelease, configured, ep, wlen, wc1, kc1, written, wire>>

WriteGrant ==
    /\ pc = "w_grant"
    /\ wc1' = FirstPart(WriteCont(head, wcmp, tail), wlen)
    /\ pc' = "w_copy"
    /\ UNCHANGED <<ring, busy, toRelease, configured, ep, wlen, wcmp, kc1, written, wire>>

WriteCopy ==
    /\ pc = "w_copy"
    /\ buf' = CopyIn(buf, head, wc1, wlen, written + 1)
    /\ pc' = "w_commit"
    /\ UNCHANGED <<head, tail, busy, toRelease, configured, ep, locals, written, wire>>

WriteCommit ==
    /\ pc = "w_commit"
    /\ head' = Advance(head, wlen) /\ written' = written + wlen
    /\ pc' = "app"
    /\ UNCHANGED <<tail, buf, busy, toRelease, configured, ep, locals, wire>>

\* usbxch_start_tx: the transfer is started first, its length and the busy
\* flag are stored after it.
StartTransmit ==
    /\ pc = "k_transmit"
    /\ IF busy \/ RingSize(head, tail) = 0
       THEN pc' = "app" /\ UNCHANGED <<ep, kc1>>
       ELSE /\ kc1' = FirstPart(ReadCont(tail, head, head), RingSize(head, tail))
            /\ ep' = EpArmed(tail, kc1')
            /\ pc' = "k_release"
    /\ UNCHANGED <<ring, busy, toRelease, configured, wlen, wcmp, wc1, written, wire>>

\* mutant: the length of the first transfer is not recorded
MutStartRelease ==
    /\ pc = "k_release" /\ pc' = "k_busy"
    /\ UNCHANGED <<ring, toRelease, busy, configured, ep, locals, written, wire>>

StartRelease ==
    /\ pc = "k_release"
    /\ toRelease' = kc1 /\ pc' = "k_busy"
    /\ UNCHANGED <<ring, busy, configured, ep, locals, written, wire>>

StartBusy ==
    /\ pc = "k_busy"
    /\ busy' = TRUE /\ pc' = "app"
    /\ UNCHANGED <<ring, toRelease, configured, ep, locals, written, wire>>

Thread == \/ Update \/ Flush \/ AppDone
          \/ \E n \in 1 .. MaxWrite : WriteStart(n)
          \/ WriteCompare \/ WriteGrant \/ WriteCopy \/ WriteCommit
          \/ StartTransmit \/ StartRelease \/ StartBusy

-----------------------------------------------------------------------------
(* The bus and the USB interrupt.                                          *)

\* The USB core takes one packet of the armed transfer to the host, reading
\* the ring's memory at that moment.
SendPacket ==
    /\ configured /\ ep.on /\ ep.left > 0
    /\ LET n == IF ep.left < MaxPacket THEN ep.left ELSE MaxPacket
           k == Len(wire)
       IN /\ wire' = [i \in 1 .. k + n |->
                        IF i <= k THEN wire[i] ELSE buf[ep.slot + (i - k - 1)]]
          /\ ep' = EpArmed(ep.slot + n, ep.left - n)
    /\ UNCHANGED <<ring, busy, toRelease, configured, pc, locals, written>>

Starting == pc \in {"k_release", "k_busy"}

\* mutant: the flag survives the last transfer
MutEndTransfer == ep' = EpOff /\ UNCHANGED <<busy, toRelease>>

\* Nothing left to send: the busy flag is cleared.
EndTransfer == busy' = FALSE /\ ep' = EpOff /\ UNCHANGED toRelease

\* The next contiguous part of the ring is sent at once.
ChainTransfer ==
    /\ toRelease' = FirstPart(ReadCont(tail', head, head), RingSize(head, tail'))
    /\ ep' = EpArmed(tail', toRelease')
    /\ UNCHANGED busy

\* USBD_XCH_DataIn -> USBD_XCH_TxComplete
TxComplete ==
    /\ configured /\ ep.on /\ ep.left = 0
    /\ SlowBus => ~Starting
    /\ tail' = Advance(tail, toRelease)
    /\ IF RingSize(head, tail') = 0 THEN EndTransfer ELSE ChainTransfer
    /\ UNCHANGED <<head, buf, configured, pc, locals, written, wire>>

Bus == SendPacket \/ TxComplete

-----------------------------------------------------------------------------
(* Operations outside the steady state: the ring is cleared, the bus is    *)
(* reset and configured again.                                             *)

\* fd_usbxch_clear, its two stores to the tx ring
ClearTail ==
    /\ pc = "app" /\ tail' = 0 /\ pc' = "c_head"
    /\ UNCHANGED <<head, buf, busy, toRelease, configured, ep, locals, written, wire>>

ClearHead ==
    /\ pc = "c_head" /\ head' = 0 /\ pc' = "app"
    /\ UNCHANGED <<tail, buf, busy, toRelease, configured, ep, locals, written, wire>>

Clear == ClearTail \/ ClearHead

\* Bus reset -> USBD_XCH_DeInit: the endpoint is closed, an armed transfer is
\* dropped without a completion, and the driver is not told.
BusReset ==
    /\ configured' = FALSE /\ ep' = EpOff
    /\ UNCHANGED <<ring, busy, toRelease, pc, locals, written, wire>>

\* SET_CONFIGURATION -> USBD_XCH_Init, which opens the IN endpoint
SetConfig ==
    /\ ~configured /\ configured' = TRUE
    /\ UNCHANGED <<ring, busy, toRelease, ep, pc, locals, written, wire>>

-----------------------------------------------------------------------------
(* Steady state: configured once, ring never cleared.                      *)
TxNext == Thread \/ Bus
TxSpec == TxInit /\ [][TxNext]_vars

\* Every operation the driver's interface offers.
FullNext == TxNext \/ Clear \/ BusReset \/ SetConfig
FullSpec == TxInit /\ [][FullNext]_vars

(* The super-loop keeps stepping, its application part is finite, and an   *)
(* enabled host keeps polling the IN endpoint and interrupts are served.   *)
Fairness == WF_vars(Thread) /\ SF_vars(AppDone) /\ WF_vars(Bus)
FairTxSpec == TxSpec /\ Fairness

ResetNext == TxNext \/ BusReset \/ SetConfig
FairResetSpec == TxInit /\ [][ResetNext]_vars /\ Fairness /\ WF_vars(SetConfig)

-----------------------------------------------------------------------------
(* Properties.                                                             *)

\* Every variable has its type, whatever operations are called: the indices
\* stay inside the ring and the endpoint inside the ring's memory.
TxTypeOK ==
    /\ head \in Index /\ tail \in Index
    /\ buf \in [Index -> 0 .. MaxBytes]
    /\ busy \in BOOLEAN /\ configured \in BOOLEAN
    /\ toRelease \in Index
    /\ ep \in [on : BOOLEAN, slot : 0 .. Capacity, left : Index]
    /\ ep.slot + ep.left <= Capacity
    /\ pc \in PC
    /\ wlen \in Index /\ wcmp \in Index /\ wc1 \in Index /\ kc1 \in Index
    /\ written \in 0 .. MaxBytes
    /\ wire \in Seq(0 .. MaxBytes)

\* The host receives the bytes fd_usbxch_write accepted, in order, none lost,
\* repeated or invented, although the completion interrupt releases and
\* re-sends ring memory while the thread is anywhere in a write.
TxInOrder == Len(wire) <= written /\ \A i \in 1 .. Len(wire) : wire[i] = i

\* Outside start_tx the busy flag says exactly whether the endpoint holds a
\* transfer: a set flag always has a completion to come that will clear it,
\* and a clear flag never lets a second transfer overwrite the first.
BusyMatchesTransfer == ~Starting => busy = ep.on

\* The memory fd_ring_write_reserve hands out is what the commit will publish
\* and is free, although tail may move between the reads it is computed from.
GrantIsFree ==
    pc = "w_copy" =>
        /\ RingSize(head, tail) + wlen < Capacity
        /\ \A k \in 0 .. wlen - 1 : GrantSlot(head, wc1, k) = Advance(head, k)

\* Everything a write accepted reaches the host: the chain of completions and
\* the update of each main-loop round never leave bytes behind.
AllSent == \A k \in 1 .. MaxBytes : (written >= k) ~> (Len(wire) >= k)

\* The driver implements the byte channel.
Channel == INSTANCE ByteChannel
           WITH Limit <- Capacity - 1, accepted <- written, delivered <- wire
ImplementsChannel == Channel!ChanSpec

\* fd_usbxch.h: update "starts pending IN transfers if the bus is idle": when
\* the bus is configured, the endpoint idle and bytes are pending, a transfer
\* is started (or the bus goes away again, or the bytes do).
IdleBusStarts ==
    (configured /\ ~ep.on /\ head # tail) ~> (ep.on \/ ~configured \/ head = tail)
=============================================================================
