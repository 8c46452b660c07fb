------------------------------ MODULE UsbxchRx ------------------------------
(***************************************************************************)
(* The host-to-device half of the USB exchange driver: the XCH class glue  *)
(* (thirdparty/stm32/usbd/Class/XCH/Src/usbd_xch.c) arms the OUT endpoint  *)
(* with the free memory of the rx ring, the USB core stores packets there, *)
(* the completion interrupt commits them and arms again, and the main loop *)
(* drains the ring with fd_usbxch_read. Nothing else arms the endpoint: a  *)
(* transfer that finds the ring full is armed with no byte.                *)
(***************************************************************************)
EXTENDS FdRing, Sequences

CONSTANTS
    ReadMax,     \* length argument of fd_usbxch_read
    MaxPacket,   \* the endpoint's maximum packet size
    MaxBytes,    \* bound on the bytes the host sends in a behaviour
    HostFits     \* TRUE: the host never sends more than the armed size, an
                 \*   assumption: it is not told that size, and the USB core
                 \*   takes whole packets

ASSUME RxAssumption == /\ ReadMax \in Nat \ {0}
                       /\ MaxPacket \in 1 .. Capacity
                       /\ MaxBytes \in Nat
                       /\ HostFits \in BOOLEAN

VARIABLES
    head, tail,    \* h->rx
    buf,           \* h->rx_storage; slot value n is the n-th byte received
    arm,           \* the OUT endpoint: first slot, armed size (h->r1, h->c1),
                   \*   bytes received so far, transfer complete?
    pc,            \* what fd_usbxch_read does next
    rcount,        \* read_reserve: count
    rcmp, rc1,     \*   the compared head, cont1
    rtotal,        \* fd_usbxch_read: total
    received,      \* number of bytes the USB core took from the host
    committed,     \* number of bytes committed to the ring
    readOut        \* history: the bytes fd_usbxch_read returned

vars == <<head, tail, buf, arm, pc, rcount, rcmp, rc1, rtotal,
          received, committed, readOut>>
locals == <<rcount, rcmp, rc1, rtotal>>

PC == {"loop", "r_count", "r_compare", "r_grant", "r_copy", "r_commit"}

Least(a, b) == IF a <= b THEN a ELSE b

\* USBD_XCH_GetRxStorage and USBD_LL_PrepareReceive on a ring <<h, t>>
Armed(h, t) == [slot |-> h,
                size |-> FirstPart(WriteCont(h, t, t), RingFree(h, t)),
                got  |-> 0, done |-> FALSE]

\* What the USB core accepts for an armed size: whole packets, at least one.
Accepts(size) == IF size = 0 THEN MaxPacket
                 ELSE MaxPacket * ((size + MaxPacket - 1) \div MaxPacket)

RxInit ==   \* after fd_usbxch_init and USBD_XCH_Init
    /\ head = 0 /\ tail = 0 /\ buf = [i \in Index |-> 0]
    /\ arm = Armed(0, 0)
    /\ pc = "loop" /\ rcount = 0 /\ rcmp = 0 /\ rc1 = 0 /\ rtotal = 0
    /\ received = 0 /\ committed = 0 /\ readOut = << >>

-----------------------------------------------------------------------------
(* Host and USB interrupt.                                                 *)

\* A packet of n bytes arrives: it is stored at the transfer's buffer pointer
\* (what lies past the storage is not ring memory); a short packet or the last
\* one the core was armed for completes the transfer.
ReceivePacket(n) ==
    /\ ~arm.done /\ received + n <= MaxBytes
    /\ HostFits => arm.got + n <= arm.size
    /\ LET at == arm.slot + arm.got
       IN buf' = [i \in Index |-> IF i >= at /\ i < at + n
                                  THEN received + 1 + (i - at) ELSE buf[i]]
    /\ received' = received + n
    /\ arm' = [slot |-> arm.slot, size |-> arm.size, got |-> arm.got + n,
               done |-> (n < MaxPacket \/ arm.got + n = Accepts(arm.size))]
    /\ UNCHANGED <<head, tail, pc, locals, committed, readOut>>

\* mutant: the endpoint is armed before the received bytes are committed
MutDataOut ==
    /\ arm.done
    /\ head' = Advance(head, arm.got)
    /\ arm' = Armed(head, tail)
    /\ committed' = committed + arm.got
    /\ UNCHANGED <<tail, buf, pc, locals, received, readOut>>

\* USBD_XCH_DataOut: RxComplete commits, GetRxStorage and PrepareReceive re-arm.
DataOut ==
    /\ arm.done
    /\ head' = Advance(head, arm.got)
    /\ arm' = Armed(head', tail)
    /\ committed' = committed + arm.got
    /\ UNCHANGED <<tail, buf, pc, locals, received, readOut>>

Usb == DataOut \/ \E n \in 1 .. MaxPacket : ReceivePacket(n)

-----------------------------------------------------------------------------
(* fd_usbxch_read, called once per main-loop round.  read_reserve reads    *)
(* the volatile head up to four times; the interrupt may move it between.  *)

Stay == <<head, buf, arm, received, committed>>

MutReadStart == /\ pc = "loop" /\ RingSize(head, tail) > 1   \* mutant: off by one
                /\ pc' = "r_count"
                /\ UNCHANGED <<Stay, tail, locals, readOut>>

ReadStart == /\ pc = "loop" /\ RingSize(head, tail) # 0
             /\ pc' = "r_count"
             /\ UNCHANGED <<Stay, tail, locals, readOut>>

ReadCount == /\ pc = "r_count"
             /\ rcount' = RingSize(head, tail) /\ pc' = "r_compare"
             /\ UNCHANGED <<Stay, tail, rcmp, rc1, rtotal, readOut>>

ReadCompare == /\ pc = "r_compare"
               /\ rcmp' = head /\ pc' = "r_grant"
               /\ UNCHANGED <<Stay, tail, rcount, rc1, rtotal, readOut>>

ReadGrant == /\ pc = "r_grant"
             /\ rc1' = FirstPart(ReadCont(tail, rcmp, head), rcount)
             /\ pc' = "r_copy"
             /\ UNCHANGED <<Stay, tail, rcount, rcmp, rtotal, readOut>>

\* The two memcpys: what length and cont1 leave of the first region, then of
\* the second.
CopiedFirst == Least(Least(ReadMax, rcount), rc1)
CopiedSecond == IF CopiedFirst < ReadMax THEN Least(ReadMax - CopiedFirst, rcount - rc1)
                                         ELSE 0

ReadCopy ==
    /\ pc = "r_copy"
    /\ rtotal' = CopiedFirst + CopiedSecond
    /\ LET k == Len(readOut)
       IN readOut' = [i \in 1 .. k + rtotal' |->
                        IF i <= k THEN readOut[i]
                        ELSE buf[GrantSlot(tail, CopiedFirst, i - k - 1)]]
    /\ pc' = "r_commit"
    /\ UNCHANGED <<Stay, tail, rcount, rcmp, rc1>>

\* mutant: everything reserved is released, read or not
MutReadCommit == /\ pc = "r_commit"
                 /\ tail' = Advance(tail, rcount) /\ pc' = "loop"
                 /\ UNCHANGED <<Stay, locals, readOut>>

ReadCommit == /\ pc = "r_commit"
              /\ tail' = Advance(tail, rtotal) /\ pc' = "loop"
              /\ UNCHANGED <<Stay, locals, readOut>>

Read == \/ ReadStart \/ ReadCount \/ ReadCompare \/ ReadGrant
        \/ ReadCopy \/ ReadCommit

-----------------------------------------------------------------------------
RxNext == Usb \/ Read
RxSpec == RxInit /\ [][RxNext]_vars

\* The main loop keeps reading and interrupts are served; the host may stop.
FairRxSpec == RxSpec /\ WF_vars(Read) /\ WF_vars(DataOut)

-----------------------------------------------------------------------------
(* Properties.                                                             *)

\* Every variable has its type, as long as the host sends no more than the
\* endpoint was armed with: the reader takes no byte from outside the storage.
RxTypeOK ==
    /\ head \in Index /\ tail \in Index
    /\ buf \in [Index -> 0 .. MaxBytes]
    /\ arm \in [slot : Index, size : Index, got : 0 .. MaxBytes, done : BOOLEAN]
    /\ pc \in PC
    /\ rcount \in Index /\ rcmp \in Index /\ rc1 \in Index /\ rtotal \in Index
    /\ received \in 0 .. MaxBytes /\ committed \in 0 .. received
    /\ readOut \in Seq(0 .. MaxBytes)

\* fd_usbxch_read returns the received bytes in order, each once: the chunks it
\* computes from several reads of head are always committed data.
RxInOrder == Len(readOut) <= committed /\ \A i \in 1 .. Len(readOut) : readOut[i] = i

\* The memory the endpoint is armed with lies inside the storage and holds no
\* unread byte, at every moment until the transfer completes, although the
\* reader keeps moving tail meanwhile.
ArmedIsFree == /\ arm.slot = head
               /\ arm.slot + arm.size <= Capacity
               /\ arm.size <= RingFree(head, tail)
               /\ arm.got <= arm.size

\* Committed bytes are eventually read by the main loop.
AllRead == \A k \in 1 .. MaxBytes : (committed >= k) ~> (Len(readOut) >= k)

\* The receive path implements the byte channel.
Channel == INSTANCE ByteChannel
           WITH Limit <- Capacity - 1, accepted <- committed, delivered <- readOut
ImplementsChannel == Channel!ChanSpec
=============================================================================
