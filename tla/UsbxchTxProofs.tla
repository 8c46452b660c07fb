--------------------------- MODULE UsbxchTxProofs ---------------------------
(* Proofs about the device-to-host half of the USB exchange driver.        *)
EXTENDS UsbxchTx, FdRingProofs

-----------------------------------------------------------------------------
(* Type correctness, for every operation of the interface and every timing *)
(* of the interrupt.                                                       *)

Writing == pc \in {"w_compare", "w_grant", "w_copy", "w_commit"}

TypeInv == /\ TxTypeOK
           /\ Writing => written + wlen <= MaxBytes
           /\ pc \in {"w_copy", "w_commit"} => wc1 <= wlen

\* A sequence is a function, and a function on 1..n a sequence of length n.
LEMMA SeqIsFunction ==
    ASSUME NEW S, NEW s \in Seq(S)
    PROVE  Len(s) \in Nat /\ s \in [1 .. Len(s) -> S]
OBVIOUS

LEMMA FunctionIsSeq ==
    ASSUME NEW S, NEW n \in Nat, NEW f \in [1 .. n -> S]
    PROVE  f \in Seq(S) /\ Len(f) = n
OBVIOUS

\* The grant of read_reserve fits the endpoint.
LEMMA GrantFitsEp ==
    ASSUME NEW h \in Index, NEW t \in Index, RingSize(h, t) # 0,
           NEW c, c = FirstPart(ReadCont(t, h, h), RingSize(h, t))
    PROVE  /\ c \in Index \ {0}
           /\ EpArmed(t, c) \in [on : BOOLEAN, slot : 0 .. Capacity, left : Index]
           /\ t + c <= Capacity
<1>1. h # t
  BY RingSizeType
<1>2. c \in 1 .. RingSize(h, t) /\ t + c <= Capacity
  BY <1>1, ReadGrantBounds
<1>3. RingSize(h, t) \in Index
  BY RingSizeType
<1> QED BY <1>2, <1>3, CapacityAssumption DEF Index, EpArmed

\* The endpoint before and after a packet, and when it is off.
LEMMA PacketLeft ==
    ASSUME NEW s \in 0 .. Capacity, NEW l \in Index, s + l <= Capacity,
           NEW n \in Nat, n <= l
    PROVE  /\ s + n <= Capacity /\ (s + n) + (l - n) <= Capacity
           /\ EpArmed(s + n, l - n) \in
                 [on : BOOLEAN, slot : 0 .. Capacity, left : Index]
<1>1. s + n \in 0 .. Capacity /\ l - n \in Index
  BY CapacityAssumption DEF Index
<1> QED BY <1>1, CapacityAssumption DEF EpArmed, Index

LEMMA EpOffType == /\ EpOff \in [on : BOOLEAN, slot : 0 .. Capacity, left : Index]
                   /\ EpOff.slot + EpOff.left <= Capacity
BY CapacityAssumption DEF EpOff, Index

\* memcpy into a grant leaves bytes in the ring.
LEMMA CopyInType ==
    ASSUME NEW b \in [Index -> 0 .. MaxBytes], NEW first \in Index,
           NEW c \in Index, NEW n \in Index, NEW w \in 0 .. MaxBytes,
           w + n <= MaxBytes, c <= n
    PROVE  CopyIn(b, first, c, n, w + 1) \in [Index -> 0 .. MaxBytes]
<1> SUFFICES ASSUME NEW i \in Index
             PROVE  CopyIn(b, first, c, n, w + 1)[i] \in 0 .. MaxBytes
  BY DEF CopyIn
<1> QED BY TxAssumption, CapacityAssumption DEF CopyIn, Index

\* A packet appended to what the host received.
LEMMA PacketType ==
    ASSUME NEW w \in Seq(0 .. MaxBytes), NEW b \in [Index -> 0 .. MaxBytes],
           NEW s \in 0 .. Capacity, NEW n \in Nat, s + n <= Capacity
    PROVE  LET v == [i \in 1 .. Len(w) + n |->
                       IF i <= Len(w) THEN w[i] ELSE b[s + (i - Len(w) - 1)]]
           IN v \in Seq(0 .. MaxBytes) /\ Len(v) = Len(w) + n
<1> DEFINE v == [i \in 1 .. Len(w) + n |->
                   IF i <= Len(w) THEN w[i] ELSE b[s + (i - Len(w) - 1)]]
<1>1. Len(w) \in Nat /\ w \in [1 .. Len(w) -> 0 .. MaxBytes]
  BY SeqIsFunction
<1>2. ASSUME NEW i \in 1 .. Len(w) + n PROVE v[i] \in 0 .. MaxBytes
  <2>1. CASE i <= Len(w)
    BY <1>1, <2>1
  <2>2. CASE i > Len(w)
    <3>1. s + (i - Len(w) - 1) \in Index
      BY <1>1, <2>2, CapacityAssumption DEF Index
    <3> QED BY <1>1, <2>2, <3>1
  <2> QED BY <1>1, <2>1, <2>2
<1>3. v \in [1 .. Len(w) + n -> 0 .. MaxBytes]
  BY <1>2
<1>4. Len(w) + n \in Nat
  BY <1>1
<1> HIDE DEF v
<1>5. v \in Seq(0 .. MaxBytes) /\ Len(v) = Len(w) + n
  BY <1>3, <1>4, FunctionIsSeq
<1> QED BY <1>5 DEF v

\* A length up to an index is an index.
LEMMA NatsBelow ==
    ASSUME NEW n, NEW m \in Index, n \in 1 .. MaxWrite, n <= m
    PROVE  n \in Index
BY CapacityAssumption, TxAssumption DEF Index

\* An index advanced by another one is an index.
LEMMA AdvanceIndex ==
    ASSUME NEW i \in Index, NEW n \in Index
    PROVE  Advance(i, n) \in Index
<1>1. n \in 0 .. Capacity
  BY CapacityAssumption DEF Index
<1> QED BY <1>1, AdvanceType

LEMMA TypeInit == TxInit => TypeInv
<1> SUFFICES ASSUME TxInit PROVE TypeInv
  OBVIOUS
<1>1. 0 \in Index /\ 0 <= MaxBytes /\ 0 \in 0 .. Capacity
  BY CapacityAssumption, TxAssumption DEF Index
<1>2. buf \in [Index -> 0 .. MaxBytes]
  BY <1>1, TxAssumption DEF TxInit
<1>3. << >> \in Seq(0 .. MaxBytes)
  OBVIOUS
<1>4. TxTypeOK
  <2>1. EpOff \in [on : BOOLEAN, slot : 0 .. Capacity, left : Index] /\ EpOff.slot + EpOff.left <= Capacity
    BY <1>1, CapacityAssumption DEF EpOff
  <2>2. 0 \in 0 .. MaxBytes
    BY <1>1, TxAssumption
  <2> QED BY <1>1, <1>2, <1>3, <2>1, <2>2 DEF TxInit, TxTypeOK, PC
<1> QED BY <1>4 DEF TxInit, TypeInv, Writing

LEMMA TypeStep == TypeInv /\ [FullNext]_vars => TypeInv'
<1> SUFFICES ASSUME TypeInv, [FullNext]_vars PROVE TypeInv'
  OBVIOUS
<1> USE DEF TypeInv, TxTypeOK, Writing, PC, ring, locals
<1>0. RingSize(head, tail) \in Index /\ RingFree(head, tail) \in Index
  BY RingSizeType
<1>1. CASE Update
  BY <1>1 DEF Update
<1>2. CASE Flush
  BY <1>2 DEF Flush
<1>3. CASE AppDone
  BY <1>3 DEF AppDone
<1>4. ASSUME NEW n \in 1 .. MaxWrite, WriteStart(n) PROVE TypeInv'
  <2>1. n \in Index
    <3>1. n \in 1 .. MaxWrite /\ n <= RingFree(head, tail)
      BY <1>4 DEF WriteStart
    <3> QED BY <3>1, <1>0, NatsBelow, TxAssumption
  <2> QED BY <1>4, <2>1 DEF WriteStart
<1>5. CASE WriteCompare
  BY <1>5 DEF WriteCompare
<1>6. CASE WriteGrant
  <2>1. wc1' \in Index /\ wc1' <= wlen
    <3>1. wc1' \in 0 .. wlen
      BY <1>6, WriteContNat DEF WriteGrant
    <3> QED BY <3>1, CapacityAssumption, SMTT(30) DEF Index
  <2> QED BY <1>6, <2>1 DEF WriteGrant
<1>7. CASE WriteCopy
  <2>1. buf' \in [Index -> 0 .. MaxBytes]
    BY <1>7, CopyInType DEF WriteCopy
  <2> QED BY <1>7, <2>1 DEF WriteCopy
<1>8. CASE WriteCommit
  <2>1. head' \in Index
    <3>1. head' = Advance(head, wlen) /\ head \in Index /\ wlen \in Index
      BY <1>8 DEF WriteCommit
    <3> QED BY <3>1, AdvanceIndex
  <2>2. written' \in 0 .. MaxBytes
    BY <1>8, TxAssumption DEF WriteCommit, Index
  <2> QED BY <1>8, <2>1, <2>2 DEF WriteCommit
<1>9. CASE StartTransmit
  <2>1. CASE busy \/ RingSize(head, tail) = 0
    BY <1>9, <2>1 DEF StartTransmit
  <2>2. CASE ~(busy \/ RingSize(head, tail) = 0)
    <3>1. /\ kc1' = FirstPart(ReadCont(tail, head, head), RingSize(head, tail))
          /\ ep' = EpArmed(tail, kc1')
      BY <1>9, <2>2 DEF StartTransmit
    <3>2. /\ kc1' \in Index
          /\ ep' \in [on : BOOLEAN, slot : 0 .. Capacity, left : Index]
          /\ tail + kc1' <= Capacity
      BY <2>2, <3>1, GrantFitsEp
    <3>3. ep'.slot + ep'.left <= Capacity
      BY <3>1, <3>2 DEF EpArmed
    <3> QED BY <1>9, <2>2, <3>2, <3>3 DEF StartTransmit
  <2> QED BY <2>1, <2>2
<1>10. CASE StartRelease
  BY <1>10 DEF StartRelease
<1>11. CASE StartBusy
  BY <1>11 DEF StartBusy
<1>12. CASE SendPacket
  <2> DEFINE n == IF ep.left < MaxPacket THEN ep.left ELSE MaxPacket
  <2>1. /\ n \in Nat /\ n <= ep.left /\ ep.slot \in 0 .. Capacity
        /\ ep.left \in Index /\ ep.slot + ep.left <= Capacity
    BY TxAssumption, CapacityAssumption, SMTT(30) DEF Index
  <2>2. /\ wire' = [i \in 1 .. Len(wire) + n |->
                     IF i <= Len(wire) THEN wire[i]
                     ELSE buf[ep.slot + (i - Len(wire) - 1)]]
        /\ ep' = EpArmed(ep.slot + n, ep.left - n)
    BY <1>12 DEF SendPacket
  <2> HIDE DEF n
  <2>3. wire' \in Seq(0 .. MaxBytes)
    <3>1. ep.slot + n <= Capacity
      BY <2>1, PacketLeft
    <3>2. wire \in Seq(0 .. MaxBytes) /\ buf \in [Index -> 0 .. MaxBytes]
      OBVIOUS
    <3> QED BY <2>1, <2>2, <3>1, <3>2, PacketType
  <2>4. /\ ep' \in [on : BOOLEAN, slot : 0 .. Capacity, left : Index]
        /\ ep'.slot + ep'.left <= Capacity
    <3>1. ep'.slot = ep.slot + n /\ ep'.left = ep.left - n
      BY <2>2 DEF EpArmed
    <3> QED BY <2>1, <2>2, <3>1, PacketLeft
  <2> QED BY <1>12, <2>3, <2>4 DEF SendPacket
<1>13. CASE TxComplete
  <2>1. tail' \in Index
    <3>1. tail' = Advance(tail, toRelease) /\ tail \in Index /\ toRelease \in Index
      BY <1>13 DEF TxComplete
    <3> QED BY <3>1, AdvanceIndex
  <2>2. CASE RingSize(head, tail') = 0
    <3>1. ep' = EpOff /\ busy' = FALSE /\ toRelease' = toRelease
      BY <1>13, <2>2 DEF TxComplete, EndTransfer
    <3>2. /\ ep' \in [on : BOOLEAN, slot : 0 .. Capacity, left : Index]
          /\ ep'.slot + ep'.left <= Capacity
      BY <3>1, EpOffType
    <3> QED BY <1>13, <2>1, <3>1, <3>2 DEF TxComplete
  <2>3. CASE RingSize(head, tail') # 0
    <3>1. /\ toRelease' = FirstPart(ReadCont(tail', head, head), RingSize(head, tail'))
          /\ ep' = EpArmed(tail', toRelease') /\ busy' = busy
      BY <1>13, <2>3 DEF TxComplete, ChainTransfer
    <3>2. /\ toRelease' \in Index
          /\ ep' \in [on : BOOLEAN, slot : 0 .. Capacity, left : Index]
          /\ tail' + toRelease' <= Capacity
      BY <2>1, <2>3, <3>1, GrantFitsEp
    <3>3. ep'.slot + ep'.left <= Capacity
      BY <3>1, <3>2 DEF EpArmed
    <3> QED BY <1>13, <2>1, <3>1, <3>2, <3>3 DEF TxComplete
  <2> QED BY <2>2, <2>3
<1>14. CASE Clear
  <2>1. 0 \in Index
    BY CapacityAssumption DEF Index
  <2>2. CASE ClearTail
    BY <2>1, <2>2 DEF ClearTail
  <2>3. CASE ClearHead
    BY <2>1, <2>3 DEF ClearHead
  <2> QED BY <1>14, <2>2, <2>3 DEF Clear
<1>15. CASE BusReset
  BY <1>15, EpOffType DEF BusReset
<1>16. CASE SetConfig
  BY <1>16 DEF SetConfig
<1>17. CASE UNCHANGED vars
  BY <1>17 DEF vars
<1> QED BY <1>1, <1>2, <1>3, <1>4, <1>5, <1>6, <1>7, <1>8, <1>9, <1>10, <1>11,
           <1>12, <1>13, <1>14, <1>15, <1>16, <1>17
        DEF FullNext, TxNext, Thread, Bus

\* Whatever sequence of writes, flushes, clears, bus resets and completions
\* happens, and however the completions fall between the driver's stores, the
\* indices stay inside the tx ring and no transfer leaves its storage.
THEOREM TxTypeCorrect == FullSpec => []TxTypeOK
<1>1. TypeInv => TxTypeOK
  BY DEF TypeInv
<1> QED BY <1>1, TypeInit, TypeStep, PTL DEF FullSpec

-----------------------------------------------------------------------------
(* What the memcpy of a write does to the ring's memory.                   *)

Shape(h, c, n) == (c = n /\ h + n <= Capacity) \/ (c < n /\ c = Capacity - h)

\* The bytes written are found where the commit will publish them.
LEMMA CopyInWrites ==
    ASSUME NEW b, NEW h \in Index, NEW c \in Index, NEW n \in Index,
           Shape(h, c, n), NEW from \in Nat, NEW k \in 0 .. n - 1
    PROVE  CopyIn(b, h, c, n, from)[Advance(h, k)] = from + k
<1>1. Advance(h, k) \in Index
  <2>1. k \in 0 .. Capacity
    BY CapacityAssumption DEF Index
  <2> QED BY <2>1, AdvanceType
<1>2. CASE h + k < Capacity
  <2>1. Advance(h, k) = h + k /\ ~(h + k < n - c) /\ h + k < h + c
    BY <1>2, CapacityAssumption DEF Advance, Index, Shape
  <2> QED BY <1>1, <2>1, CapacityAssumption DEF CopyIn, Index
<1>3. CASE h + k >= Capacity
  <2>1. Advance(h, k) = h + k - Capacity /\ c = Capacity - h /\ c < n
    BY <1>3, CapacityAssumption DEF Advance, Index, Shape
  <2> QED BY <1>1, <1>3, <2>1, CapacityAssumption DEF CopyIn, Index
<1> QED BY <1>2, <1>3, CapacityAssumption DEF Index

\* Every other slot keeps its byte.
LEMMA CopyInKeeps ==
    ASSUME NEW b, NEW h \in Index, NEW c \in Index, NEW n \in Index,
           Shape(h, c, n), NEW from \in Nat, NEW i \in Index,
           \A k \in 0 .. n - 1 : Advance(h, k) # i
    PROVE  CopyIn(b, h, c, n, from)[i] = b[i]
<1>1. ~(i < n - c)
  <2> SUFFICES ASSUME i < n - c PROVE FALSE
    OBVIOUS
  <2>1. c = Capacity - h /\ c + i \in 0 .. n - 1
    BY CapacityAssumption DEF Index, Shape
  <2>2. Advance(h, c + i) = i
    BY <2>1, CapacityAssumption DEF Advance, Index
  <2> QED BY <2>1, <2>2
<1>2. ~(i >= h /\ i < h + c)
  <2> SUFFICES ASSUME i >= h, i < h + c PROVE FALSE
    OBVIOUS
  <2>1. i - h \in 0 .. n - 1
    BY CapacityAssumption DEF Index, Shape
  <2>2. Advance(h, i - h) = i
    BY <2>1, CapacityAssumption DEF Advance, Index
  <2> QED BY <2>1, <2>2
<1> QED BY <1>1, <1>2 DEF CopyIn

\* A slot the writer may fill is no slot that holds pending bytes.
LEMMA FreeIsNotPending ==
    ASSUME NEW h \in Index, NEW t \in Index,
           NEW k \in 0 .. RingSize(h, t) - 1, NEW j \in 0 .. RingFree(h, t) - 1
    PROVE  Advance(h, j) # Advance(t, k)
<1>1. /\ RingSize(h, t) \in Nat /\ RingFree(h, t) \in Nat
      /\ RingSize(h, t) + RingFree(h, t) = Capacity - 1
  BY RingSizeType, CapacityAssumption DEF Index
<1>2. RingSize(h, t) + j \in Index /\ k \in Index /\ RingSize(h, t) + j # k
  BY <1>1, CapacityAssumption DEF Index
<1>3. Advance(h, j) = Advance(t, RingSize(h, t) + j)
  BY <1>1, HeadFromTail, AdvanceTwice, CapacityAssumption
<1> QED BY <1>2, <1>3, AdvanceInjective

-----------------------------------------------------------------------------
(* The inductive invariant of the steady state when no transfer completes  *)
(* before start_tx returns.                                                *)

Pending == RingSize(head, tail)

\* Length of the transfer the endpoint holds.
Flight == IF pc = "k_release" THEN kc1 ELSE toRelease

\* The flag, the release count and the endpoint agree.
InvFlag == /\ ~Starting => busy = ep.on
           /\ Starting => ep.on /\ ~busy
           /\ pc = "k_busy" => toRelease = kc1

\* A transfer of f bytes from slot t, of which left remain from slot s on, when
\* p of the w bytes written are pending and the host has received r.
Part(s, left, r, t, f, p, w) ==
    /\ f \in 1 .. p /\ left <= f
    /\ s = t + (f - left) /\ t + f <= Capacity
    /\ r = w - p + (f - left)

\* A transfer covers the oldest pending bytes; what the host has received is
\* everything released plus what the transfer has already sent.
InvFlight ==
    /\ ep.on => Part(ep.slot, ep.left, Len(wire), tail, Flight, Pending, written)
    /\ ~ep.on => Len(wire) = written - Pending

\* The used slots hold the last Pending bytes written, in order.
InvData == \A k \in 0 .. Pending - 1 :
              buf[Advance(tail, k)] = written - Pending + 1 + k

\* What a write in progress may rely on.
InvWrite ==
    /\ Writing => wlen \in 1 .. RingFree(head, tail)
    /\ pc = "w_grant" => (head < wcmp => head + wlen < wcmp)
    /\ pc = "w_copy" => Shape(head, wc1, wlen)
    /\ pc = "w_commit" => \A k \in 0 .. wlen - 1 :
                             buf[Advance(head, k)] = written + 1 + k

InvWire == \A i \in 1 .. Len(wire) : wire[i] = i

InvPC == pc # "c_head" /\ configured

TxInv == /\ TypeInv /\ InvPC
         /\ InvFlag /\ InvFlight /\ InvData /\ InvWrite /\ InvWire

-----------------------------------------------------------------------------
\* The types as numbers, for arithmetic.
LEMMA TypeFacts ==
    ASSUME TypeInv
    PROVE  /\ head \in Index /\ tail \in Index /\ toRelease \in Index
           /\ wlen \in Index /\ wcmp \in Index /\ wc1 \in Index /\ kc1 \in Index
           /\ ep.slot \in Nat /\ ep.left \in Nat /\ ep.on \in BOOLEAN
           /\ written \in Nat /\ busy \in BOOLEAN
           /\ wire \in Seq(0 .. MaxBytes) /\ Len(wire) \in Nat
           /\ buf \in [Index -> 0 .. MaxBytes]
           /\ Pending \in Nat /\ RingFree(head, tail) \in Nat
           /\ Pending + RingFree(head, tail) = Capacity - 1
           /\ Capacity \in Nat
           /\ head \in Nat /\ tail \in Nat /\ toRelease \in Nat
           /\ wlen \in Nat /\ kc1 \in Nat
           /\ head < Capacity /\ tail < Capacity /\ wlen < Capacity
<1>1. /\ Pending \in Index /\ RingFree(head, tail) \in Index
      /\ Pending + RingFree(head, tail) = Capacity - 1
  BY RingSizeType DEF TypeInv, TxTypeOK, Pending
<1>2. Len(wire) \in Nat
  BY SeqIsFunction DEF TypeInv, TxTypeOK
<1>3. Capacity \in Nat /\ \A i \in Index : i \in Nat /\ i < Capacity
  BY CapacityAssumption DEF Index
<1>4. ep.slot \in Nat /\ ep.left \in Nat /\ ep.on \in BOOLEAN /\ written \in Nat
  BY <1>3, TxAssumption DEF TypeInv, TxTypeOK
<1>5. /\ head \in Nat /\ tail \in Nat /\ toRelease \in Nat
      /\ wlen \in Nat /\ kc1 \in Nat
      /\ head < Capacity /\ tail < Capacity /\ wlen < Capacity
      /\ Pending \in Nat /\ RingFree(head, tail) \in Nat
  BY <1>1, <1>3 DEF TypeInv, TxTypeOK
<1> QED BY <1>1, <1>2, <1>3, <1>4, <1>5 DEF TypeInv, TxTypeOK

\* A transfer that has sent nothing.
LEMMA NewPart ==
    ASSUME NEW t \in Nat, NEW p \in Nat, NEW w \in Nat, NEW f \in 1 .. p,
           NEW r, r = w - p, t + f <= Capacity
    PROVE  Part(t, f, r, t, f, p, w)
BY DEF Part

\* A transfer that has sent n more bytes.
LEMMA NextPart ==
    ASSUME NEW s \in Nat, NEW l \in Nat, NEW r \in Nat, NEW t \in Nat, NEW f,
           NEW p \in Nat, NEW w \in Nat, Part(s, l, r, t, f, p, w),
           NEW n \in Nat, n <= l
    PROVE  /\ Part(s + n, l - n, r + n, t, f, p, w)
           /\ s \in 0 .. Capacity /\ s + n <= Capacity
<1>1. PICK g \in Nat : g = f
  BY DEF Part
<1> QED BY <1>1, CapacityAssumption DEF Part

\* Slot x holds a pending byte, and its number is y.
HoldsPending(x, y, t, p, w) ==
    \E d \in 0 .. p - 1 : Advance(t, d) = x /\ w - p + 1 + d = y

\* The k-th byte a transfer has yet to send is a pending one: the byte that
\* follows those the host has.
LEMMA NextByte ==
    ASSUME NEW s \in Nat, NEW l \in Nat, NEW r \in Nat, NEW t \in Nat, NEW f,
           NEW p \in Nat, NEW w \in Nat, Part(s, l, r, t, f, p, w),
           NEW k \in Nat, k < l
    PROVE  HoldsPending(s + k, r + 1 + k, t, p, w)
<1>1. PICK d \in Int : d = (f - l) + k
  BY DEF Part
<1>2. d \in 0 .. p - 1 /\ t + d < Capacity /\ t + d = s + k
      /\ w - p + 1 + d = r + 1 + k
  BY <1>1, CapacityAssumption DEF Part
<1>3. Advance(t, d) = t + d
  BY <1>2, CapacityAssumption DEF Advance
<1> QED BY <1>2, <1>3 DEF HoldsPending

LEMMA InvInit == TxInit => TxInv
<1> SUFFICES ASSUME TxInit PROVE TxInv
  OBVIOUS
<1>1. 0 \in Index
  BY CapacityAssumption DEF Index
<1>2. Pending = 0
  BY <1>1, RingSizeType DEF TxInit, Pending
<1>3. Len(wire) = 0
  BY DEF TxInit
<1>4. InvPC /\ InvFlag /\ InvWrite
  BY DEF TxInit, InvPC, InvFlag, InvWrite, Starting, Writing, EpOff
<1>5. InvFlight
  BY <1>2, <1>3 DEF TxInit, InvFlight, EpOff
<1>6. InvData /\ InvWire
  BY <1>2, <1>3 DEF InvData, InvWire
<1> QED BY <1>4, <1>5, <1>6, TypeInit DEF TxInv

\* Steps of the thread that only move its program counter or its locals.
LEMMA InvLocalStep ==
    ASSUME TxInv, TypeInv',
           Update \/ Flush \/ AppDone \/ (\E n \in 1 .. MaxWrite : WriteStart(n))
             \/ WriteCompare \/ WriteGrant \/ StartRelease \/ StartBusy
    PROVE  TxInv'
<1> USE DEF TxInv, ring, locals
<1>0. Pending' = Pending /\ RingFree(head, tail)' = RingFree(head, tail)
      /\ head' = head /\ tail' = tail /\ buf' = buf
      /\ written' = written /\ wire' = wire /\ ep' = ep
  BY DEF Update, Flush, AppDone, WriteStart, WriteCompare, WriteGrant,
         StartRelease, StartBusy, Pending
<1>1. InvData' /\ InvWire'
  BY <1>0 DEF InvData, InvWire
<1>2. CASE Update
  BY <1>0, <1>1, <1>2 DEF Update, InvPC, InvFlag, InvFlight, InvWrite, Flight, Starting, Writing
<1>3. CASE Flush
  BY <1>0, <1>1, <1>3 DEF Flush, InvPC, InvFlag, InvFlight, InvWrite, Flight, Starting, Writing
<1>4. CASE AppDone
  BY <1>0, <1>1, <1>4 DEF AppDone, InvPC, InvFlag, InvFlight, InvWrite, Flight, Starting, Writing
<1>5. ASSUME NEW n \in 1 .. MaxWrite, WriteStart(n) PROVE TxInv'
  <2>1. wlen' \in 1 .. RingFree(head, tail)
    BY <1>5, TypeFacts, TxAssumption DEF WriteStart
  <2> QED BY <1>0, <1>1, <1>5, <2>1
          DEF WriteStart, InvPC, InvFlag, InvFlight, InvWrite, Flight, Starting, Writing
<1>6. CASE WriteCompare
  <2>1. head < tail => head + wlen < tail
    BY <1>6, TypeFacts, FitsBelowTail DEF WriteCompare, InvWrite, Writing
  <2> QED BY <1>0, <1>1, <1>6, <2>1
          DEF WriteCompare, InvPC, InvFlag, InvFlight, InvWrite, Flight, Starting, Writing
<1>7. CASE WriteGrant
  <2>1. wlen \in 1 .. RingFree(head, tail) /\ (head < wcmp => head + wlen < wcmp)
    BY <1>7 DEF WriteGrant, InvWrite, Writing
  <2>2. Shape(head, wc1', wlen)
    <3>1. head \in Index /\ tail \in Index /\ wcmp \in Index
      BY TypeFacts
    <3>2. wc1' = FirstPart(WriteCont(head, wcmp, tail), wlen)
      BY <1>7 DEF WriteGrant
    <3> QED BY <2>1, <3>1, <3>2, WriteGrantShape DEF Shape
  <2> QED BY <1>0, <1>1, <1>7, <2>1, <2>2
          DEF WriteGrant, InvPC, InvFlag, InvFlight, InvWrite, Flight, Starting, Writing
<1>8. CASE StartRelease
  BY <1>0, <1>1, <1>8
     DEF StartRelease, InvPC, InvFlag, InvFlight, InvWrite, Flight, Starting, Writing
<1>9. CASE StartBusy
  BY <1>0, <1>1, <1>9
     DEF StartBusy, InvPC, InvFlag, InvFlight, InvWrite, Flight, Starting, Writing
<1> QED BY <1>2, <1>3, <1>4, <1>5, <1>6, <1>7, <1>8, <1>9

\* The memcpy of a write fills free slots only, so no pending byte changes.
LEMMA InvWriteCopy ==
    ASSUME TxInv, TypeInv', WriteCopy
    PROVE  TxInv'
<1> USE DEF TxInv, ring, locals
<1>0. Pending' = Pending /\ RingFree(head, tail)' = RingFree(head, tail)
      /\ head' = head /\ tail' = tail /\ written' = written
      /\ wire' = wire /\ ep' = ep
  BY DEF WriteCopy, Pending
<1>1. /\ wlen \in 1 .. RingFree(head, tail) /\ Shape(head, wc1, wlen)
      /\ buf' = CopyIn(buf, head, wc1, wlen, written + 1)
  BY DEF WriteCopy, InvWrite, Writing
<1>2. /\ head \in Index /\ tail \in Index /\ wc1 \in Index /\ wlen \in Index
      /\ written \in Nat /\ Pending \in Nat /\ Capacity \in Nat
      /\ RingFree(head, tail) \in Nat /\ wlen \in Nat
      /\ Pending + RingFree(head, tail) = Capacity - 1
  BY TypeFacts
<1>2a. written + 1 \in Nat
  BY <1>2
<1>3. ASSUME NEW k \in 0 .. Pending - 1
      PROVE  buf'[Advance(tail, k)] = buf[Advance(tail, k)]
  <2>1. Advance(tail, k) \in Index
    <3>1. k \in 0 .. Capacity
      BY <1>2
    <3> QED BY <1>2, <3>1, AdvanceType
  <2>2. ASSUME NEW j \in 0 .. wlen - 1 PROVE Advance(head, j) # Advance(tail, k)
    <3>1. j \in 0 .. RingFree(head, tail) - 1
      BY <1>1, <1>2
    <3>2. k \in 0 .. RingSize(head, tail) - 1
      BY DEF Pending
    <3> QED BY <1>2, <3>1, <3>2, FreeIsNotPending
  <2>3. CopyIn(buf, head, wc1, wlen, written + 1)[Advance(tail, k)]
          = buf[Advance(tail, k)]
    <3> HIDE DEF TxInv, ring, locals
    <3>1. \A from \in Nat, i \in Index :
             (\A j \in 0 .. wlen - 1 : Advance(head, j) # i)
                => CopyIn(buf, head, wc1, wlen, from)[i] = buf[i]
      BY <1>1, <1>2, CopyInKeeps
    <3> QED BY <1>2a, <2>1, <2>2, <3>1
  <2> QED BY <1>1, <2>3
<1>4. InvData'
  BY <1>0, <1>3 DEF InvData
<1>5. \A k \in 0 .. wlen - 1 : buf'[Advance(head, k)] = written + 1 + k
  BY <1>1, <1>2, <1>2a, CopyInWrites
<1>6. InvWrite'
  BY <1>0, <1>1, <1>5 DEF InvWrite, Writing, WriteCopy
<1> QED BY <1>0, <1>4, <1>6
        DEF WriteCopy, InvPC, InvFlag, InvFlight, InvWire, Flight, Starting

\* The commit publishes the bytes just copied after those already pending.
LEMMA InvWriteCommit ==
    ASSUME TxInv, TypeInv', WriteCommit
    PROVE  TxInv'
<1> USE DEF TxInv, ring, locals
<1>1. /\ wlen \in 1 .. RingFree(head, tail)
      /\ \A k \in 0 .. wlen - 1 : buf[Advance(head, k)] = written + 1 + k
      /\ head' = Advance(head, wlen) /\ written' = written + wlen
      /\ tail' = tail /\ buf' = buf /\ ep' = ep
      /\ wire' = wire
  BY DEF WriteCommit, InvWrite, Writing
<1>2. /\ head \in Index /\ tail \in Index /\ wlen \in Index
      /\ written \in Nat /\ Pending \in Nat /\ wlen \in Nat
      /\ Pending + RingFree(head, tail) = Capacity - 1 /\ Capacity \in Nat
      /\ RingFree(head, tail) \in Nat
  BY TypeFacts
<1>3. Pending' = Pending + wlen
  <2>1. wlen \in 0 .. RingFree(head, tail)
    BY <1>1, <1>2
  <2> QED BY <1>1, <1>2, <2>1, WriteCommitSize DEF Pending
<1>4. written' - Pending' = written - Pending
  BY <1>1, <1>2, <1>3
<1>5. ASSUME NEW k \in 0 .. Pending' - 1
      PROVE  buf[Advance(tail, k)] = written - Pending + 1 + k
  <2>1. CASE k < Pending
    BY <1>2, <1>3, <2>1 DEF InvData
  <2>2. CASE k >= Pending
    <3>1. k - Pending \in 0 .. wlen - 1 /\ k - Pending \in Nat
      BY <1>2, <1>3, <2>2
    <3>2. Pending + (k - Pending) = k /\ k <= Capacity
      BY <1>1, <1>2, <1>3
    <3>3. Advance(Advance(tail, Pending), k - Pending) = Advance(tail, k)
      BY <1>2, <3>1, <3>2, AdvanceTwice
    <3>4. Advance(tail, Pending) = head
      BY <1>2, HeadFromTail DEF Pending
    <3>5. buf[Advance(tail, k)] = written + 1 + (k - Pending)
      BY <1>1, <3>1, <3>3, <3>4
    <3> QED BY <1>2, <3>5
  <2> QED BY <1>2, <1>3, <2>1, <2>2
<1>6. InvData'
  BY <1>1, <1>4, <1>5 DEF InvData
<1>7. InvFlight'
  <2>1. Flight' = Flight
    BY DEF Flight, WriteCommit
  <2>2. ASSUME NEW f \in 1 .. Pending PROVE f \in 1 .. Pending'
    BY <1>2, <1>3
  <2> QED BY <1>1, <1>4, <2>1, <2>2 DEF InvFlight, Part
<1> QED BY <1>1, <1>6, <1>7
        DEF WriteCommit, InvPC, InvFlag, InvWrite, InvWire, Starting, Writing

\* A transfer is started on the oldest pending bytes while none is in flight.
LEMMA InvStartTransmit ==
    ASSUME TxInv, TypeInv', StartTransmit
    PROVE  TxInv'
<1> USE DEF TxInv, ring, locals
<1>0. Pending' = Pending
      /\ head' = head /\ tail' = tail /\ buf' = buf
      /\ written' = written /\ wire' = wire /\ busy' = busy
  BY DEF StartTransmit, Pending
<1>1. InvData' /\ InvWire' /\ InvPC' /\ InvWrite'
  BY <1>0 DEF InvData, InvWire, InvPC, InvWrite, Writing, StartTransmit
<1>2. CASE busy \/ RingSize(head, tail) = 0
  BY <1>0, <1>1, <1>2 DEF StartTransmit, InvFlag, InvFlight, Flight, Starting
<1>3. CASE ~(busy \/ RingSize(head, tail) = 0)
  <2>1. /\ kc1' = FirstPart(ReadCont(tail, head, head), RingSize(head, tail))
        /\ ep' = EpArmed(tail, kc1') /\ pc' = "k_release"
    BY <1>3 DEF StartTransmit
  <2>2. head \in Index /\ tail \in Index /\ Pending \in Nat /\ written \in Nat
    BY TypeFacts
  <2>3. head # tail
    BY <1>3, <2>2, RingSizeType
  <2>4. kc1' \in 1 .. Pending /\ tail + kc1' <= Capacity
    BY <2>1, <2>2, <2>3, ReadGrantBounds DEF Pending
  <2>5. ~ep.on /\ Len(wire) = written - Pending
    BY <1>3 DEF InvFlag, InvFlight, Starting, StartTransmit
  <2>6. ep'.on /\ ep'.slot = tail /\ ep'.left = kc1' /\ Flight' = kc1'
    BY <2>1 DEF EpArmed, Flight
  <2>7. InvFlight'
    <3>1. tail \in Nat
      BY TypeFacts
    <3>2. Part(tail, kc1', Len(wire), tail, kc1', Pending, written)
      BY <2>2, <2>4, <2>5, <3>1, NewPart
    <3> QED BY <1>0, <2>6, <3>2 DEF InvFlight
  <2>8. InvFlag'
    BY <1>0, <1>3, <2>1, <2>6 DEF InvFlag, Starting
  <2> QED BY <1>1, <2>7, <2>8
<1> QED BY <1>2, <1>3

\* A packet sends the next bytes of the transfer, which are the next in order.
LEMMA InvSendPacket ==
    ASSUME TxInv, TypeInv', SendPacket
    PROVE  TxInv'
<1> DEFINE n == IF ep.left < MaxPacket THEN ep.left ELSE MaxPacket
<1>0. Pending' = Pending /\ Flight' = Flight
      /\ head' = head /\ tail' = tail /\ buf' = buf
      /\ written' = written /\ busy' = busy /\ pc' = pc
      /\ toRelease' = toRelease /\ kc1' = kc1
      /\ wlen' = wlen /\ wcmp' = wcmp /\ wc1' = wc1 /\ configured' = configured
  BY DEF SendPacket, Pending, Flight, ring, locals
<1>1. /\ ep.on /\ wire' = [i \in 1 .. Len(wire) + n |->
                     IF i <= Len(wire) THEN wire[i]
                     ELSE buf[ep.slot + (i - Len(wire) - 1)]]
      /\ ep' = EpArmed(ep.slot + n, ep.left - n)
  BY DEF SendPacket
<1>2. /\ tail \in Nat /\ Pending \in Nat /\ written \in Nat
      /\ ep.slot \in Nat /\ ep.left \in Nat /\ Len(wire) \in Nat
      /\ Capacity \in Nat
  BY TypeFacts DEF TxInv
<1>2a. wire \in Seq(0 .. MaxBytes) /\ buf \in [Index -> 0 .. MaxBytes]
  BY TypeFacts DEF TxInv
<1>3. Part(ep.slot, ep.left, Len(wire), tail, Flight, Pending, written)
  BY <1>1 DEF InvFlight, TxInv
<1>4. n \in Nat /\ n <= ep.left
  BY <1>2, TxAssumption
<1> HIDE DEF n
<1>4a. /\ Part(ep.slot + n, ep.left - n, Len(wire) + n, tail, Flight, Pending, written)
       /\ ep.slot \in 0 .. Capacity /\ ep.slot + n <= Capacity
  BY <1>2, <1>3, <1>4, NextPart
<1>5. Len(wire') = Len(wire) + n
  BY <1>1, <1>2a, <1>4, <1>4a, PacketType
<1>6. ASSUME NEW i \in 1 .. Len(wire) + n PROVE wire'[i] = i
  <2>1. CASE i <= Len(wire)
    BY <1>1, <1>2, <2>1 DEF InvWire, TxInv
  <2>2. CASE i > Len(wire)
    <3>1. PICK k \in 0 .. ep.left - 1 : k = i - Len(wire) - 1
      <4>1. i \in Nat /\ i <= Len(wire) + n
        BY <1>2, <1>4
      <4>2. i - Len(wire) - 1 \in 0 .. ep.left - 1
        BY <1>2, <1>4, <2>2, <4>1
      <4> QED BY <4>2
    <3>2. PICK d \in 0 .. Pending - 1 :
             /\ Advance(tail, d) = ep.slot + k
             /\ written - Pending + 1 + d = Len(wire) + 1 + k
      <4>1. k \in Nat /\ k < ep.left
        BY <1>2
      <4>2. HoldsPending(ep.slot + k, Len(wire) + 1 + k, tail, Pending, written)
        BY <1>2, <1>3, <4>1, NextByte
      <4> QED BY <4>2 DEF HoldsPending
    <3>3. buf[Advance(tail, d)] = written - Pending + 1 + d
      BY DEF InvData, TxInv
    <3>4. wire'[i] = buf[ep.slot + k]
      BY <1>1, <1>2, <2>2, <3>1
    <3>5. Len(wire) + 1 + k = i
      BY <1>2, <1>4, <3>1
    <3> QED BY <3>2, <3>3, <3>4, <3>5
  <2> QED BY <1>2, <1>4, <2>1, <2>2
<1>7. InvWire'
  BY <1>5, <1>6 DEF InvWire
<1>8. InvFlight'
  <2>1. ep'.on /\ ep'.slot = ep.slot + n /\ ep'.left = ep.left - n
    BY <1>1 DEF EpArmed
  <2> QED BY <1>0, <1>4a, <1>5, <2>1 DEF InvFlight
<1>9. InvFlag'
  <2>1. ep'.on
    BY <1>1 DEF EpArmed
  <2> QED BY <1>0, <1>1, <2>1 DEF InvFlag, Starting, TxInv
<1>10. InvData' /\ InvPC' /\ InvWrite'
  BY <1>0 DEF InvData, InvPC, InvWrite, Writing, TxInv
<1> QED BY <1>7, <1>8, <1>9, <1>10 DEF TxInv

\* A completion releases exactly the bytes the host has received, and chains a
\* transfer on what remains.
LEMMA InvTxComplete ==
    ASSUME SlowBus, TxInv, TypeInv', TxComplete
    PROVE  TxInv'
<1> USE DEF TxInv, ring, locals
<1>0. /\ head' = head /\ buf' = buf /\ written' = written
 /\ wire' = wire /\ pc' = pc /\ wlen' = wlen
 /\ wc1' = wc1 /\ wcmp' = wcmp
      /\ tail' = Advance(tail, toRelease) /\ ~Starting /\ ep.on /\ ep.left = 0
      /\ configured' = configured
  BY DEF TxComplete
<1>1. /\ head \in Index /\ tail \in Index /\ tail' \in Index
      /\ Pending \in Nat /\ written \in Nat /\ toRelease \in Nat
      /\ RingFree(head, tail) \in Nat /\ RingFree(head, tail)' \in Nat
      /\ Pending + RingFree(head, tail) = Capacity - 1 /\ Capacity \in Nat
      /\ Pending' \in Nat /\ Pending' + RingFree(head, tail)' = Capacity - 1
  <2>1. head' \in Index /\ tail' \in Index
    BY DEF TypeInv, TxTypeOK
  <2>2. /\ RingSize(head', tail') \in Index /\ RingFree(head', tail') \in Index
        /\ RingSize(head', tail') + RingFree(head', tail') = Capacity - 1
    BY <2>1, RingSizeType
  <2>3. /\ Pending' \in Index /\ RingFree(head, tail)' \in Index
        /\ Pending' + RingFree(head, tail)' = Capacity - 1
    BY <2>2 DEF Pending
  <2>4. Pending' \in Nat /\ RingFree(head, tail)' \in Nat
    BY <2>3, CapacityAssumption DEF Index
  <2> QED BY <2>1, <2>3, <2>4, TypeFacts
<1>2. Flight = toRelease /\ Flight' = toRelease'
  BY <1>0 DEF Flight, Starting
<1>3. toRelease \in 1 .. Pending /\ Len(wire) = written - Pending + toRelease
  <2>1. Part(ep.slot, 0, Len(wire), tail, toRelease, Pending, written)
    BY <1>0, <1>2 DEF InvFlight
  <2> QED BY <1>1, <2>1 DEF Part
<1>4. Pending' = Pending - toRelease
  <2>1. toRelease \in 0 .. RingSize(head, tail)
    BY <1>1, <1>3 DEF Pending
  <2> QED BY <1>0, <1>1, <2>1, ReadCommitSize DEF Pending
<1>5. Len(wire) = written - Pending'
  BY <1>1, <1>3, <1>4
<1>6. ASSUME NEW k \in 0 .. Pending' - 1
      PROVE  buf[Advance(tail', k)] = written - Pending' + 1 + k
  <2>1. toRelease + k \in 0 .. Pending - 1 /\ toRelease + k <= Capacity /\ k \in Nat
    BY <1>1, <1>3, <1>4
  <2>2. Advance(tail', k) = Advance(tail, toRelease + k)
    BY <1>0, <1>1, <2>1, AdvanceTwice
  <2>3. buf[Advance(tail, toRelease + k)] = written - Pending + 1 + (toRelease + k)
    BY <2>1 DEF InvData
  <2> QED BY <1>1, <1>4, <2>2, <2>3
<1>7. InvData'
  BY <1>0, <1>6 DEF InvData
<1>8. InvWrite' /\ InvPC' /\ InvWire'
  BY <1>0, <1>1, <1>3, <1>4 DEF InvWrite, InvPC, InvWire, Writing
<1>9. CASE RingSize(head, tail') = 0
  <2>1. busy' = FALSE /\ ep'.on = FALSE
    BY <1>9 DEF TxComplete, EndTransfer, EpOff
  <2> QED BY <1>0, <1>5, <1>7, <1>8, <2>1 DEF InvFlag, InvFlight, Starting
<1>10. CASE RingSize(head, tail') # 0
  <2>1. /\ toRelease' = FirstPart(ReadCont(tail', head, head), RingSize(head, tail'))
        /\ ep' = EpArmed(tail', toRelease') /\ busy' = busy
    BY <1>10 DEF TxComplete, ChainTransfer
  <2>2. head # tail'
    BY <1>1, <1>10, RingSizeType
  <2>3. toRelease' \in 1 .. Pending' /\ tail' + toRelease' <= Capacity
    BY <1>0, <1>1, <2>1, <2>2, ReadGrantBounds DEF Pending
  <2>4. ep'.on /\ ep'.slot = tail' /\ ep'.left = toRelease'
    BY <2>1 DEF EpArmed
  <2>5. InvFlag'
    BY <1>0, <2>1, <2>4 DEF InvFlag, Starting
  <2>6. InvFlight'
    <3>1. tail' \in Nat
      BY <1>1, CapacityAssumption DEF Index
    <3>2. Part(tail', toRelease', Len(wire), tail', toRelease', Pending', written)
      BY <1>1, <1>5, <2>3, <3>1, NewPart
    <3> QED BY <1>0, <1>2, <2>4, <3>2 DEF InvFlight
  <2> QED BY <1>7, <1>8, <2>5, <2>6
<1> QED BY <1>9, <1>10

LEMMA InvStep == SlowBus => (TxInv /\ [TxNext]_vars => TxInv')
<1> SUFFICES ASSUME SlowBus, TxInv, [TxNext]_vars PROVE TxInv'
  OBVIOUS
<1>1. TypeInv'
  BY TypeStep DEF TxInv, FullNext
<1>2. CASE Thread
  BY <1>1, <1>2, InvLocalStep, InvWriteCopy, InvWriteCommit, InvStartTransmit
     DEF Thread
<1>3. CASE Bus
  BY <1>1, <1>3, InvSendPacket, InvTxComplete DEF Bus
<1>4. CASE UNCHANGED vars
  BY <1>1, <1>4 DEF vars, TxInv, InvPC, InvFlag, InvFlight, InvData, InvWrite,
                    InvWire, Starting, Writing, Flight, Pending
<1> QED BY <1>2, <1>3, <1>4 DEF TxNext

\* The host receives exactly the bytes written, in order, for every ring size,
\* packet size and write length, as long as no transfer completes before
\* usbxch_start_tx has stored its length and flag.
THEOREM TxExactlyOnceInOrder == ASSUME SlowBus PROVE TxSpec => []TxInOrder
<1>1. TxInv => TxInOrder
  <2> SUFFICES ASSUME TxInv PROVE TxInOrder
    OBVIOUS
  <2>1. Pending \in Nat /\ written \in Nat /\ ep.left \in Nat /\ Len(wire) \in Nat
    BY TypeFacts DEF TxInv
  <2>2. CASE ep.on
    <3>1. /\ Flight \in 1 .. Pending
          /\ Len(wire) = written - Pending + (Flight - ep.left)
      BY <2>2 DEF TxInv, InvFlight, Part
    <3>2. PICK f \in Nat : f = Flight /\ f <= Pending
      BY <2>1, <3>1
    <3>3. Len(wire) = written - Pending + (f - ep.left)
      BY <3>1, <3>2
    <3>4. Len(wire) <= written
      BY <2>1, <3>2, <3>3
    <3> QED BY <3>4 DEF TxInv, InvWire, TxInOrder
  <2>3. CASE ~ep.on
    <3>1. Len(wire) = written - Pending
      BY <2>3 DEF TxInv, InvFlight
    <3>2. Len(wire) <= written
      BY <2>1, <3>1
    <3> QED BY <3>2 DEF TxInv, InvWire, TxInOrder
  <2> QED BY <2>2, <2>3
<1>2. TxInv /\ [TxNext]_vars => TxInv'
  BY InvStep
<1> QED BY <1>1, <1>2, InvInit, PTL DEF TxSpec

\* Under the same condition the busy flag outside usbxch_start_tx says exactly
\* whether the endpoint holds a transfer.
THEOREM TxBusyExact == ASSUME SlowBus PROVE TxSpec => []BusyMatchesTransfer
<1>1. TxInv => BusyMatchesTransfer
  BY DEF TxInv, InvFlag, BusyMatchesTransfer
<1>2. TxInv /\ [TxNext]_vars => TxInv'
  BY InvStep
<1> QED BY <1>1, <1>2, InvInit, PTL DEF TxSpec

\* The memory a write is granted is free and is what the commit publishes,
\* although the interrupt may move tail between the reads of write_reserve.
THEOREM TxGrantIsFree == ASSUME SlowBus PROVE TxSpec => []GrantIsFree
<1>1. TxInv => GrantIsFree
  <2> SUFFICES ASSUME TxInv, pc = "w_copy" PROVE GrantIsFree
    BY DEF GrantIsFree
  <2>1. wlen \in 1 .. RingFree(head, tail) /\ Shape(head, wc1, wlen)
    BY DEF TxInv, InvWrite, Writing
  <2>2. /\ head \in Index /\ wc1 \in Index /\ wlen \in Index
        /\ wlen \in Nat /\ Pending \in Nat /\ RingFree(head, tail) \in Nat
        /\ Capacity \in Nat /\ Pending + RingFree(head, tail) = Capacity - 1
    BY TypeFacts DEF TxInv
  <2>3. wlen <= RingFree(head, tail)
    BY <2>1, <2>2
  <2>4. Pending + wlen < Capacity
    BY <2>2, <2>3
  <2>5. \A k \in 0 .. wlen - 1 : GrantSlot(head, wc1, k) = Advance(head, k)
    BY <2>1, <2>2, GrantCovers DEF Shape
  <2> QED BY <2>4, <2>5 DEF GrantIsFree, Pending
<1>2. TxInv /\ [TxNext]_vars => TxInv'
  BY InvStep
<1> QED BY <1>1, <1>2, InvInit, PTL DEF TxSpec

-----------------------------------------------------------------------------
(* The transmit path is a byte channel.                                    *)

\* The host has the first bytes written, numbered from one, and lags behind
\* by no more than the ring holds.
ChannelState ==
    /\ wire = Channel!Ordinals(Len(wire))
    /\ Len(wire) \in Nat /\ written \in 0 .. MaxBytes
    /\ Len(wire) <= written /\ written - Len(wire) <= Capacity - 1

LEMMA ChannelBounds ==
    ASSUME TxInv
    PROVE  ChannelState
<1>1. /\ Pending \in Nat /\ written \in Nat /\ ep.left \in Nat /\ Len(wire) \in Nat
      /\ Capacity \in Nat /\ RingFree(head, tail) \in Nat
      /\ Pending + RingFree(head, tail) = Capacity - 1
  BY TypeFacts DEF TxInv
<1>2. PICK r \in Nat : r = Len(wire)
  BY <1>1
<1>3. r <= written /\ written - r <= Capacity - 1
  <2>1. CASE ep.on
    <3>1. Part(ep.slot, ep.left, r, tail, Flight, Pending, written)
      BY <1>2, <2>1 DEF TxInv, InvFlight
    <3>2. PICK f \in Nat : f = Flight
      BY <1>1, <3>1 DEF Part
    <3>3. f <= Pending /\ ep.left <= f /\ r = written - Pending + (f - ep.left)
      BY <1>1, <3>1, <3>2 DEF Part
    <3> QED
      BY <1>1, <1>2, <3>2, <3>3
  <2>2. CASE ~ep.on
    <3>1. r = written - Pending
      BY <1>2, <2>2 DEF TxInv, InvFlight
    <3> QED
      BY <1>1, <1>2, <3>1
  <2> QED
    BY <2>1, <2>2
<1>4. wire = Channel!Ordinals(Len(wire))
  <2>1. wire \in [1 .. Len(wire) -> 0 .. MaxBytes]
    BY SeqIsFunction DEF TxInv, TypeInv, TxTypeOK
  <2>2. \A i \in 1 .. Len(wire) : wire[i] = i
    BY DEF TxInv, InvWire
  <2> QED
    BY <2>1, <2>2 DEF Channel!Ordinals
<1>5. written \in 0 .. MaxBytes
  BY DEF TxInv, TypeInv, TxTypeOK
<1> QED
  BY <1>1, <1>2, <1>3, <1>4, <1>5 DEF ChannelState

\* The commit of a write is the channel's Accept, a packet its Deliver, and
\* every other step leaves the channel alone.
LEMMA TxSimulates ==
    TxInv /\ ChannelState /\ ChannelState' /\ [TxNext]_vars =>
        [Channel!ChanNext]_(Channel!chanVars)
<1> SUFFICES ASSUME TxInv, ChannelState, ChannelState', [TxNext]_vars
             PROVE  Channel!ChanNext \/ (written' = written /\ wire' = wire)
  BY DEF Channel!chanVars
<1>1. CASE WriteCommit
  <2>1. written' = written + wlen /\ wire' = wire
    BY <1>1 DEF WriteCommit
  <2>2. wlen \in Nat /\ wlen >= 1 /\ written \in Nat
    <3>1. wlen \in 1 .. RingFree(head, tail)
      BY <1>1 DEF WriteCommit, TxInv, InvWrite, Writing
    <3> QED
      BY <3>1, TypeFacts DEF TxInv
  <2>3. written' - Len(wire') <= Capacity - 1 /\ written' \in 0 .. MaxBytes
    BY DEF ChannelState
  <2>4. written' \in written + 1 .. MaxBytes
    BY <2>1, <2>2, <2>3
  <2> QED
    BY <2>1, <2>3, <2>4 DEF Channel!ChanNext, Channel!Accept
<1>2. CASE SendPacket
  <2>1. written' = written
    BY <1>2 DEF SendPacket
  <2>2. /\ wire = Channel!Ordinals(Len(wire)) /\ wire' = Channel!Ordinals(Len(wire'))
        /\ Len(wire) \in Nat /\ Len(wire') \in Nat /\ Len(wire') <= written'
    BY DEF ChannelState, Channel!Ordinals
  <2>3. Len(wire') >= Len(wire)
    <3>1. PICK n : n = IF ep.left < MaxPacket THEN ep.left ELSE MaxPacket
      OBVIOUS
    <3>2. n \in Nat
      BY <3>1, TypeFacts, TxAssumption DEF TxInv
    <3>3. PICK l \in Nat, m \in Nat : l = Len(wire) /\ m = Len(wire')
      BY <2>2
    <3>4. DOMAIN wire' = 1 .. l + n
      BY <1>2, <3>1, <3>3 DEF SendPacket
    <3>5. DOMAIN wire' = 1 .. m
      BY <2>2, <3>3 DEF Channel!Ordinals
    <3>6. m >= l
      <4>1. CASE l = 0
        BY <3>3, <4>1
      <4>2. CASE l # 0
        <5>1. l \in 1 .. l + n
          BY <3>2, <3>3, <4>2
        <5>2. l \in 1 .. m
          BY <3>4, <3>5, <5>1
        <5> QED
          BY <3>3, <5>2
      <4> QED
        BY <4>1, <4>2
    <3> QED
      BY <3>3, <3>6
  <2>4. CASE Len(wire') = Len(wire)
    BY <2>1, <2>2, <2>4
  <2>5. CASE Len(wire') # Len(wire)
    <3>1. PICK l \in Nat, m \in Nat : l = Len(wire) /\ m = Len(wire')
      BY <2>2
    <3>2. written \in Nat
      BY TypeFacts DEF TxInv
    <3>3. m \in l + 1 .. written
      BY <2>1, <2>2, <2>3, <2>5, <3>1, <3>2
    <3> QED
      BY <2>1, <2>2, <3>1, <3>3 DEF Channel!ChanNext, Channel!Deliver
  <2> QED
    BY <2>4, <2>5
<1>3. CASE TxComplete
  BY <1>3 DEF TxComplete
<1>4. CASE Thread /\ ~WriteCommit
  BY <1>4 DEF Thread, Update, Flush, AppDone, WriteStart, WriteCompare, WriteGrant, WriteCopy,
     StartTransmit, StartRelease, StartBusy
<1>5. CASE UNCHANGED vars
  BY <1>5 DEF vars
<1> QED
  BY <1>1, <1>2, <1>3, <1>4, <1>5 DEF TxNext, Bus, Thread

\* Every behaviour of the transmit path is one of the byte channel: the bytes
\* written come out in order, each once, with less than a ring of them between.
THEOREM TxIsChannel ==
    ASSUME SlowBus
    PROVE  TxSpec => Channel!ChanSafeSpec
<1>1. TxInit => Channel!ChanInit
  BY DEF TxInit, Channel!ChanInit
<1>2. TxInv => ChannelState
  BY ChannelBounds
<1>3. TxInv /\ [TxNext]_vars => TxInv'
  BY InvStep
<1> QED
  BY <1>1, <1>2, <1>3, InvInit, TxSimulates, PTL DEF TxSpec, Channel!ChanSafeSpec
=============================================================================
