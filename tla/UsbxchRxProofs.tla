--------------------------- MODULE UsbxchRxProofs ---------------------------
(* The receive path, for every capacity, packet and read size, on one       *)
(* assumption nothing in the code or the protocol enforces: that the host   *)
(* sends no more than the endpoint was armed with (HostFits). On it the     *)
(* reader, who reads the index of the interrupt at three moments, gets the  *)
(* bytes in order, each once, and the path is the byte channel.             *)
EXTENDS UsbxchRx, FdRingProofs

-----------------------------------------------------------------------------
(* The ring under the two sides.                                           *)

LEMMA SeqIsFunction ==
    ASSUME NEW S, NEW s \in Seq(S)
    PROVE  Len(s) \in Nat /\ s \in [1 .. Len(s) -> S]
OBVIOUS

LEMMA FunctionIsSeq ==
    ASSUME NEW S, NEW n \in Nat, NEW f \in [1 .. n -> S]
    PROVE  f \in Seq(S) /\ Len(f) = n
OBVIOUS

\* What GetRxStorage arms: free slots after the head, within the storage.
LEMMA ArmedShape ==
    ASSUME NEW h \in Index, NEW t \in Index
    PROVE  /\ Armed(h, t).slot = h /\ Armed(h, t).got = 0 /\ Armed(h, t).done = FALSE
           /\ Armed(h, t).size \in 0 .. RingFree(h, t)
           /\ h + Armed(h, t).size <= Capacity
<1> DEFINE n == FirstPart(WriteCont(h, t, t), RingFree(h, t))
<1>1. RingFree(h, t) \in Index
  BY RingSizeType
<1>2. n \in 0 .. RingFree(h, t)
  BY <1>1, WriteContNat
<1>3. h + n <= Capacity
  <2>1. CASE RingFree(h, t) = 0
    BY <1>1, <1>2, <2>1, CapacityAssumption DEF Index
  <2>2. CASE RingFree(h, t) # 0
    <3>1. RingFree(h, t) \in 1 .. RingFree(h, t)
      BY <1>1, <2>2, CapacityAssumption DEF Index
    <3>2. h < t => h + RingFree(h, t) < t
      BY <3>1, FitsBelowTail
    <3> QED
      BY <3>1, <3>2, WriteGrantShape, CapacityAssumption DEF Index
  <2> QED
    BY <2>1, <2>2
<1> HIDE DEF n
<1>4. Armed(h, t) = [slot |-> h, size |-> n, got |-> 0, done |-> FALSE]
  BY DEF Armed, n
<1> QED
  BY <1>2, <1>3, <1>4

\* A used slot is none of the free ones behind the head.
LEMMA UsedIsNotFree ==
    ASSUME NEW h \in Index, NEW t \in Index,
           NEW k \in 0 .. RingSize(h, t) - 1, NEW j \in 0 .. RingFree(h, t) - 1
    PROVE  Advance(t, k) # h + j
BY CapacityAssumption DEF Advance, RingSize, RingFree, Index

\* The slots after the used ones are those after the head.
LEMMA BehindUsed ==
    ASSUME NEW h \in Index, NEW t \in Index, NEW m \in 0 .. RingFree(h, t),
           h + m <= Capacity,
           NEW k \in RingSize(h, t) .. RingSize(h, t) + m - 1
    PROVE  Advance(t, k) = h + (k - RingSize(h, t))
BY CapacityAssumption DEF Advance, RingSize, RingFree, Index

\* read_reserve with the head read four times: the first region it computes
\* from a comparison with an older head and a subtraction of a newer one lies
\* within the storage, and ends where the storage ends if there is a second.
LEMMA ReadGrantShape ==
    ASSUME NEW t \in Index, NEW old \in Index, NEW h \in Index, NEW n \in Index,
           1 <= n, n <= RingSize(old, t), RingSize(old, t) <= RingSize(h, t)
    PROVE  \/ FirstPart(ReadCont(t, old, h), n) = n /\ t + n <= Capacity
           \/ /\ FirstPart(ReadCont(t, old, h), n) < n
              /\ FirstPart(ReadCont(t, old, h), n) = Capacity - t
<1>1. CASE t >= old
  BY <1>1, CapacityAssumption DEF FirstPart, ReadCont, Index
<1>2. CASE t < old /\ h >= t
  <2>1. U16(h - t) = h - t
    BY <1>2, CapacityAssumption DEF U16, Index
  <2> QED
    BY <1>2, <2>1, CapacityAssumption DEF FirstPart, ReadCont, RingSize, Index
<1>3. CASE t < old /\ h < t
  <2>1. U16(h - t) = h - t + 65536
    BY <1>3, CapacityAssumption DEF U16, Index
  <2> QED
    BY <1>3, <2>1, CapacityAssumption DEF FirstPart, ReadCont, RingSize, Index
<1> QED
  BY <1>1, <1>2, <1>3 DEF Index

\* The two memcpys of fd_usbxch_read take the oldest bytes, in order.
LEMMA CopiesOldest ==
    ASSUME NEW t \in Index, NEW n \in Index, NEW c \in Index, NEW m \in Nat \ {0},
           (c = n /\ t + n <= Capacity) \/ (c < n /\ c = Capacity - t),
           NEW first, first = Least(Least(m, n), c),
           NEW second, second = IF first < m THEN Least(m - first, n - c) ELSE 0
    PROVE  /\ first + second \in 0 .. n
           /\ \A j \in 0 .. first + second - 1 : GrantSlot(t, first, j) = Advance(t, j)
<1>1. /\ first \in Nat /\ first <= c /\ first <= n /\ first <= m
      /\ first < m => first = c
  BY CapacityAssumption DEF Least, Index
<1>2. /\ second \in Nat /\ second <= n - c
      /\ second > 0 => first = c
  BY <1>1, CapacityAssumption DEF Least, Index
<1>3. n \in Nat /\ c \in Nat /\ t \in Nat /\ t < Capacity /\ n < Capacity /\ Capacity \in Nat
  BY CapacityAssumption DEF Index
<1>4. first + second \in 0 .. n
  BY <1>1, <1>2, <1>3
<1>5. ASSUME NEW j \in 0 .. first + second - 1
      PROVE  GrantSlot(t, first, j) = Advance(t, j)
  <2>1. CASE j < first
    BY <1>1, <1>3, <2>1 DEF GrantSlot, Advance
  <2>2. CASE j >= first
    <3>1. first = c /\ c = Capacity - t
      BY <1>1, <1>2, <1>3, <2>2
    <3>2. GrantSlot(t, first, j) = j - c /\ t + j >= Capacity
      BY <1>3, <2>2, <3>1 DEF GrantSlot
    <3> QED
      BY <1>3, <3>1, <3>2 DEF Advance
  <2> QED
    BY <1>1, <1>2, <2>1, <2>2
<1> QED
  BY <1>4, <1>5

-----------------------------------------------------------------------------
(* The inductive invariant.                                                *)

Pending == RingSize(head, tail)

\* Every byte from the host is still in the transfer, in the ring, or read.
InvCount ==
    /\ received = committed + arm.got
    /\ committed + (IF pc = "r_commit" THEN rtotal ELSE 0) = Len(readOut) + Pending

\* What a read in progress relies on: the head it compared with and the count
\* it took only become less than what is there.
InvReader ==
    /\ pc = "r_count" => Pending >= 1
    /\ pc \in {"r_compare", "r_grant", "r_copy", "r_commit"} =>
         1 <= rcount /\ rcount <= Pending
    /\ pc = "r_grant" => rcount <= RingSize(rcmp, tail) /\ RingSize(rcmp, tail) <= Pending
    /\ pc = "r_copy" => \/ rc1 = rcount /\ tail + rcount <= Capacity
                        \/ rc1 < rcount /\ rc1 = Capacity - tail
    /\ pc = "r_commit" => rtotal <= rcount

\* The used slots hold the last committed bytes, in order; the transfer's
\* bytes follow behind the head.
InvUsed == \A k \in 0 .. Pending - 1 : buf[Advance(tail, k)] = committed - Pending + 1 + k
InvTransfer == \A k \in 0 .. arm.got - 1 : buf[head + k] = committed + 1 + k

InvRead == \A i \in 1 .. Len(readOut) : readOut[i] = i

RxInv == /\ RxTypeOK /\ ArmedIsFree
         /\ InvCount /\ InvReader /\ InvUsed /\ InvTransfer /\ InvRead

\* An index is a number below the capacity.
LEMMA IndexIs ==
    /\ Capacity \in Nat /\ Capacity >= 2 /\ Capacity <= 32768
    /\ \A i : i \in Index <=> i \in Nat /\ i < Capacity
BY CapacityAssumption DEF Index

\* What every step uses of the types.
LEMMA Facts ==
    ASSUME RxInv
    PROVE  /\ Pending \in Nat /\ RingFree(head, tail) \in Nat
           /\ head \in Nat /\ head < Capacity /\ tail \in Nat /\ tail < Capacity
           /\ head \in Index /\ tail \in Index /\ Pending \in Index
           /\ RingFree(head, tail) \in Index /\ Pending + RingFree(head, tail) = Capacity - 1
           /\ arm.slot = head /\ arm.size \in Nat /\ arm.got \in Nat /\ arm.got <= arm.size
           /\ arm.size <= RingFree(head, tail) /\ head + arm.size <= Capacity
           /\ received \in Nat /\ committed \in Nat
           /\ Len(readOut) \in Nat
           /\ readOut \in [1 .. Len(readOut) -> 0 .. MaxBytes]
           /\ buf \in [Index -> 0 .. MaxBytes]
           /\ MaxBytes \in Nat
           /\ rcount \in Nat /\ rtotal \in Nat /\ RingSize(rcmp, tail) \in Nat
<1>1. RxTypeOK /\ ArmedIsFree
  BY DEF RxInv
<1>2. /\ head \in Index /\ tail \in Index /\ readOut \in Seq(0 .. MaxBytes)
      /\ received \in Nat /\ committed \in Nat
      /\ arm.size \in Nat /\ arm.got \in Nat /\ buf \in [Index -> 0 .. MaxBytes]
  BY <1>1, CapacityAssumption, RxAssumption DEF RxTypeOK, Index
<1>3. /\ Len(readOut) \in Nat /\ readOut \in [1 .. Len(readOut) -> 0 .. MaxBytes]
  BY <1>2, SeqIsFunction
<1>4. /\ Pending \in Index /\ RingFree(head, tail) \in Index
      /\ Pending + RingFree(head, tail) = Capacity - 1
  BY <1>2, RingSizeType DEF Pending
<1>5. rcount \in Nat /\ rtotal \in Nat /\ RingSize(rcmp, tail) \in Nat
  <2>1. rcount \in Index /\ rtotal \in Index /\ rcmp \in Index /\ tail \in Index
    BY <1>1 DEF RxTypeOK
  <2>2. RingSize(rcmp, tail) \in Index
    BY <2>1, RingSizeType
  <2> QED
    BY <2>1, <2>2, IndexIs
<1> QED
  BY <1>1, <1>2, <1>3, <1>4, <1>5, RxAssumption, IndexIs DEF ArmedIsFree

LEMMA InvInit == RxInit => RxInv
<1> SUFFICES ASSUME RxInit
             PROVE  RxInv
  OBVIOUS
<1>0. 0 \in Index /\ MaxBytes \in Nat
  BY CapacityAssumption, RxAssumption DEF Index
<1>1. /\ arm.slot = 0 /\ arm.got = 0 /\ arm.done = FALSE
      /\ arm.size \in 0 .. RingFree(0, 0) /\ 0 + arm.size <= Capacity
      /\ arm = Armed(0, 0)
  BY <1>0, ArmedShape DEF RxInit
<1>2. RingFree(0, 0) \in Index /\ RingSize(0, 0) = 0
  BY <1>0, RingSizeType
<1>3. << >> \in Seq(0 .. MaxBytes) /\ Len(<< >>) = 0
  OBVIOUS
<1>4. arm \in [slot : Index, size : Index, got : 0 .. MaxBytes, done : BOOLEAN]
  <2>1. FirstPart(WriteCont(0, 0, 0), RingFree(0, 0)) = arm.size
    BY <1>1 DEF Armed
  <2>2. arm.size \in Index
    BY <1>1, <1>2, CapacityAssumption DEF Index
  <2> QED
    BY <1>0, <1>1, <2>1, <2>2 DEF Armed
<1>5. RxTypeOK
  BY <1>0, <1>3, <1>4, RxAssumption DEF RxInit, RxTypeOK, PC
<1> QED
  BY <1>0, <1>1, <1>2, <1>3, <1>5 DEF RxInit, RxInv, ArmedIsFree, Pending, InvCount, InvReader,
     InvUsed, InvTransfer, InvRead

-----------------------------------------------------------------------------
(* Host and USB interrupt.                                                 *)

\* A packet lands behind the bytes the transfer already has: in free slots.
LEMMA PacketStep ==
    ASSUME HostFits, RxInv, NEW n \in 1 .. MaxPacket, ReceivePacket(n)
    PROVE  RxInv'
<1> DEFINE at == head + arm.got
<1>1. /\ head \in Index /\ tail \in Index /\ Pending \in Index
      /\ arm.slot = head /\ arm.size \in Nat /\ arm.got \in Nat /\ head + arm.size <= Capacity
      /\ arm.size <= RingFree(head, tail) /\ RingFree(head, tail) \in Index
      /\ received \in Nat /\ committed \in Nat /\ MaxBytes \in Nat /\ n \in Nat /\ n >= 1
      /\ buf \in [Index -> 0 .. MaxBytes]
      /\ Pending \in Nat /\ RingFree(head, tail) \in Nat
      /\ head \in Nat /\ head < Capacity /\ tail \in Nat
      /\ Pending + RingFree(head, tail) = Capacity - 1
  BY Facts, RxAssumption
<1>0. rtotal \in Nat /\ Len(readOut) \in Nat
  BY Facts
<1>2. /\ arm.got + n <= arm.size /\ received' = received + n /\ received + n <= MaxBytes
      /\ UNCHANGED <<head, tail, pc, locals, committed, readOut>>
      /\ buf' = [i \in Index |-> IF i >= at /\ i < at + n
                                 THEN received + 1 + (i - at) ELSE buf[i]]
  BY <1>1 DEF ReceivePacket
<1>3. /\ arm'.slot = arm.slot /\ arm'.size = arm.size /\ arm'.got = arm.got + n
      /\ arm'.done \in BOOLEAN
      /\ arm' = [slot |-> arm'.slot, size |-> arm'.size, got |-> arm'.got, done |-> arm'.done]
  BY DEF ReceivePacket
<1>4. UNCHANGED <<rcount, rcmp, rc1, rtotal>> /\ Pending' = Pending
  BY <1>2 DEF locals, Pending
<1>5. RxTypeOK /\ ArmedIsFree /\ InvCount /\ InvReader /\ InvUsed /\ InvTransfer /\ InvRead
  BY DEF RxInv
<1>6. received = committed + arm.got
  BY <1>5 DEF InvCount
<1>7. buf' \in [Index -> 0 .. MaxBytes]
  <2>1. ASSUME NEW i \in Index, i >= at, i < at + n
        PROVE  received + 1 + (i - at) \in 0 .. MaxBytes
    <3>1. at \in Nat /\ i \in Nat
      BY <1>1, IndexIs
    <3>2. i - at \in 0 .. n - 1
      BY <1>1, <2>1, <3>1
    <3> QED
      BY <1>1, <1>2, <3>2
  <2>2. \A i \in Index : buf[i] \in 0 .. MaxBytes
    BY <1>1
  <2>3. \A i \in Index : (IF i >= at /\ i < at + n THEN received + 1 + (i - at) ELSE buf[i]) \in 0 .. MaxBytes
    BY <2>1, <2>2
  <2> QED
    BY <1>2, <2>3
<1>8. arm' \in [slot : Index, size : Index, got : 0 .. MaxBytes, done : BOOLEAN]
  <2>1. arm'.slot \in Index /\ arm'.size \in Index /\ arm'.got \in 0 .. MaxBytes
    BY <1>1, <1>2, <1>3, <1>6, IndexIs
  <2> QED
    BY <1>3, <2>1
<1>9. RxTypeOK'
  <2>1. received' \in 0 .. MaxBytes /\ committed' \in 0 .. received'
    BY <1>1, <1>2, <1>6
  <2> QED
    BY <1>2, <1>4, <1>5, <1>7, <1>8, <2>1 DEF RxTypeOK
<1>10. ArmedIsFree'
  BY <1>1, <1>2, <1>3 DEF ArmedIsFree
<1>11. InvCount'
  <2>1. received' = committed' + arm'.got
    BY <1>1, <1>2, <1>3, <1>6
  <2>2. pc' = pc /\ rtotal' = rtotal /\ readOut' = readOut /\ committed' = committed
    BY <1>2, <1>4
  <2> QED
    BY <1>4, <1>5, <2>1, <2>2 DEF InvCount
<1>12. InvReader'
  BY <1>2, <1>4, <1>5 DEF InvReader
<1>13. InvUsed'
  <2> SUFFICES ASSUME NEW k \in 0 .. Pending - 1
               PROVE  buf'[Advance(tail, k)] = committed - Pending + 1 + k
    BY <1>2, <1>4 DEF InvUsed
  <2>1. Advance(tail, k) \in Index
    BY <1>1, AdvanceType, IndexIs
  <2>2. ~(Advance(tail, k) >= at /\ Advance(tail, k) < at + n)
    <3> SUFFICES ASSUME Advance(tail, k) >= at, Advance(tail, k) < at + n
                 PROVE  FALSE
      OBVIOUS
    <3>1. PICK j \in Int : j = Advance(tail, k) - head
      BY <1>1, <2>1, IndexIs
    <3>2. Advance(tail, k) \in Int /\ head \in Int
      BY <1>1, <2>1, IndexIs
    <3>3. j >= arm.got /\ j < arm.got + n
      BY <1>1, <3>1, <3>2
    <3>4. j \in 0 .. RingFree(head, tail) - 1 /\ Advance(tail, k) = head + j
      BY <1>1, <1>2, <3>1, <3>2, <3>3, IndexIs
    <3> QED
      BY <1>1, <3>4, UsedIsNotFree DEF Pending
  <2> QED
    BY <1>2, <1>5, <2>1, <2>2 DEF InvUsed
<1>14. InvTransfer'
  <2> SUFFICES ASSUME NEW k \in 0 .. arm.got + n - 1
               PROVE  buf'[head + k] = committed + 1 + k
    <3>1. arm'.got = arm.got + n /\ head' = head /\ committed' = committed
      BY <1>2, <1>3
    <3>2. ASSUME NEW k \in 0 .. arm'.got - 1
          PROVE  buf'[head' + k] = committed' + 1 + k
      BY <1>1, <3>1
    <3> QED
      BY <3>2 DEF InvTransfer
  <2>1. head + k \in Index /\ k \in Nat /\ head \in Nat
    BY <1>1, <1>2, IndexIs
  <2>2. CASE k < arm.got
    <3>1. ~(head + k >= at) /\ buf[head + k] = committed + 1 + k
      BY <1>1, <1>5, <2>1, <2>2 DEF InvTransfer
    <3> QED
      BY <1>2, <2>1, <3>1
  <2>3. CASE k >= arm.got
    <3>1. head + k >= at /\ head + k < at + n
      BY <1>1, <2>1, <2>3
    <3>2. buf'[head + k] = received + 1 + ((head + k) - at)
      BY <1>2, <2>1, <3>1
    <3> QED
      BY <1>1, <1>6, <2>1, <3>2
  <2> QED
    BY <1>1, <2>1, <2>2, <2>3
<1>15. InvRead'
  BY <1>2, <1>5 DEF InvRead
<1> QED
  BY <1>9, <1>10, <1>11, <1>12, <1>13, <1>14, <1>15 DEF RxInv

\* The completion publishes the transfer's bytes and arms what is free behind
\* them.
LEMMA DataOutStep ==
    ASSUME RxInv, DataOut
    PROVE  RxInv'
<1>1. /\ head \in Index /\ tail \in Index /\ Pending \in Index
      /\ arm.size \in Nat /\ arm.got \in Nat /\ arm.got <= arm.size
      /\ head + arm.size <= Capacity
      /\ arm.size <= RingFree(head, tail) /\ RingFree(head, tail) \in Index
      /\ Pending + RingFree(head, tail) = Capacity - 1
      /\ received \in Nat /\ committed \in Nat /\ MaxBytes \in Nat
      /\ Pending \in Nat /\ RingFree(head, tail) \in Nat
      /\ head \in Nat /\ head < Capacity /\ tail \in Nat
  BY Facts
<1>0. rcount \in Nat /\ rtotal \in Nat /\ RingSize(rcmp, tail) \in Nat /\ Len(readOut) \in Nat
  BY Facts
<1>2. /\ head' = Advance(head, arm.got) /\ arm' = Armed(head', tail)
      /\ committed' = committed + arm.got
      /\ UNCHANGED <<tail, buf, pc, received, readOut>>
      /\ UNCHANGED <<rcount, rcmp, rc1, rtotal>>
  BY DEF DataOut, locals
<1>3. RxTypeOK /\ ArmedIsFree /\ InvCount /\ InvReader /\ InvUsed /\ InvTransfer /\ InvRead
  BY DEF RxInv
<1>4. received = committed + arm.got
  BY <1>3 DEF InvCount
<1>5. arm.got \in 0 .. RingFree(head, tail) /\ arm.got \in 0 .. Capacity
  BY <1>1, IndexIs
<1>6. head' \in Index
  BY <1>1, <1>2, <1>5, AdvanceType
<1>7. Pending' = Pending + arm.got
  BY <1>1, <1>2, <1>5, WriteCommitSize DEF Pending
<1>8. /\ arm'.slot = head' /\ arm'.got = 0 /\ arm'.done = FALSE
      /\ arm'.size \in 0 .. RingFree(head', tail) /\ head' + arm'.size <= Capacity
      /\ RingFree(head', tail) \in Index
  BY <1>1, <1>2, <1>6, ArmedShape, RingSizeType
<1>9. RxTypeOK'
  <2>1. arm' \in [slot : Index, size : Index, got : 0 .. MaxBytes, done : BOOLEAN]
    <3>1. arm'.size \in Index
      BY <1>8, IndexIs
    <3>2. arm' = [slot |-> arm'.slot, size |-> arm'.size, got |-> arm'.got, done |-> arm'.done]
      BY <1>2 DEF Armed
    <3>3. arm'.slot \in Index /\ arm'.got = 0 /\ arm'.done \in BOOLEAN
      BY <1>6, <1>8
    <3>4. 0 \in 0 .. MaxBytes
      BY <1>1
    <3> QED
      BY <3>1, <3>2, <3>3, <3>4
  <2>2. committed' \in 0 .. received'
    BY <1>1, <1>2, <1>4
  <2> QED
    BY <1>2, <1>3, <1>6, <2>1, <2>2 DEF RxTypeOK
<1>10. ArmedIsFree'
  BY <1>2, <1>8, IndexIs DEF ArmedIsFree
<1>11. InvCount'
  <2>1. received' = committed' + arm'.got
    BY <1>1, <1>2, <1>4, <1>8
  <2>2. pc' = pc /\ rtotal' = rtotal /\ readOut' = readOut
    BY <1>2
  <2> QED
    <3> DEFINE r == IF pc = "r_commit" THEN rtotal ELSE 0
    <3>1. committed + r = Len(readOut) + Pending /\ r \in Nat
      BY <1>0, <1>3 DEF InvCount
    <3>2. (IF pc' = "r_commit" THEN rtotal' ELSE 0) = r
      BY <2>2
    <3> HIDE DEF r
    <3>3. committed' + r = Len(readOut) + Pending'
      <4>1. committed' = committed + arm.got /\ Pending' = Pending + arm.got
        BY <1>2, <1>7
      <4>2. committed \in Nat /\ Pending \in Nat /\ arm.got \in Nat
        BY <1>1
      <4>3. PICK l \in Nat : l = Len(readOut)
        BY <1>0
      <4>4. committed + r = l + Pending /\ r \in Nat
        BY <3>1, <4>3
      <4>5. committed' + r = l + Pending'
        BY <4>1, <4>2, <4>4
      <4> QED
        BY <4>3, <4>5
    <3> QED
      BY <2>1, <2>2, <3>2, <3>3 DEF InvCount
<1>12. InvReader'
  <2>1. Pending' \in Nat /\ Pending' >= Pending
    BY <1>1, <1>7
  <2>2. UNCHANGED <<pc, rcount, rcmp, rc1, rtotal, tail>>
    BY <1>2
  <2>3. InvReader
    BY <1>3
  <2> QED
    BY <1>0, <1>1, <2>1, <2>2, <2>3 DEF InvReader
<1>13. InvUsed'
  <2> SUFFICES ASSUME NEW k \in 0 .. Pending + arm.got - 1
               PROVE  buf[Advance(tail, k)] = committed - Pending + 1 + k
    <3>1. /\ tail' = tail /\ buf' = buf
          /\ committed' - Pending' = committed - Pending
          /\ Pending' = Pending + arm.got
      BY <1>1, <1>2, <1>7
    <3>2. ASSUME NEW k \in 0 .. Pending' - 1
          PROVE  buf'[Advance(tail', k)] = committed' - Pending' + 1 + k
      BY <1>1, <3>1
    <3> QED
      BY <3>2 DEF InvUsed
  <2>0. Pending \in Nat /\ k \in Nat
    BY <1>1, IndexIs
  <2>1. CASE k < Pending
    BY <1>3, <2>0, <2>1 DEF InvUsed
  <2>2. CASE k >= Pending
    <3>1. k \in RingSize(head, tail) .. RingSize(head, tail) + arm.got - 1
      BY <1>1, <2>0, <2>2 DEF Pending
    <3>2. head + arm.got <= Capacity
      BY <1>1, IndexIs
    <3>3. Advance(tail, k) = head + (k - Pending)
      BY <1>1, <1>5, <3>1, <3>2, BehindUsed DEF Pending
    <3>4. k - Pending \in 0 .. arm.got - 1
      BY <1>1, <2>0, <2>2
    <3>5. buf[head + (k - Pending)] = committed + 1 + (k - Pending)
      BY <1>3, <3>4 DEF InvTransfer
    <3> QED
      BY <1>1, <2>0, <3>3, <3>5
  <2> QED
    BY <2>0, <2>1, <2>2
<1>14. InvTransfer'
  BY <1>8 DEF InvTransfer
<1>15. InvRead'
  BY <1>2, <1>3 DEF InvRead
<1> QED
  BY <1>9, <1>10, <1>11, <1>12, <1>13, <1>14, <1>15 DEF RxInv

-----------------------------------------------------------------------------
(* The main loop.                                                          *)

\* The four readings of the head: no memory changes.
LEMMA ReserveStep ==
    ASSUME RxInv, ReadStart \/ ReadCount \/ ReadCompare \/ ReadGrant
    PROVE  RxInv'
<1>1. /\ head \in Index /\ tail \in Index /\ Pending \in Index
      /\ Pending \in Nat /\ (Pending = 0 <=> head = tail)
      /\ rcount \in Nat
  BY Facts, RingSizeType DEF Pending
<1>2. RxTypeOK /\ ArmedIsFree /\ InvCount /\ InvReader /\ InvUsed /\ InvTransfer /\ InvRead
  BY DEF RxInv
<1>3. UNCHANGED <<head, buf, arm, received, committed, tail, readOut, rtotal>>
  BY DEF ReadStart, ReadCount, ReadCompare, ReadGrant, Stay, locals
<1>4. /\ Pending' = Pending /\ RingFree(head, tail)' = RingFree(head, tail)
      /\ ArmedIsFree' /\ InvUsed' /\ InvTransfer' /\ InvRead'
  BY <1>2, <1>3 DEF Pending, ArmedIsFree, InvUsed, InvTransfer, InvRead
<1>5. InvCount'
  <2>1. pc # "r_commit" /\ pc' # "r_commit"
    BY DEF ReadStart, ReadCount, ReadCompare, ReadGrant
  <2> QED
    BY <1>2, <1>3, <1>4, <2>1 DEF InvCount
<1>6. CASE ReadStart
  <2>1. pc' = "r_count" /\ Pending # 0 /\ UNCHANGED <<rcount, rcmp, rc1>>
    BY <1>6 DEF ReadStart, locals, Pending
  <2>2. InvReader'
    BY <1>1, <1>4, <2>1 DEF InvReader
  <2>3. RxTypeOK'
    BY <1>2, <1>3, <2>1 DEF RxTypeOK, PC
  <2> QED
    BY <1>4, <1>5, <2>2, <2>3 DEF RxInv
<1>7. CASE ReadCount
  <2>1. /\ pc = "r_count" /\ pc' = "r_compare" /\ rcount' = Pending
        /\ UNCHANGED <<rcmp, rc1>>
    BY <1>7 DEF ReadCount, Pending
  <2>2. InvReader'
    BY <1>1, <1>2, <1>4, <2>1 DEF InvReader
  <2>3. RxTypeOK'
    BY <1>1, <1>2, <1>3, <2>1 DEF RxTypeOK, PC
  <2> QED
    BY <1>4, <1>5, <2>2, <2>3 DEF RxInv
<1>8. CASE ReadCompare
  <2>1. /\ pc = "r_compare" /\ pc' = "r_grant" /\ rcmp' = head
        /\ UNCHANGED <<rcount, rc1>>
    BY <1>8 DEF ReadCompare
  <2>2. RingSize(rcmp, tail)' = Pending
    BY <1>3, <2>1 DEF Pending
  <2>3. InvReader'
    BY <1>1, <1>2, <1>4, <2>1, <2>2 DEF InvReader
  <2>4. RxTypeOK'
    BY <1>1, <1>2, <1>3, <2>1 DEF RxTypeOK, PC
  <2> QED
    BY <1>4, <1>5, <2>3, <2>4 DEF RxInv
<1>9. CASE ReadGrant
  <2>1. /\ pc = "r_grant" /\ pc' = "r_copy" /\ UNCHANGED <<rcount, rcmp>>
        /\ rc1' = FirstPart(ReadCont(tail, rcmp, head), rcount)
    BY <1>9 DEF ReadGrant
  <2>2. /\ 1 <= rcount /\ rcount <= RingSize(rcmp, tail)
        /\ RingSize(rcmp, tail) <= RingSize(head, tail) /\ rcount <= Pending
    BY <1>2, <2>1 DEF InvReader, Pending
  <2>3. rcount \in Index /\ rcmp \in Index
    BY <1>2 DEF RxTypeOK
  <2>4. \/ rc1' = rcount /\ tail + rcount <= Capacity
        \/ rc1' < rcount /\ rc1' = Capacity - tail
    BY <1>1, <2>1, <2>2, <2>3, ReadGrantShape
  <2>5. InvReader'
    BY <1>2, <1>3, <1>4, <2>1, <2>2, <2>4 DEF InvReader
  <2>6. rc1' \in Index
    BY <1>1, <2>3, <2>4, IndexIs
  <2>7. RxTypeOK'
    BY <1>2, <1>3, <2>1, <2>6 DEF RxTypeOK, PC
  <2> QED
    BY <1>4, <1>5, <2>5, <2>7 DEF RxInv
<1> QED
  BY <1>6, <1>7, <1>8, <1>9

\* The copies append the oldest bytes of the ring to what was read.
LEMMA CopyStep ==
    ASSUME RxInv, ReadCopy
    PROVE  RxInv'
<1> DEFINE k == Len(readOut)
           first == CopiedFirst
           n == CopiedFirst + CopiedSecond
<1>1. /\ tail \in Index /\ Pending \in Nat /\ Pending < Capacity /\ committed \in Nat
      /\ tail \in Nat /\ tail < Capacity
      /\ buf \in [Index -> 0 .. MaxBytes]
  <2>1. Pending \in Index
    BY Facts
  <2> QED
    BY <2>1, Facts, IndexIs
<1>2. k \in Nat /\ readOut \in [1 .. k -> 0 .. MaxBytes]
  BY Facts
<1>3. RxTypeOK /\ ArmedIsFree /\ InvCount /\ InvReader /\ InvUsed /\ InvTransfer /\ InvRead
  BY DEF RxInv
<1>4. /\ pc = "r_copy" /\ pc' = "r_commit" /\ rtotal' = n
      /\ UNCHANGED <<head, buf, arm, received, committed, tail, rcount, rcmp, rc1>>
  BY DEF ReadCopy, Stay
<1>5. readOut' = [i \in 1 .. k + n |->
                    IF i <= k THEN readOut[i] ELSE buf[GrantSlot(tail, first, i - k - 1)]]
  BY DEF ReadCopy
<1>6. /\ 1 <= rcount /\ rcount <= Pending
      /\ \/ rc1 = rcount /\ tail + rcount <= Capacity
         \/ rc1 < rcount /\ rc1 = Capacity - tail
  BY <1>3, <1>4 DEF InvReader
<1>7. rcount \in Index /\ rc1 \in Index /\ ReadMax \in Nat \ {0} /\ rcount \in Nat
  BY <1>3, RxAssumption, IndexIs DEF RxTypeOK
<1>8. /\ n \in 0 .. rcount
      /\ \A j \in 0 .. n - 1 : GrantSlot(tail, first, j) = Advance(tail, j)
  <2>1. PICK f, g : f = CopiedFirst /\ g = CopiedSecond
    OBVIOUS
  <2>2. f = Least(Least(ReadMax, rcount), rc1)
    BY <2>1 DEF CopiedFirst
  <2>3. g = IF f < ReadMax THEN Least(ReadMax - f, rcount - rc1) ELSE 0
    BY <2>1 DEF CopiedSecond
  <2>4. /\ f + g \in 0 .. rcount
        /\ \A j \in 0 .. f + g - 1 : GrantSlot(tail, f, j) = Advance(tail, j)
    BY <1>1, <1>6, <1>7, <2>2, <2>3, CopiesOldest
  <2>5. first = f /\ n = f + g
    BY <2>1
  <2>6. f \in Nat /\ g \in Nat
    BY <1>6, <1>7, <2>2, <2>3, IndexIs DEF Least
  <2> HIDE DEF first, n
  <2>7. n \in 0 .. rcount
    BY <2>4, <2>5
  <2>8. ASSUME NEW j \in 0 .. n - 1
        PROVE  GrantSlot(tail, first, j) = Advance(tail, j)
    <3>1. j \in 0 .. f + g - 1
      BY <2>5, <2>6
    <3> QED
      BY <2>4, <2>5, <3>1
  <2> QED
    BY <2>7, <2>8
<1>9. k = committed - Pending
  <2>1. committed + 0 = k + Pending
    BY <1>3, <1>4 DEF InvCount
  <2> QED
    BY <1>1, <1>2, <2>1
<1> HIDE DEF k, first, n
<1>10. n \in Nat /\ n <= rcount /\ n <= Pending /\ n \in Index
  BY <1>1, <1>6, <1>7, <1>8, IndexIs
<1>11. ASSUME NEW i \in 1 .. k + n
       PROVE  readOut'[i] = i /\ readOut'[i] \in 0 .. MaxBytes
  <2>1. CASE i <= k
    <3>1. readOut'[i] = readOut[i] /\ i \in 1 .. k
      BY <1>2, <1>5, <1>10, <2>1
    <3>2. readOut[i] = i
      BY <1>3, <3>1 DEF InvRead, k
    <3> QED
      BY <1>2, <3>1, <3>2
  <2>2. CASE i > k
    <3>1. PICK j \in Int : j = i - k - 1
      BY <1>2, <1>10
    <3>2. j \in 0 .. n - 1 /\ j \in 0 .. Pending - 1 /\ j \in 0 .. Capacity
      BY <1>1, <1>2, <1>10, <2>2, <3>1, IndexIs
    <3>3. readOut'[i] = buf[Advance(tail, j)]
      BY <1>2, <1>5, <1>8, <2>2, <3>1, <3>2
    <3>4. buf[Advance(tail, j)] = committed - Pending + 1 + j
      BY <1>3, <3>2 DEF InvUsed
    <3>5. Advance(tail, j) \in Index
      BY <1>1, <3>2, AdvanceType
    <3>6. buf[Advance(tail, j)] \in 0 .. MaxBytes
      BY <1>1, <3>5
    <3>7. committed - Pending + 1 + j = i
      BY <1>1, <1>2, <1>9, <1>10, <3>1
    <3> QED
      BY <3>3, <3>4, <3>6, <3>7
  <2> QED
    BY <1>2, <1>10, <2>1, <2>2
<1>12. readOut' \in Seq(0 .. MaxBytes) /\ Len(readOut') = k + n
  <2>1. k + n \in Nat
    BY <1>2, <1>10
  <2>2. readOut' \in [1 .. k + n -> 0 .. MaxBytes]
    <3> DEFINE f(i) == IF i <= k THEN readOut[i] ELSE buf[GrantSlot(tail, first, i - k - 1)]
    <3>1. readOut' = [i \in 1 .. k + n |-> f(i)]
      BY <1>5
    <3>2. \A i \in 1 .. k + n : readOut'[i] = f(i)
      BY <3>1
    <3> HIDE DEF f
    <3>3. \A i \in 1 .. k + n : f(i) \in 0 .. MaxBytes
      BY <1>11, <3>2
    <3> QED
      BY <3>1, <3>3
  <2> QED
    BY <2>1, <2>2, FunctionIsSeq
<1>13. RxTypeOK'
  BY <1>3, <1>4, <1>10, <1>12 DEF RxTypeOK, PC
<1>14. ArmedIsFree' /\ InvUsed' /\ InvTransfer' /\ Pending' = Pending
  BY <1>3, <1>4 DEF ArmedIsFree, InvUsed, InvTransfer, Pending
<1>15. InvRead'
  BY <1>11, <1>12 DEF InvRead
<1>16. InvCount'
  <2>1. received' = committed' + arm'.got
    BY <1>3, <1>4 DEF InvCount
  <2>2. committed' + n = Len(readOut') + Pending'
    BY <1>1, <1>2, <1>4, <1>9, <1>10, <1>12, <1>14
  <2>3. (IF pc' = "r_commit" THEN rtotal' ELSE 0) = n
    BY <1>4
  <2> QED
    BY <2>1, <2>2, <2>3 DEF InvCount
<1>17. InvReader'
  BY <1>4, <1>6, <1>10, <1>14 DEF InvReader
<1> QED
  BY <1>13, <1>14, <1>15, <1>16, <1>17 DEF RxInv

\* The commit gives the slots of the bytes read back to the other side.
LEMMA CommitStep ==
    ASSUME RxInv, ReadCommit
    PROVE  RxInv'
<1>1. /\ head \in Index /\ tail \in Index /\ Pending \in Index /\ Pending \in Nat
      /\ committed \in Nat /\ rtotal \in Nat
      /\ arm.size \in Nat /\ arm.size <= RingFree(head, tail) /\ RingFree(head, tail) \in Nat
      /\ Pending + RingFree(head, tail) = Capacity - 1
  BY Facts
<1>2. RxTypeOK /\ ArmedIsFree /\ InvCount /\ InvReader /\ InvUsed /\ InvTransfer /\ InvRead
  BY DEF RxInv
<1>3. /\ pc = "r_commit" /\ pc' = "loop" /\ tail' = Advance(tail, rtotal)
      /\ UNCHANGED <<head, buf, arm, received, committed, readOut, rcount, rcmp, rc1, rtotal>>
  BY DEF ReadCommit, Stay, locals
<1>4. rtotal <= Pending
  <2>1. rtotal <= rcount /\ rcount <= Pending /\ rcount \in Nat
    BY <1>2, <1>3, Facts DEF InvReader
  <2> QED
    BY <1>1, <2>1
<1>5. rtotal \in 0 .. RingSize(head, tail) /\ rtotal \in 0 .. Capacity
  BY <1>1, <1>4, IndexIs DEF Pending
<1>6. tail' \in Index /\ Pending' = Pending - rtotal
  BY <1>1, <1>3, <1>5, AdvanceType, ReadCommitSize DEF Pending
<1>7. RxTypeOK'
  BY <1>2, <1>3, <1>6 DEF RxTypeOK, PC
<1>8. ArmedIsFree'
  <2>1. RingSize(head, tail') + RingFree(head, tail') = Capacity - 1 /\ RingFree(head, tail') \in Index
    BY <1>1, <1>6, RingSizeType
  <2>2. RingSize(head, tail') = Pending - rtotal
    BY <1>3, <1>6 DEF Pending
  <2>3. RingFree(head, tail') \in Nat /\ Capacity \in Nat
    BY <2>1, IndexIs
  <2>4. arm.size <= RingFree(head, tail')
    BY <1>1, <2>1, <2>2, <2>3
  <2> QED
    BY <1>2, <1>3, <2>4 DEF ArmedIsFree
<1>9. InvCount'
  <2>1. committed + rtotal = Len(readOut) + Pending
    BY <1>2, <1>3 DEF InvCount
  <2>2. Len(readOut) \in Nat
    BY Facts
  <2>3. committed' + 0 = Len(readOut') + Pending'
    BY <1>1, <1>3, <1>4, <1>6, <2>1, <2>2
  <2> QED
    BY <1>2, <1>3, <2>3 DEF InvCount
<1>10. InvReader'
  BY <1>3 DEF InvReader
<1>11. InvUsed'
  <2> SUFFICES ASSUME NEW k \in 0 .. Pending - rtotal - 1
               PROVE  buf[Advance(tail', k)] = committed - (Pending - rtotal) + 1 + k
    BY <1>3, <1>6 DEF InvUsed
  <2>1. k \in Nat /\ rtotal + k \in 0 .. Pending - 1 /\ rtotal + k <= Capacity
    BY <1>1, <1>4, IndexIs
  <2>2. Advance(tail', k) = Advance(tail, rtotal + k)
    BY <1>1, <1>3, <2>1, AdvanceTwice
  <2>3. buf[Advance(tail, rtotal + k)] = committed - Pending + 1 + (rtotal + k)
    BY <1>2, <2>1 DEF InvUsed
  <2> QED
    BY <1>1, <2>1, <2>2, <2>3
<1>12. InvTransfer' /\ InvRead'
  BY <1>2, <1>3 DEF InvTransfer, InvRead
<1> QED
  BY <1>7, <1>8, <1>9, <1>10, <1>11, <1>12 DEF RxInv

-----------------------------------------------------------------------------

LEMMA InvStep ==
    ASSUME HostFits
    PROVE  RxInv /\ [RxNext]_vars => RxInv'
<1> SUFFICES ASSUME RxInv, [RxNext]_vars
             PROVE  RxInv'
  OBVIOUS
<1>1. CASE DataOut
  BY <1>1, DataOutStep
<1>2. ASSUME NEW n \in 1 .. MaxPacket, ReceivePacket(n)
      PROVE  RxInv'
  BY <1>2, PacketStep
<1>3. CASE ReadStart \/ ReadCount \/ ReadCompare \/ ReadGrant
  BY <1>3, ReserveStep
<1>4. CASE ReadCopy
  BY <1>4, CopyStep
<1>5. CASE ReadCommit
  BY <1>5, CommitStep
<1>6. CASE UNCHANGED vars
  BY <1>6 DEF vars, locals, RxInv, RxTypeOK, ArmedIsFree, InvCount, InvReader, InvUsed,
     InvTransfer, InvRead, Pending
<1> QED
  BY <1>1, <1>2, <1>3, <1>4, <1>5, <1>6 DEF RxNext, Usb, Read

LEMMA RxAlways ==
    ASSUME HostFits
    PROVE  RxSpec => []RxInv
BY InvInit, InvStep, PTL DEF RxSpec

\* The bytes are read in the order they were received, each once, and only
\* after they were committed.
THEOREM RxReadInOrder ==
    ASSUME HostFits
    PROVE  RxSpec => []RxInOrder
<1>1. RxInv => RxInOrder
  <2> SUFFICES ASSUME RxInv
               PROVE  RxInOrder
    OBVIOUS
  <2>1. InvCount /\ InvReader /\ InvRead
    BY DEF RxInv
  <2>2. committed \in Nat /\ Len(readOut) \in Nat /\ Pending \in Nat /\ rcount \in Nat /\ rtotal \in Nat
    BY Facts
  <2>3. CASE pc = "r_commit"
    <3>1. committed + rtotal = Len(readOut) + Pending
      BY <2>1, <2>3 DEF InvCount
    <3>2. rtotal <= rcount /\ rcount <= Pending
      BY <2>1, <2>3 DEF InvReader
    <3>3. Len(readOut) <= committed
      BY <2>2, <3>1, <3>2
    <3> QED
      BY <2>1, <3>3 DEF RxInOrder, InvRead
  <2>4. CASE pc # "r_commit"
    <3>1. committed + 0 = Len(readOut) + Pending
      BY <2>1, <2>4 DEF InvCount
    <3>2. Len(readOut) <= committed
      BY <2>2, <3>1
    <3> QED
      BY <2>1, <3>2 DEF RxInOrder, InvRead
  <2> QED
    BY <2>3, <2>4
<1> QED
  BY <1>1, RxAlways, PTL

-----------------------------------------------------------------------------
(* The receive path is a byte channel.                                     *)

\* What has been read is the first bytes committed, numbered from one, and
\* lags behind by no more than the ring holds.
ChannelState ==
    /\ readOut = Channel!Ordinals(Len(readOut))
    /\ Len(readOut) \in Nat /\ Len(readOut) <= committed
    /\ committed - Len(readOut) <= Capacity - 1

LEMMA ReadIsOrdinals ==
    ASSUME RxInv
    PROVE  readOut = Channel!Ordinals(Len(readOut))
<1>1. readOut \in [1 .. Len(readOut) -> 0 .. MaxBytes]
  BY Facts
<1>2. \A i \in 1 .. Len(readOut) : readOut[i] = i
  BY DEF RxInv, InvRead
<1> QED
  BY <1>1, <1>2 DEF Channel!Ordinals

LEMMA ReadBounds ==
    ASSUME RxInv
    PROVE  Len(readOut) <= committed /\ committed - Len(readOut) <= Capacity - 1
<1>1. /\ committed \in Nat /\ Len(readOut) \in Nat /\ Pending \in Nat /\ rcount \in Nat
      /\ rtotal \in Nat /\ Pending <= Capacity - 1 /\ Capacity \in Nat
  <2>1. Pending \in Index
    BY Facts
  <2> QED
    BY <2>1, Facts, IndexIs
<1>2. InvCount /\ InvReader
  BY DEF RxInv
<1>3. PICK l \in Nat : l = Len(readOut)
  BY <1>1
<1>4. CASE pc = "r_commit"
  <2>1. committed + rtotal = l + Pending /\ rtotal <= rcount /\ rcount <= Pending
    BY <1>2, <1>3, <1>4 DEF InvCount, InvReader
  <2>2. l <= committed /\ committed - l <= Capacity - 1
    BY <1>1, <2>1
  <2> QED
    BY <1>3, <2>2
<1>5. CASE pc # "r_commit"
  <2>1. committed + 0 = l + Pending
    BY <1>2, <1>3, <1>5 DEF InvCount
  <2>2. l <= committed /\ committed - l <= Capacity - 1
    BY <1>1, <2>1
  <2> QED
    BY <1>3, <2>2
<1> QED
  BY <1>4, <1>5

\* The completion is the channel's Accept, the copy its Deliver, and every
\* other step leaves the channel alone.
LEMMA RxSimulates ==
    RxInv /\ RxInv' /\ ChannelState /\ ChannelState' /\ [RxNext]_vars =>
        [Channel!ChanNext]_(Channel!chanVars)
<1> SUFFICES ASSUME RxInv, RxInv', ChannelState, ChannelState', [RxNext]_vars
             PROVE  Channel!ChanNext \/ (committed' = committed /\ readOut' = readOut)
  BY DEF Channel!chanVars
<1>1. CASE DataOut
  <2>1. committed' = committed + arm.got /\ readOut' = readOut
    BY <1>1 DEF DataOut
  <2>2. arm.got \in Nat /\ committed \in Nat
    BY Facts
  <2>3. committed' - Len(readOut') <= Capacity - 1
    BY DEF ChannelState
  <2>4. committed' \in 0 .. MaxBytes
    <3>1. RxTypeOK'
      BY DEF RxInv
    <3> QED
      BY <3>1, RxAssumption DEF RxTypeOK
  <2>5. CASE arm.got = 0
    BY <2>1, <2>2, <2>5
  <2>6. CASE arm.got # 0
    <3>1. committed' \in committed + 1 .. MaxBytes
      BY <2>1, <2>2, <2>4, <2>6
    <3> QED
      BY <2>1, <2>3, <3>1 DEF Channel!ChanNext, Channel!Accept
  <2> QED
    BY <2>5, <2>6
<1>2. CASE ReadCopy
  <2>1. committed' = committed /\ Len(readOut) \in Nat /\ committed \in Nat
    BY <1>2, Facts DEF ReadCopy, Stay
  <2>2. Len(readOut') \in Nat
    BY DEF ChannelState
  <2>3. Len(readOut') >= Len(readOut)
    <3>1. PICK l \in Nat, m \in Nat : l = Len(readOut) /\ m = Len(readOut')
      BY <2>1, <2>2
    <3>2. committed + 0 = l + Pending /\ committed + rtotal' = m + Pending
      <4>1. InvCount /\ InvCount' /\ pc = "r_copy" /\ pc' = "r_commit" /\ Pending' = Pending
        BY <1>2 DEF RxInv, ReadCopy, Stay, Pending
      <4> QED
        BY <2>1, <3>1, <4>1 DEF InvCount
    <3>3. rtotal' \in Nat /\ Pending \in Nat
      <4>1. RxTypeOK'
        BY DEF RxInv
      <4> QED
        BY <4>1, Facts, IndexIs DEF RxTypeOK
    <3>4. PICK c \in Nat, p \in Nat, r \in Nat : c = committed /\ p = Pending /\ r = rtotal'
      BY <2>1, <3>3
    <3>5. c + 0 = l + p /\ c + r = m + p
      BY <3>2, <3>4
    <3>6. m >= l
      BY <3>5
    <3> QED
      BY <3>1, <3>6
  <2>4. Len(readOut') <= committed'
    BY DEF ChannelState
  <2>5. readOut = Channel!Ordinals(Len(readOut)) /\ readOut' = Channel!Ordinals(Len(readOut'))
    BY DEF ChannelState, Channel!Ordinals
  <2>6. CASE Len(readOut') = Len(readOut)
    BY <2>1, <2>5, <2>6
  <2>7. CASE Len(readOut') # Len(readOut)
    <3>1. PICK l \in Nat, m \in Nat : l = Len(readOut) /\ m = Len(readOut')
      BY <2>1, <2>2
    <3>2. m \in l + 1 .. committed
      BY <2>1, <2>3, <2>4, <2>7, <3>1
    <3> QED
      BY <2>1, <2>5, <3>1, <3>2 DEF Channel!ChanNext, Channel!Deliver
  <2> QED
    BY <2>6, <2>7
<1>3. CASE \/ \E n \in 1 .. MaxPacket : ReceivePacket(n)
           \/ ReadStart \/ ReadCount \/ ReadCompare \/ ReadGrant \/ ReadCommit
           \/ UNCHANGED vars
  BY <1>3 DEF ReceivePacket, ReadStart, ReadCount, ReadCompare, ReadGrant, ReadCommit,
     Stay, vars
<1> QED
  BY <1>1, <1>2, <1>3 DEF RxNext, Usb, Read

\* Every behaviour of the receive path is one of the byte channel: the host's
\* bytes come out in order, each once, with less than a ring of them between.
THEOREM RxIsChannel ==
    ASSUME HostFits
    PROVE  RxSpec => Channel!ChanSafeSpec
<1>1. RxInit => Channel!ChanInit
  BY DEF RxInit, Channel!ChanInit
<1>2. RxInv => ChannelState
  BY ReadIsOrdinals, ReadBounds, Facts DEF ChannelState
<1> QED
  BY <1>1, <1>2, RxSimulates, RxAlways, PTL DEF RxSpec, Channel!ChanSafeSpec

=============================================================================
