---------------------------- MODULE FdRingProofs ----------------------------
(* Facts about the ring's index arithmetic, for every capacity.            *)
EXTENDS FdRing, TLAPS

\* The first region is never longer than the count.
LEMMA FirstPartType ==
    ASSUME NEW c \in Nat, NEW n \in Nat
    PROVE  FirstPart(c, n) \in 0 .. n
BY DEF FirstPart

\* The number of used slots is in range, and zero exactly when the indices
\* meet: fd_ring_size of any two indices.
LEMMA RingSizeType ==
    ASSUME NEW h \in Index, NEW t \in Index
    PROVE  /\ RingSize(h, t) \in Index
           /\ RingFree(h, t) \in Index
           /\ RingSize(h, t) + RingFree(h, t) = Capacity - 1
           /\ RingSize(h, t) = 0 <=> h = t
BY CapacityAssumption DEF RingSize, RingFree, Index

\* A commit of at most a full ring keeps an index inside the storage.
LEMMA AdvanceType ==
    ASSUME NEW i \in Index, NEW n \in 0 .. Capacity
    PROVE  Advance(i, n) \in Index
BY CapacityAssumption DEF Advance, Index

\* fd_ring_write_commit of no more than the free slots adds exactly that many
\* used slots.
LEMMA WriteCommitSize ==
    ASSUME NEW h \in Index, NEW t \in Index, NEW n \in 0 .. RingFree(h, t)
    PROVE  RingSize(Advance(h, n), t) = RingSize(h, t) + n
BY CapacityAssumption DEF Advance, Index, RingSize, RingFree

\* fd_ring_read_commit of no more than the used slots removes exactly that many.
LEMMA ReadCommitSize ==
    ASSUME NEW h \in Index, NEW t \in Index, NEW n \in 0 .. RingSize(h, t)
    PROVE  RingSize(h, Advance(t, n)) = RingSize(h, t) - n
BY CapacityAssumption DEF Advance, Index, RingSize

\* Moving an index in two steps or in one is the same.
LEMMA AdvanceTwice ==
    ASSUME NEW i \in Index, NEW m \in Nat, NEW n \in Nat, m + n <= Capacity
    PROVE  Advance(Advance(i, m), n) = Advance(i, m + n)
BY CapacityAssumption DEF Advance, Index

\* Different distances below the capacity reach different slots.
LEMMA AdvanceInjective ==
    ASSUME NEW i \in Index, NEW m \in Index, NEW n \in Index, m # n
    PROVE  Advance(i, m) # Advance(i, n)
BY CapacityAssumption DEF Advance, Index

\* The head lies RingSize slots after the tail.
LEMMA HeadFromTail ==
    ASSUME NEW h \in Index, NEW t \in Index
    PROVE  Advance(t, RingSize(h, t)) = h
BY CapacityAssumption DEF Advance, Index, RingSize

\* What read_reserve returns as first region when nobody moves the head
\* between its reads: at least one and at most all used slots, contiguous.
LEMMA ReadGrantBounds ==
    ASSUME NEW h \in Index, NEW t \in Index, h # t
    PROVE  /\ FirstPart(ReadCont(t, h, h), RingSize(h, t)) \in 1 .. RingSize(h, t)
           /\ t + FirstPart(ReadCont(t, h, h), RingSize(h, t)) <= Capacity
<1>1. CASE t >= h
  BY <1>1, CapacityAssumption DEF FirstPart, ReadCont, RingSize, Index
<1>2. CASE t < h
  <2>1. U16(h - t) = h - t
    BY <1>2, CapacityAssumption DEF U16, Index
  <2> QED BY <1>2, <2>1, CapacityAssumption DEF FirstPart, ReadCont, RingSize, Index
<1> QED BY <1>1, <1>2 DEF Index

\* A count that fits ends below a tail that lies above the head.
LEMMA FitsBelowTail ==
    ASSUME NEW h \in Index, NEW t \in Index, NEW n \in 1 .. RingFree(h, t), h < t
    PROVE  h + n < t
BY CapacityAssumption DEF RingFree, RingSize, Index

\* The contiguous space write_reserve computes from a comparison with an old
\* tail and a subtraction of a newer one, for a count that fits the free
\* slots of both moments: the first region never leaves the storage and ends
\* at the storage's end when there is a second one.
LEMMA WriteGrantShape ==
    ASSUME NEW h \in Index, NEW old \in Index, NEW t \in Index,
           NEW n \in 1 .. RingFree(h, t),
           h < old => h + n < old
    PROVE  \/ /\ FirstPart(WriteCont(h, old, t), n) = n
              /\ h + n <= Capacity
           \/ /\ FirstPart(WriteCont(h, old, t), n) < n
              /\ FirstPart(WriteCont(h, old, t), n) = Capacity - h
<1>1. CASE h >= old
  BY <1>1, CapacityAssumption DEF FirstPart, WriteCont, RingSize, RingFree, Index
<1>2. CASE h < old /\ t > h
  <2>1. U16(t - h - 1) = t - h - 1
    BY <1>2, CapacityAssumption DEF U16, Index
  <2> QED BY <1>2, <2>1, CapacityAssumption
          DEF FirstPart, WriteCont, RingSize, RingFree, Index
<1>3. CASE h < old /\ t <= h
  <2>1. U16(t - h - 1) = t - h - 1 + 65536
    BY <1>3, CapacityAssumption DEF U16, Index
  <2> QED BY <1>3, <2>1, CapacityAssumption
          DEF FirstPart, WriteCont, RingSize, RingFree, Index
<1> QED BY <1>1, <1>2, <1>3 DEF Index

\* cont_space is never negative, so the first region stays within the count.
LEMMA WriteContNat ==
    ASSUME NEW h \in Index, NEW a \in Index, NEW b \in Index, NEW n \in Index
    PROVE  FirstPart(WriteCont(h, a, b), n) \in 0 .. n
<1>1. h \in Nat /\ a \in Nat /\ b \in Nat /\ n \in Nat /\ h < Capacity
  BY CapacityAssumption DEF Index
<1>2. WriteCont(h, a, b) \in Nat
  <2>1. CASE h >= a
    BY <1>1, <2>1, CapacityAssumption DEF WriteCont
  <2>2. CASE ~(h >= a)
    <3>1. PICK d \in Int : d = b - h - 1
      BY <1>1
    <3>2. U16(d) \in Nat
      BY DEF U16
    <3>3. WriteCont(h, a, b) = U16(d)
      BY <1>1, <2>2, <3>1 DEF WriteCont
    <3> QED BY <3>2, <3>3
  <2> QED BY <2>1, <2>2
<1> QED BY <1>1, <1>2, FirstPartType

\* Such a grant covers exactly the slots the commit will publish.
LEMMA GrantCovers ==
    ASSUME NEW h \in Index, NEW c \in Index, NEW n \in Index,
           (c = n /\ h + n <= Capacity) \/ (c < n /\ c = Capacity - h),
           NEW k \in 0 .. n - 1
    PROVE  GrantSlot(h, c, k) = Advance(h, k)
BY CapacityAssumption DEF GrantSlot, Advance, Index
=============================================================================
