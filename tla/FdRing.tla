------------------------------- MODULE FdRing -------------------------------
(***************************************************************************)
(* The byte ring of fdlib/fd/fd_ring.h: one producer owns head, one        *)
(* consumer owns tail, and one slot stays empty so that head = tail means  *)
(* empty.  The C functions become operators over the indices they read;    *)
(* where a function reads the other side's volatile index more than once,  *)
(* each read is a parameter of its own, so that a module using the ring    *)
(* can give every read the value of a different moment.                    *)
(***************************************************************************)
EXTENDS Integers

CONSTANT Capacity   \* cb->capacity: slots of the ring, one of them unused

ASSUME CapacityAssumption == Capacity \in 2 .. 32768

Index == 0 .. Capacity - 1

\* Assignment of a C int to a uint16_t.
U16(x) == x % 65536

RingSize(head, tail) == IF head >= tail THEN head - tail
                                        ELSE Capacity - tail + head

MutRingFree(head, tail) == Capacity - RingSize(head, tail)   \* mutant: no gap
RingFree(head, tail) == Capacity - RingSize(head, tail) - 1

MutAdvance(i, n) == i + n - (IF i + n > Capacity THEN Capacity ELSE 0)   \* mutant: wraps one late
\* Both commits: the new value of an index moved by n.
Advance(i, n) == i + n - (IF i + n >= Capacity THEN Capacity ELSE 0)

\* mutant: cont_space keeps the sign of the C int it is computed in
MutWriteCont(head, tailCmp, tailUse) ==
    IF head >= tailCmp THEN Capacity - head - (IF tailUse = 0 THEN 1 ELSE 0)
                       ELSE tailUse - head - 1

\* cont_space of fd_ring_write_reserve: tailCmp is the tail the comparison
\* read, tailUse the tail the subtraction read.
WriteCont(head, tailCmp, tailUse) ==
    IF head >= tailCmp THEN Capacity - head - (IF tailUse = 0 THEN 1 ELSE 0)
                       ELSE U16(tailUse - head - 1)

\* cont_space of fd_ring_read_reserve, the head read twice likewise.
ReadCont(tail, headCmp, headUse) ==
    IF tail >= headCmp THEN Capacity - tail ELSE U16(headUse - tail)

\* cont1: how much of count lies in the first of the two regions.
FirstPart(cont, count) == IF cont >= count THEN count ELSE cont

\* The slot of the k-th byte of a grant that starts at slot first and whose
\* second region, if any, starts at slot 0 after cont1 bytes.
GrantSlot(first, cont1, k) == IF k < cont1 THEN first + k ELSE k - cont1

\* The memory after memcpy of count bytes numbered from..from+count-1 into a
\* grant (writes past the storage are not part of the ring's memory).
CopyIn(buf, first, cont1, count, from) ==
    [i \in Index |-> IF i < count - cont1 THEN from + cont1 + i
                     ELSE IF i >= first /\ i < first + cont1
                          THEN from + (i - first)
                     ELSE buf[i]]
=============================================================================
