----------------------------- MODULE ByteChannel -----------------------------
(***************************************************************************)
(* What one direction of the USB exchange driver promises: a channel that  *)
(* hands over the bytes it accepted in order, each exactly once, holding   *)
(* at most Limit of them.  The n-th byte accepted is written n.            *)
(***************************************************************************)
EXTENDS Integers, Sequences

CONSTANT Limit, MaxBytes

VARIABLES accepted,   \* number of bytes taken in so far
          delivered   \* the bytes handed over so far

chanVars == <<accepted, delivered>>

Ordinals(n) == [i \in 1 .. n |-> i]

ChanInit == accepted = 0 /\ delivered = << >>

Accept == /\ accepted' \in accepted + 1 .. MaxBytes
          /\ accepted' - Len(delivered) <= Limit
          /\ UNCHANGED delivered

Deliver == /\ \E n \in Len(delivered) + 1 .. accepted : delivered' = Ordinals(n)
           /\ UNCHANGED accepted

ChanNext == Accept \/ Deliver

ChanSafeSpec == ChanInit /\ [][ChanNext]_chanVars

ChanSpec == ChanSafeSpec /\ WF_chanVars(Deliver)
=============================================================================
