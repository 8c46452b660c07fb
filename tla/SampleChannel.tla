---------------------------- MODULE SampleChannel ----------------------------
(***************************************************************************)
(* What the DAQ codec promises: the blocks handed out are runs of samples  *)
(* that were accepted, each starting at the sample its counter names, in   *)
(* order; and, when no chunk is lost, no accepted sample is left out. The  *)
(* last block may be handed out again (a stutter here).                    *)
(***************************************************************************)
EXTENDS Integers, Sequences

CONSTANTS Vectors, MaxOffered

VARIABLES lossy,     \* the link may lose chunks
          offered,   \* the samples offered so far, and whether each was accepted
          last       \* the last block handed out: the samples from index counter on

chanVars == <<lossy, offered, last>>

End(b) == b.counter + Len(b.samples)

IsRun(b) ==
    /\ b.samples # << >> /\ End(b) <= Len(offered)
    /\ \A j \in 1 .. Len(b.samples) :
         offered[b.counter + j] = [sample |-> b.samples[j], accepted |-> TRUE]

\* No accepted sample lies between the last block and b.
Follows(b) == \A i \in End(last) + 1 .. b.counter : ~offered[i].accepted

ChanInit ==
    /\ lossy \in BOOLEAN /\ offered = << >>
    /\ last = [counter |-> 0, samples |-> << >>]

Offer ==
    /\ Len(offered) < MaxOffered
    /\ \E v \in Vectors, ok \in BOOLEAN :
         offered' = Append(offered, [sample |-> v, accepted |-> ok])
    /\ UNCHANGED <<lossy, last>>

HandOut ==
    /\ last'.counter >= End(last) /\ IsRun(last')
    /\ ~lossy => Follows(last')
    /\ UNCHANGED <<lossy, offered>>

ChanNext == Offer \/ HandOut

ChanSpec == ChanInit /\ [][ChanNext]_chanVars
=============================================================================
