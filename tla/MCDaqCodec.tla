----------------------------- MODULE MCDaqCodec -----------------------------
(* DaqCodec with one channel on a link that loses a chunk, two on one that *)
(* does not, and one whose residuals are in the gap of the code.           *)
EXTENDS DaqCodec

MCOne == [channels |-> 1, ring |-> 32, markRing |-> 8, period |-> 3, readSize |-> 9,
          block |-> 12, losses |-> 1, vectors |-> {<<0>>, <<1000>>}]
MCTwo == [channels |-> 2, ring |-> 64, markRing |-> 16, period |-> 3, readSize |-> 13,
          block |-> 4, losses |-> 0, vectors |-> {<<0, 1000>>, <<1000, 0>>}]
MCGap == [MCTwo EXCEPT !.vectors = {<<0, 0>>, <<120, 0>>}]

MCSetups == {MCOne, MCTwo}
MCGapSetups == {MCGap}
=============================================================================
