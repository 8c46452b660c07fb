------------------------------- MODULE MCMc3p -------------------------------
(* Mc3p with two samples for a sum, which 10 bits hold unless both are large. *)
EXTENDS Mc3p

MCScans == {<<3, 3, 600, 5>>, <<4, 600, 3, 5>>}
MCComponents == {-1, 0, 1}
=============================================================================
