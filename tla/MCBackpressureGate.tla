------------------------- MODULE MCBackpressureGate -------------------------
(* Small instances of BackpressureGate for TLC. *)
EXTENDS BackpressureGate, TLC

CallSymmetry == Permutations(Call)
=============================================================================
