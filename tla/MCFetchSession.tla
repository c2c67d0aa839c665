--------------------------- MODULE MCFetchSession ---------------------------
(* Small instances of FetchSession for TLC. *)
EXTENDS FetchSession, TLC

CallSymmetry == Permutations(Call)
=============================================================================
