---------------------------- MODULE MCLiveSession ----------------------------
(* Small instances of LiveSession for TLC. *)
EXTENDS LiveSession, TLC

Symmetry == Permutations(Speaker) \union Permutations(Closer)
=============================================================================
