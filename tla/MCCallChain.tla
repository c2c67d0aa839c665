----------------------------- MODULE MCCallChain -----------------------------
(* A small instance of CallChain for TLC. *)
EXTENDS CallChain
=============================================================================
