------------------------------ MODULE MCTransfer ------------------------------
(***************************************************************************)
(* Small instance of Transfer for TLC: two names that may be sent beside   *)
(* the empty one.                                                          *)
(***************************************************************************)
EXTENDS Transfer

MCNames == {"", "a", "b"}
=============================================================================
