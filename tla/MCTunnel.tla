------------------------------- MODULE MCTunnel -------------------------------
(* A small instance of Tunnel for TLC. *)
EXTENDS Tunnel
=============================================================================
