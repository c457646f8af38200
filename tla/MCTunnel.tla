------------------------------- MODULE MCTunnel -------------------------------
(***************************************************************************)
(* Tunnel with two configurations (the active route and one to flee to).   *)
(***************************************************************************)
EXTENDS Tunnel
===============================================================================
