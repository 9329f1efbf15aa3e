------------------------------- MODULE MCTunnel ------------------------------
(***************************************************************************)
(* Two users, a pool of one and a fault.                                   *)
(***************************************************************************)
EXTENDS Tunnel
==============================================================================
