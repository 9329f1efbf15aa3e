------------------------------ MODULE MCControl ------------------------------
(***************************************************************************)
(* The two ends, with the shortest timeout that is ample.                  *)
(***************************************************************************)
EXTENDS Control
==============================================================================
