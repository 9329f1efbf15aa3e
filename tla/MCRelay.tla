------------------------------- MODULE MCRelay -------------------------------
(***************************************************************************)
(* One relay with a two-byte CHUNK, a one-byte header and a one-byte tag.  *)
(***************************************************************************)
EXTENDS Relay
==============================================================================
