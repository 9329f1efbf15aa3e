----------------------------- MODULE MCServerPeer ----------------------------
(***************************************************************************)
(* One client with two streams and the descriptors they need.              *)
(***************************************************************************)
EXTENDS ServerPeer
==============================================================================
