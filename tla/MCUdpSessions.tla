---------------------------- MODULE MCUdpSessions ----------------------------
(***************************************************************************)
(* Two services, the second with room for two sessions, and two endpoints. *)
(***************************************************************************)
EXTENDS UdpSessions, TLC

CONSTANTS a, b, p, q

MCServices == {a, b}
MCLimit    == a :> 1 @@ b :> 2
MCPeers    == {p, q}

Symmetry == Permutations(MCPeers)
==============================================================================
