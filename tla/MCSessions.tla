------------------------------ MODULE MCSessions -----------------------------
(***************************************************************************)
(* Two clients, the first with two services of which udp is a UDP one.     *)
(***************************************************************************)
EXTENDS Sessions

MCServicesLast  == [c \in Clients |-> IF c = 1 THEN <<"tcp1", "udp">> ELSE <<"tcp2">>]
MCServicesFirst == [c \in Clients |-> IF c = 1 THEN <<"udp", "tcp1">> ELSE <<"tcp2">>]
MCAllowed       == [c \in Clients |-> {"tcp1", "tcp2", "udp"}]
==============================================================================
