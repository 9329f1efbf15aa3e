----------------------------- MODULE ReplayWindow ----------------------------
(***************************************************************************)
(* The sliding replay window: accept_work_sequence (net/net.c), which      *)
(* guards the binding of work connections, and udp_replay_accept, which    *)
(* guards the datagrams of a UDP session (the same function in             *)
(* server/server.c and client/client.c).                                   *)
(*                                                                         *)
(* The bitmap is the set of the ages, counted back from high, whose bit is *)
(* set.  Sequence numbers arrive in any order, any number of times: the    *)
(* work connections of a session race each other to the server.            *)
(***************************************************************************)
EXTENDS Integers

CONSTANTS
    Width,    \* bits of the bitmap (64)
    Window,   \* ages still looked up: 64, or CONFIG_UDP_REPLAY_WINDOW
    MaxSeq    \* bound: the largest sequence number that arrives

ASSUME WindowAssumption ==
    /\ Width \in Nat \ {0}
    /\ Window \in Nat \ {0}
    /\ MaxSeq \in Nat

VARIABLES
    high,      \* work_rx_high, rx_high
    bitmap,    \* work_rx_bitmap, rx_bitmap
    last,      \* the last number that arrived and the verdict on it
    accepted,  \* history: the numbers accepted so far
    twice      \* history: the numbers accepted more than once

windowVars == <<high, bitmap, last, accepted, twice>>

WindowInit ==
    /\ high = 0 /\ bitmap = {}
    /\ last = [seq |-> 0, ok |-> FALSE]
    /\ accepted = {} /\ twice = {}

\* Faulty: the bitmap is replaced instead of shifted.
ShiftedAway(shift) == {}

\* bitmap << shift, the bits past the width dropped.
Shifted(shift) == {age \in 0..(Width - 1) : age - shift \in bitmap}

\* UINT64_C(1) << age.  Past the width the shift is undefined: the machine
\* reduces the count, or the compiler makes the result 0.
Bits(age) == IF age < Width THEN {{age}} ELSE {{age % Width}, {}}

Verdict(seq, ok) ==
    /\ last' = [seq |-> seq, ok |-> ok]
    /\ accepted' = IF ok THEN accepted \cup {seq} ELSE accepted
    /\ twice' = IF ok /\ seq \in accepted THEN twice \cup {seq} ELSE twice

\* A number above all the earlier ones moves the window.
Advance(seq) ==
    /\ seq > high
    /\ bitmap' = (IF seq - high >= Width THEN {} ELSE Shifted(seq - high)) \cup {0}
    /\ high' = seq
    /\ Verdict(seq, TRUE)

\* Faulty: an accepted number is not marked.
LookUpUnmarked(seq) ==
    /\ seq > 0 /\ seq <= high /\ high - seq < Window
    /\ Verdict(seq, high - seq \notin bitmap)
    /\ UNCHANGED <<high, bitmap>>

\* Faulty: every number that is not the newest is refused.
LookUpNewest(seq) ==
    /\ seq > 0 /\ seq <= high /\ high - seq < Window
    /\ Verdict(seq, FALSE)
    /\ UNCHANGED <<high, bitmap>>

\* A number in the window is accepted when its bit is clear.
LookUp(seq) ==
    /\ seq > 0 /\ seq <= high /\ high - seq < Window
    /\ \E bit \in Bits(high - seq) :
          IF bit \cap bitmap # {}
          THEN UNCHANGED bitmap /\ Verdict(seq, FALSE)
          ELSE bitmap' = bitmap \cup bit /\ Verdict(seq, TRUE)
    /\ UNCHANGED high

\* Zero, or a number that fell out of the window.
Refuse(seq) ==
    /\ seq = 0 \/ (seq <= high /\ high - seq >= Window)
    /\ UNCHANGED <<high, bitmap>>
    /\ Verdict(seq, FALSE)

WindowNext == \E seq \in 0..MaxSeq : Advance(seq) \/ LookUp(seq) \/ Refuse(seq)

WindowSpec == WindowInit /\ [][WindowNext]_windowVars
-----------------------------------------------------------------------------
(***************************************************************************)
(* Properties.                                                             *)
(***************************************************************************)

\* The bitmap never holds a bit outside its width.
WindowTypeOK ==
    /\ high \in Nat
    /\ bitmap \subseteq 0..(Width - 1)
    /\ last \in [seq : Nat, ok : BOOLEAN]
    /\ accepted \subseteq Nat
    /\ twice \subseteq Nat

\* The bitmap remembers exactly the accepted numbers that are younger than
\* its width, whatever the order in which they came.
BitmapExact ==
    /\ accepted \subseteq 1..high
    /\ bitmap = {age \in 0..(Width - 1) : high - age \in accepted}

\* No number is accepted twice: a work bind or a datagram that is delivered
\* again is dropped, however late.
AtMostOnce == twice = {}

\* A number that is new and still in the window is never refused, so work
\* connections that overtake each other all bind.
FreshAccepted ==
    [][ /\ last'.seq > 0
        /\ last'.seq \notin accepted
        /\ last'.seq + Window > high
        => last'.ok ]_windowVars
==============================================================================
