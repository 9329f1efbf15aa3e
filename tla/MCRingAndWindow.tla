--------------------------- MODULE MCRingAndWindow ---------------------------
(***************************************************************************)
(* The two data structures under the rest of the program, each by itself.  *)
(* ct_ring has a three-byte array, two byte values and requests one longer *)
(* than the array, so that every wrap-around and every short write or read *)
(* happens.  The replay window has a four-bit bitmap and numbers up to     *)
(* twice that, so that the window moves by less than, exactly and more     *)
(* than its width.                                                         *)
(*                                                                         *)
(* They share no variable, so one is enough to move while the other is     *)
(* empty.                                                                  *)
(***************************************************************************)
EXTENDS Ring, ReplayWindow

RingStep   == Next /\ high = 0 /\ UNCHANGED windowVars
WindowStep == WindowNext /\ len + head + count = 0 /\ UNCHANGED vars

RingAndWindowInit == Init /\ WindowInit

RingAndWindowSpec ==
    RingAndWindowInit /\ [][RingStep \/ WindowStep]_<<vars, windowVars>>
==============================================================================
