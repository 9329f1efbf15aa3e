----------------------------- MODULE BoundedFifo -----------------------------
(***************************************************************************)
(* What a ring buffer promises its callers: a first-in first-out queue of  *)
(* at most Cap bytes.  A write takes the longest prefix that fits, a read  *)
(* or a peek hands out a prefix, a consume drops one.  count and dst are   *)
(* what the last call gave its caller: its return value and the bytes it   *)
(* copied or pointed at.                                                   *)
(***************************************************************************)
EXTENDS Naturals, Sequences

CONSTANTS
    Cap,      \* the capacity of the queue, in bytes
    Byte,     \* the set of byte values
    MaxArg    \* bound: the longest request a caller makes

VARIABLES
    queue,    \* the bytes held, oldest first
    count,    \* the last call's return value
    dst       \* the bytes the last call handed to its caller

vars == <<queue, count, dst>>

\* The byte strings a caller may write.
Requests == UNION {[1..n -> Byte] : n \in 0..MaxArg}

Lesser(a, b) == IF a < b THEN a ELSE b

Init == queue = <<>> /\ count = 0 /\ dst = <<>>

\* A write keeps the longest prefix of src that fits and reports its length.
Write(src) ==
    LET n == Lesser(Len(src), Cap - Len(queue)) IN
    /\ queue' = queue \o SubSeq(src, 1, n)
    /\ count' = n
    /\ dst' = <<>>

\* A read removes up to n bytes from the front and hands them over.
Read(n) ==
    LET k == Lesser(n, Len(queue)) IN
    /\ dst' = SubSeq(queue, 1, k)
    /\ queue' = SubSeq(queue, k + 1, Len(queue))
    /\ count' = k

\* A peek exposes some prefix, and a nonempty one whenever there is one.
Peek ==
    \E k \in 0..Len(queue) :
        /\ k = 0 => queue = <<>>
        /\ dst' = SubSeq(queue, 1, k)
        /\ count' = k
        /\ UNCHANGED queue

\* A consume drops up to n bytes from the front.
Consume(n) ==
    LET k == Lesser(n, Len(queue)) IN
    /\ queue' = SubSeq(queue, k + 1, Len(queue))
    /\ count' = 0
    /\ dst' = <<>>

Next ==
    \/ \E src \in Requests : Write(src)
    \/ \E n \in 0..MaxArg : Read(n) \/ Consume(n)
    \/ Peek

Spec == Init /\ [][Next]_vars
==============================================================================
