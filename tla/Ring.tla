-------------------------------- MODULE Ring ---------------------------------
(***************************************************************************)
(* ct_ring (util/ring.c): a byte queue in a fixed array, described by the  *)
(* index of its oldest byte and its length.  Every copy is at most two     *)
(* memcpy calls, one up to the end of the array and one from its start.    *)
(*                                                                         *)
(* Abstract is BoundedFifo with the queue read off the array; Implements   *)
(* says that every call of ct_ring does what the abstract queue allows.    *)
(***************************************************************************)
EXTENDS Naturals, Sequences

CONSTANTS
    Cap,      \* r->cap
    Byte,     \* the byte values told apart
    MaxArg    \* bound: the longest src or dst a caller passes

ASSUME RingAssumption ==
    /\ Cap \in Nat \ {0}
    /\ MaxArg \in Nat
    /\ Byte # {}

VARIABLES
    data,     \* r->data, indexed from 0
    head,     \* r->head
    len,      \* r->len
    count,    \* the return value of the last call
    dst       \* the bytes the last call copied out or pointed at

vars == <<data, head, len, count, dst>>

Index == 0..(Cap - 1)

Requests == UNION {[1..n -> Byte] : n \in 0..MaxArg}

Lesser(a, b) == IF a < b THEN a ELSE b

\* The k bytes that two memcpy calls starting at index head copy out.
CopyOut(k) ==
    LET a == Lesser(Cap - head, k) IN
    [i \in 1..k |-> IF i <= a THEN data[head + i - 1] ELSE data[i - a - 1]]

(***************************************************************************)
(* The calls.                                                              *)
(***************************************************************************)

\* ct_ring_init: malloc leaves the array's bytes unspecified.
Init ==
    /\ data \in [Index -> Byte]
    /\ head = 0 /\ len = 0
    /\ count = 0 /\ dst = <<>>

\* Faulty: the request is not cut to the free space.
write_uncut(src) ==
    LET n == Len(src) IN
    /\ data' = [i \in Index |-> IF len <= i /\ i < len + n THEN src[i - len + 1] ELSE data[i]]
    /\ len' = len + n /\ count' = n /\ dst' = <<>>
    /\ UNCHANGED head

\* Faulty: the tail is taken to be the length, as if the head were still 0.
write_from_start(src) ==
    LET n    == Lesser(Len(src), Cap - len)
        tail == len % Cap
        a    == Lesser(Cap - tail, n)
    IN
    /\ data' = [i \in Index |->
                  IF tail <= i /\ i < tail + a THEN src[i - tail + 1]
                  ELSE IF i < n - a THEN src[a + i + 1]
                  ELSE data[i]]
    /\ len' = len + n /\ count' = n /\ dst' = <<>>
    /\ UNCHANGED head

ct_ring_write(src) ==
    LET n    == Lesser(Len(src), Cap - len)
        tail == (head + len) % Cap
        a    == Lesser(Cap - tail, n)
    IN
    /\ data' = [i \in Index |->
                  IF tail <= i /\ i < tail + a THEN src[i - tail + 1]
                  ELSE IF i < n - a THEN src[a + i + 1]
                  ELSE data[i]]
    /\ len' = len + n
    /\ count' = n
    /\ dst' = <<>>
    /\ UNCHANGED head

ct_ring_read(n) ==
    LET k == Lesser(n, len) IN
    /\ dst' = CopyOut(k)
    /\ head' = (head + k) % Cap
    /\ len' = len - k
    /\ count' = k
    /\ UNCHANGED data

\* Only the bytes up to the end of the array are exposed.
ct_ring_peek ==
    LET k == Lesser(Cap - head, len) IN
    /\ count' = k
    /\ dst' = CopyOut(k)
    /\ UNCHANGED <<data, head, len>>

ct_ring_consume(n) ==
    LET k == Lesser(n, len) IN
    /\ head' = (head + k) % Cap
    /\ len' = len - k
    /\ count' = 0
    /\ dst' = <<>>
    /\ UNCHANGED data

Next ==
    \/ \E src \in Requests : ct_ring_write(src)
    \/ \E n \in 0..MaxArg : ct_ring_read(n) \/ ct_ring_consume(n)
    \/ ct_ring_peek

Spec == Init /\ [][Next]_vars

(***************************************************************************)
(* Properties.                                                             *)
(***************************************************************************)

\* The CT_ASSERT at the head of ct_ring_write and ct_ring_read: the oldest
\* byte's index stays inside the array and the length never exceeds it.
TypeOK ==
    /\ data \in [Index -> Byte]
    /\ head \in Index
    /\ len \in 0..Cap
    /\ count \in Nat
    /\ dst \in Seq(Byte)

\* The queue the array stands for.
Contents == [i \in 1..len |-> data[(head + i - 1) % Cap]]

Abstract == INSTANCE BoundedFifo WITH queue <- Contents

\* Across any sequence of calls, wrap-around included, ct_ring behaves as a
\* first-in first-out queue of at most Cap bytes: bytes come out once, in the
\* order they went in, and a short write keeps exactly the prefix it reports.
Implements == Abstract!Spec
==============================================================================
