-------------------------- MODULE RingAndWindowProofs ------------------------
(***************************************************************************)
(* The two data structures the rest of the program leans on.  ct_ring is a *)
(* bounded first-in first-out queue, for every capacity, byte set and      *)
(* request length.  The replay window accepts every number at most once    *)
(* and refuses no new number in the window, for every bitmap width, every  *)
(* window no wider than the bitmap and every order of arrival.             *)
(***************************************************************************)
EXTENDS Ring, ReplayWindow, SequenceTheorems, TLAPS

-----------------------------------------------------------------------------
(***************************************************************************)
(* The ring.                                                               *)
(***************************************************************************)
\* An index that ran past the end of the array at most once wraps to the
\* same place whether it is reduced with % or by one subtraction.
LEMMA Wrap ==
    ASSUME NEW x \in Nat, x < 2 * Cap
    PROVE  x % Cap = IF x < Cap THEN x ELSE x - Cap
BY RingAssumption

\* What the two memcpy calls of a read hand over.
LEMMA CopyOutType ==
    ASSUME TypeOK, NEW k \in 0..len
    PROVE  /\ CopyOut(k) \in [1..k -> Byte]
           /\ CopyOut(k) \in Seq(Byte)
           /\ Len(CopyOut(k)) = k
<1>1. k \in Nat
  BY DEF TypeOK
<1>2. CopyOut(k) \in [1..k -> Byte]
  BY RingAssumption DEF CopyOut, TypeOK, Index, Lesser
<1> QED
  BY <1>1, <1>2, SeqDef, LenProperties

LEMMA WriteType ==
    ASSUME TypeOK, NEW src \in Requests, ct_ring_write(src)
    PROVE  TypeOK'
<1> USE RingAssumption
<1> DEFINE n    == Lesser(Len(src), Cap - len)
           tail == (head + len) % Cap
           a    == Lesser(Cap - tail, n)
<1>1. PICK m \in 0..MaxArg : src \in [1..m -> Byte]
  BY DEF Requests
<1>2. src \in Seq(Byte) /\ Len(src) = m
  BY <1>1
<1>3. n \in Nat /\ n <= Cap - len /\ n <= Len(src)
  BY <1>1, <1>2 DEF Lesser, TypeOK
<1>4. tail \in Index
  BY Wrap DEF TypeOK, Index
<1>5. a \in Nat /\ a <= n /\ a <= Cap - tail
  BY <1>3, <1>4 DEF Lesser, Index
<1>6. data' \in [Index -> Byte]
  <2> HIDE DEF n, tail, a
  <2> SUFFICES ASSUME NEW i \in Index
               PROVE  (IF tail <= i /\ i < tail + a THEN src[i - tail + 1]
                       ELSE IF i < n - a THEN src[a + i + 1]
                       ELSE data[i]) \in Byte
    BY DEF ct_ring_write, n, tail, a
  <2> QED
    BY <1>1, <1>2, <1>3, <1>4, <1>5 DEF TypeOK, Index
<1> QED
  BY <1>3, <1>6 DEF ct_ring_write, TypeOK

LEMMA TypeStep == TypeOK /\ [Next]_vars => TypeOK'
<1> SUFFICES ASSUME TypeOK, [Next]_vars PROVE TypeOK'
  OBVIOUS
<1> USE RingAssumption
<1>2. ASSUME NEW n \in 0..MaxArg, ct_ring_read(n) PROVE TypeOK'
  <2>1. Lesser(n, len) \in 0..len
    BY DEF Lesser, TypeOK
  <2>2. (head + Lesser(n, len)) % Cap \in Index
    BY <2>1, Wrap DEF TypeOK, Index
  <2> QED
    BY <1>2, <2>1, <2>2, CopyOutType DEF ct_ring_read, TypeOK
<1>3. ASSUME NEW n \in 0..MaxArg, ct_ring_consume(n) PROVE TypeOK'
  <2>1. Lesser(n, len) \in 0..len
    BY DEF Lesser, TypeOK
  <2>2. (head + Lesser(n, len)) % Cap \in Index
    BY <2>1, Wrap DEF TypeOK, Index
  <2> QED
    BY <1>3, <2>1, <2>2 DEF ct_ring_consume, TypeOK
<1>4. CASE ct_ring_peek
  <2>1. Lesser(Cap - head, len) \in 0..len
    BY DEF Lesser, TypeOK, Index
  <2> QED
    BY <1>4, <2>1, CopyOutType DEF ct_ring_peek, TypeOK
<1>5. CASE UNCHANGED vars
  BY <1>5 DEF vars, TypeOK
<1> QED
  BY WriteType, <1>2, <1>3, <1>4, <1>5 DEF Next

-----------------------------------------------------------------------------
(***************************************************************************)
(* The queue the array stands for.                                         *)
(***************************************************************************)

\* Contents is a byte string of length len whose i-th byte is found by one
\* subtraction at most.
ContentsShape ==
    /\ Contents \in Seq(Byte)
    /\ Len(Contents) = len
    /\ \A i \in 1..len :
          Contents[i] = data[IF head + i - 1 < Cap THEN head + i - 1
                             ELSE head + i - 1 - Cap]

LEMMA ContentsType == TypeOK => ContentsShape
<1> HAVE TypeOK
<1> USE RingAssumption
<1>1. \A i \in 1..len : (head + i - 1) % Cap = IF head + i - 1 < Cap THEN head + i - 1
                                               ELSE head + i - 1 - Cap
  <2> SUFFICES ASSUME NEW i \in 1..len
               PROVE  (head + i - 1) % Cap = IF head + i - 1 < Cap THEN head + i - 1
                                             ELSE head + i - 1 - Cap
    OBVIOUS
  <2>1. head \in Nat /\ i \in Nat /\ head + i - 1 \in Nat /\ head + i - 1 < 2 * Cap
    BY DEF TypeOK, Index
  <2> QED
    BY <2>1, Wrap
<1>2. Contents \in [1..len -> Byte]
  <2> SUFFICES ASSUME NEW i \in 1..len PROVE data[(head + i - 1) % Cap] \in Byte
    BY DEF Contents
  <2>1. (head + i - 1) % Cap \in Index
    BY <1>1 DEF TypeOK, Index
  <2> QED
    BY <2>1 DEF TypeOK
<1>3. len \in Nat
  BY DEF TypeOK
<1>4. Contents \in Seq(Byte) /\ Len(Contents) = len
  BY <1>2, <1>3
<1> QED
  BY <1>1, <1>4 DEF Contents, ContentsShape

LEMMA ContentsTypeNext == TypeOK' => ContentsShape'
BY ContentsType, PTL

\* The bytes copied out are the front of the queue.
LEMMA CopyOutIsPrefix ==
    ASSUME TypeOK, NEW k \in 0..len
    PROVE  CopyOut(k) = SubSeq(Contents, 1, k)
<1> USE RingAssumption
<1>1. k \in Nat /\ k <= len /\ len \in Nat
  BY DEF TypeOK
<1>2. /\ SubSeq(Contents, 1, k) \in Seq(Byte)
      /\ Len(SubSeq(Contents, 1, k)) = k
      /\ \A i \in 1..k : SubSeq(Contents, 1, k)[i] = Contents[i]
  BY <1>1, ContentsType, SubSeqProperties DEF ContentsShape
<1>3. \A i \in 1..k : CopyOut(k)[i] = Contents[i]
  BY <1>1, ContentsType DEF CopyOut, Lesser, TypeOK, Index, ContentsShape
<1> QED
  BY <1>1, <1>2, <1>3, CopyOutType, SeqEqual

\* Moving the head by k and then looking at byte i is looking at byte k + i.
LEMMA WrapTwice ==
    ASSUME NEW h \in Nat, NEW k \in Nat, NEW i \in Nat, NEW g \in Nat,
           h < Cap, i >= 1, k + i <= Cap,
           g = IF h + k < Cap THEN h + k ELSE h + k - Cap
    PROVE  (IF g + i - 1 < Cap THEN g + i - 1 ELSE g + i - 1 - Cap)
             = (IF h + (k + i) - 1 < Cap THEN h + (k + i) - 1 ELSE h + (k + i) - 1 - Cap)
BY RingAssumption

\* Advancing the head by k drops the k oldest bytes.
LEMMA DropFront ==
    ASSUME TypeOK, TypeOK', NEW k \in 0..len,
           data' = data, head' = (head + k) % Cap, len' = len - k
    PROVE  Contents' = SubSeq(Contents, k + 1, Len(Contents))
<1> USE RingAssumption
<1>1. k \in Nat /\ k <= len /\ len \in Nat /\ len' \in Nat
  BY DEF TypeOK
<1>2. head' = IF head + k < Cap THEN head + k ELSE head + k - Cap
  <2>1. head \in Nat /\ k \in Nat /\ head + k \in Nat /\ head + k < 2 * Cap
    BY DEF TypeOK, Index
  <2> QED
    BY <2>1, Wrap
<1>3. /\ Contents' \in Seq(Byte)
      /\ Len(Contents') = len - k
      /\ \A i \in 1..(len - k) :
            Contents'[i] = data[IF head' + i - 1 < Cap THEN head' + i - 1
                                ELSE head' + i - 1 - Cap]
  <2>1. \A i \in 1..len' : (head' + i - 1) % Cap = IF head' + i - 1 < Cap THEN head' + i - 1
                                                  ELSE head' + i - 1 - Cap
    <3> SUFFICES ASSUME NEW i \in 1..len'
                 PROVE  (head' + i - 1) % Cap = IF head' + i - 1 < Cap THEN head' + i - 1
                                                ELSE head' + i - 1 - Cap
      OBVIOUS
    <3>1. head' + i - 1 \in Nat /\ head' + i - 1 < 2 * Cap
      BY DEF TypeOK, Index
    <3> QED
      BY <3>1, Wrap
  <2>2. Contents' \in [1..len' -> Byte]
    BY <2>1 DEF TypeOK, Index, Contents
  <2> QED
    BY <1>1, <2>1, <2>2 DEF Contents
<1>4. /\ SubSeq(Contents, k + 1, len) \in Seq(Byte)
      /\ Len(SubSeq(Contents, k + 1, len)) = len - k
      /\ \A i \in 1..(len - k) : SubSeq(Contents, k + 1, len)[i] = Contents[k + i]
  BY <1>1, ContentsType, SubSeqProperties DEF ContentsShape
<1>5. \A i \in 1..(len - k) : Contents'[i] = Contents[k + i]
  <2> SUFFICES ASSUME NEW i \in 1..(len - k)
               PROVE  Contents'[i] = Contents[k + i]
    OBVIOUS
  <2>1. k + i \in 1..len /\ head \in Nat /\ head < Cap /\ i \in Nat
    BY <1>1 DEF TypeOK, Index
  <2>2. Contents'[i] = data[IF head' + i - 1 < Cap THEN head' + i - 1
                            ELSE head' + i - 1 - Cap]
    BY <1>3
  <2>3. Contents[k + i] = data[IF head + (k + i) - 1 < Cap THEN head + (k + i) - 1
                               ELSE head + (k + i) - 1 - Cap]
    BY <2>1, ContentsType DEF ContentsShape
  <2>4. (IF head' + i - 1 < Cap THEN head' + i - 1 ELSE head' + i - 1 - Cap)
          = (IF head + (k + i) - 1 < Cap THEN head + (k + i) - 1
             ELSE head + (k + i) - 1 - Cap)
    <3>1. head' \in Nat /\ k + i <= Cap /\ i >= 1
      BY <1>1, <2>1 DEF TypeOK, Index
    <3> QED
      BY <1>1, <1>2, <2>1, <3>1, WrapTwice
  <2> QED
    BY <2>2, <2>3, <2>4
<1> QED
  BY <1>1, <1>3, <1>4, <1>5, ContentsType, SeqEqual DEF ContentsShape

\* The two memcpy calls of a write append the prefix that fits.
LEMMA WriteAppends ==
    ASSUME TypeOK, TypeOK', NEW src \in Requests, ct_ring_write(src)
    PROVE  Contents' = Contents \o SubSeq(src, 1, Lesser(Len(src), Cap - len))
<1> USE RingAssumption
<1> DEFINE n    == Lesser(Len(src), Cap - len)
           tail == (head + len) % Cap
           a    == Lesser(Cap - tail, n)
<1>1. PICK m \in 0..MaxArg : src \in [1..m -> Byte]
  BY DEF Requests
<1>2. src \in Seq(Byte) /\ Len(src) = m
  BY <1>1
<1>3. n \in Nat /\ n <= Cap - len /\ n <= Len(src) /\ len \in Nat /\ len <= Cap
  BY <1>1, <1>2 DEF Lesser, TypeOK
<1>4. tail = IF head + len < Cap THEN head + len ELSE head + len - Cap
  <2>1. head \in Nat /\ len \in Nat /\ head + len \in Nat /\ head + len < 2 * Cap
    BY DEF TypeOK, Index
  <2> QED
    BY <2>1, Wrap
<1>5. a = IF Cap - tail < n THEN Cap - tail ELSE n
  BY DEF Lesser
<1>6. /\ len' = len + n
      /\ head' = head
      /\ \A i \in Index : data'[i] = IF tail <= i /\ i < tail + a THEN src[i - tail + 1]
                                     ELSE IF i < n - a THEN src[a + i + 1]
                                     ELSE data[i]
  BY DEF ct_ring_write
<1> HIDE DEF n, tail, a
<1>7. /\ SubSeq(src, 1, n) \in Seq(Byte)
      /\ Len(SubSeq(src, 1, n)) = n
      /\ \A i \in 1..n : SubSeq(src, 1, n)[i] = src[i]
  BY <1>1, <1>2, <1>3, SubSeqProperties
<1>8. /\ Contents \o SubSeq(src, 1, n) \in Seq(Byte)
      /\ Len(Contents \o SubSeq(src, 1, n)) = len + n
      /\ \A i \in 1..(len + n) :
            (Contents \o SubSeq(src, 1, n))[i] = IF i <= len THEN Contents[i] ELSE src[i - len]
  <2> DEFINE t == SubSeq(src, 1, n)
  <2>1. Contents \in Seq(Byte) /\ Len(Contents) = len
    BY ContentsType DEF ContentsShape
  <2>2. t \in Seq(Byte) /\ Len(t) = n /\ \A i \in 1..n : t[i] = src[i]
    BY <1>7
  <2> HIDE DEF t
  <2>3. /\ Contents \o t \in Seq(Byte)
        /\ Len(Contents \o t) = len + n
        /\ \A i \in 1..(len + n) :
              (Contents \o t)[i] = IF i <= len THEN Contents[i] ELSE t[i - len]
    BY <2>1, <2>2, ConcatProperties
  <2>4. \A i \in 1..(len + n) : i > len => t[i - len] = src[i - len]
    BY <1>3, <2>2
  <2> QED
    BY <1>3, <2>3, <2>4 DEF t
<1>9. /\ Contents' \in Seq(Byte)
      /\ Len(Contents') = len + n
      /\ \A i \in 1..(len + n) :
            Contents'[i] = data'[IF head + i - 1 < Cap THEN head + i - 1
                                 ELSE head + i - 1 - Cap]
  BY <1>6, ContentsTypeNext DEF ContentsShape
<1>10. ASSUME NEW i \in 1..(len + n)
       PROVE  Contents'[i] = IF i <= len THEN Contents[i] ELSE src[i - len]
  <2> DEFINE j == IF head + i - 1 < Cap THEN head + i - 1 ELSE head + i - 1 - Cap
  <2>1. /\ head \in Nat /\ head < Cap /\ i \in Nat /\ i >= 1 /\ i <= len + n
        /\ Cap \in Nat /\ len + n <= Cap
    BY <1>3 DEF TypeOK, Index
  <2>2. j \in Index
    BY <2>1, <1>3 DEF Index
  <2>3. Contents'[i] = data'[j]
    BY <1>9
  <2>4. i <= len => Contents[i] = data[j]
    BY <2>1, ContentsType DEF ContentsShape
  <2> HIDE DEF j
  <2>5. data'[j] = IF tail <= j /\ j < tail + a THEN src[j - tail + 1]
                   ELSE IF j < n - a THEN src[a + j + 1]
                   ELSE data[j]
    BY <2>2, <1>6
  <2>6. CASE i <= len
    <3>1. ~(tail <= j /\ j < tail + a) /\ ~(j < n - a)
      BY <2>1, <2>6, <1>3, <1>4, <1>5 DEF j
    <3> QED
      BY <2>3, <2>4, <2>5, <2>6, <3>1
  <2>7. CASE i > len
    <3>1. IF tail <= j /\ j < tail + a THEN j - tail + 1 = i - len
          ELSE j < n - a /\ a + j + 1 = i - len
      BY <2>1, <2>7, <1>3, <1>4, <1>5 DEF j
    <3> QED
      BY <2>1, <2>3, <2>5, <2>7, <3>1, <1>3
  <2> QED
    BY <2>1, <2>6, <2>7, <1>3
<1> QED
  BY <1>3, <1>8, <1>9, <1>10, SeqEqual DEF n

-----------------------------------------------------------------------------
(***************************************************************************)
(* Refinement.                                                             *)
(***************************************************************************)

\* The head and the length stay inside the array, as the CT_ASSERT of
\* ct_ring_write and ct_ring_read demands, for every capacity.
THEOREM TypeCorrect == Spec => []TypeOK
<1>1. Init => TypeOK
  BY RingAssumption DEF Init, TypeOK, Index
<1> QED
  BY <1>1, TypeStep, PTL DEF Spec

LEMMA InitRefines == Init => Abstract!Init
<1> HAVE Init
<1>1. len = 0
  BY DEF Init
<1>2. Contents = <<>>
  BY <1>1 DEF Contents
<1> QED
  BY <1>2 DEF Init, Abstract!Init

LEMMA StepRefines ==
    TypeOK /\ TypeOK' /\ [Next]_vars => [Abstract!Next]_(Abstract!vars)
<1> SUFFICES ASSUME TypeOK, TypeOK', [Next]_vars
             PROVE  [Abstract!Next]_(Abstract!vars)
  OBVIOUS
<1> USE RingAssumption
<1>0. Len(Contents) = len
  BY ContentsType DEF ContentsShape
<1>1. ASSUME NEW src \in Requests, ct_ring_write(src) PROVE Abstract!Next
  <2>1. Abstract!Write(src)
    BY <1>0, <1>1, WriteAppends DEF ct_ring_write, Abstract!Write, Abstract!Lesser, Lesser
  <2>2. src \in Abstract!Requests
    BY DEF Requests, Abstract!Requests
  <2> QED
    BY <2>1, <2>2 DEF Abstract!Next
<1>2. ASSUME NEW n \in 0..MaxArg, ct_ring_read(n) PROVE Abstract!Next
  <2>1. Lesser(n, len) \in 0..len
    BY DEF Lesser, TypeOK
  <2>2. /\ dst' = SubSeq(Contents, 1, Lesser(n, len))
        /\ Contents' = SubSeq(Contents, Lesser(n, len) + 1, Len(Contents))
        /\ count' = Lesser(n, len)
    BY <1>2, <2>1, CopyOutIsPrefix, DropFront DEF ct_ring_read
  <2>3. Abstract!Read(n)
    BY <1>0, <2>2 DEF Abstract!Read, Abstract!Lesser, Lesser
  <2> QED
    BY <2>3 DEF Abstract!Next
<1>3. ASSUME NEW n \in 0..MaxArg, ct_ring_consume(n) PROVE Abstract!Next
  <2>1. Lesser(n, len) \in 0..len
    BY DEF Lesser, TypeOK
  <2>2. /\ Contents' = SubSeq(Contents, Lesser(n, len) + 1, Len(Contents))
        /\ count' = 0 /\ dst' = <<>>
    BY <1>3, <2>1, DropFront DEF ct_ring_consume
  <2>3. Abstract!Consume(n)
    BY <1>0, <2>2 DEF Abstract!Consume, Abstract!Lesser, Lesser
  <2> QED
    BY <2>3 DEF Abstract!Next
<1>4. ASSUME ct_ring_peek PROVE Abstract!Next
  <2> DEFINE k == Lesser(Cap - head, len)
  <2>1. k \in 0..len /\ (k = 0 => len = 0)
    BY DEF Lesser, TypeOK, Index
  <2>2. dst' = SubSeq(Contents, 1, k) /\ count' = k
    BY <1>4, <2>1, CopyOutIsPrefix DEF ct_ring_peek
  <2>3. Contents' = Contents
    BY <1>4 DEF ct_ring_peek, Contents
  <2>4. len = 0 => Contents = <<>>
    BY DEF Contents
  <2> HIDE DEF k
  <2>5. Abstract!Peek
    BY <1>0, <2>1, <2>2, <2>3, <2>4 DEF Abstract!Peek
  <2> QED
    BY <2>5 DEF Abstract!Next
<1>5. CASE UNCHANGED vars
  BY <1>5 DEF vars, Abstract!vars, Contents
<1> QED
  BY <1>1, <1>2, <1>3, <1>4, <1>5 DEF Next

\* ct_ring implements the bounded first-in first-out queue its callers rely
\* on, for every capacity, byte set and request length.
THEOREM Refinement == Spec => Implements
<1>1. Spec => []TypeOK
  BY TypeCorrect
<1> QED
  BY <1>1, InitRefines, StepRefines, PTL DEF Spec, Implements, Abstract!Spec

-----------------------------------------------------------------------------
(***************************************************************************)
(* The replay window.                                                      *)
(***************************************************************************)
WindowInv == WindowTypeOK /\ BitmapExact /\ AtMostOnce

LEMMA WindowInitInv == WindowInit => WindowInv
BY WindowAssumption DEF WindowInit, WindowInv, WindowTypeOK, BitmapExact, AtMostOnce

\* Moving the window re-bases the ages of the numbers it still covers.
LEMMA AdvanceExact ==
    ASSUME WindowInv, NEW seq \in Nat, Advance(seq)
    PROVE  WindowInv'
<1> USE WindowAssumption
<1>1. seq \in Nat /\ seq > high /\ high \in Nat
  BY DEF Advance, WindowInv, WindowTypeOK
<1>2. accepted' = accepted \cup {seq} /\ high' = seq
  BY DEF Advance, Verdict
<1>3. accepted' \subseteq 1..high'
  BY <1>1, <1>2 DEF WindowInv, BitmapExact
<1>4. bitmap' = {age \in 0..(Width - 1) : high' - age \in accepted'}
  <2>1. ASSUME NEW age \in 0..(Width - 1)
        PROVE  age \in bitmap' <=> seq - age \in accepted \cup {seq}
    <3>1. CASE age = 0
      BY <1>1, <3>1 DEF Advance
    <3>2. CASE age # 0 /\ seq - high >= Width
      <4>1. age \notin bitmap'
        BY <3>2 DEF Advance
      <4>2. seq - age > high /\ seq - age # seq
        BY <1>1, <3>2
      <4> QED
        BY <1>1, <4>1, <4>2 DEF WindowInv, BitmapExact
    <3>3. CASE age # 0 /\ ~(seq - high >= Width)
      <4>1. age \in bitmap' <=> age - (seq - high) \in bitmap
        BY <1>1, <3>3 DEF Advance, Shifted
      <4>2. age - (seq - high) \in bitmap
              <=> age - (seq - high) \in 0..(Width - 1) /\ high - (age - (seq - high)) \in accepted
        BY DEF WindowInv, BitmapExact
      <4>3. high - (age - (seq - high)) = seq - age
        BY <1>1
      <4>4. seq - age \in accepted => age - (seq - high) \in 0..(Width - 1)
        BY <1>1 DEF WindowInv, BitmapExact
      <4> QED
        BY <1>1, <3>3, <4>1, <4>2, <4>3, <4>4
    <3> QED
      BY <3>1, <3>2, <3>3
  <2>2. bitmap' \subseteq 0..(Width - 1)
    BY DEF Advance, Shifted
  <2> QED
    BY <1>2, <2>1, <2>2
<1>5. seq \notin accepted
  BY <1>1 DEF WindowInv, BitmapExact
<1>6. twice' = twice /\ last' = [seq |-> seq, ok |-> TRUE]
  BY <1>5 DEF Advance, Verdict
<1> QED
  BY <1>1, <1>2, <1>3, <1>4, <1>6 DEF WindowInv, WindowTypeOK, BitmapExact, AtMostOnce

\* A number in the window has its bit set exactly when it was accepted.
LEMMA BitTells ==
    ASSUME WindowInv, NEW seq \in Nat, seq > 0, seq <= high, high - seq < Width
    PROVE  high - seq \in bitmap <=> seq \in accepted
<1>1. high \in Nat /\ high - seq \in 0..(Width - 1) /\ high - (high - seq) = seq
  BY WindowAssumption DEF WindowInv, WindowTypeOK
<1> QED
  BY <1>1 DEF WindowInv, BitmapExact

LEMMA LookUpExact ==
    ASSUME Window <= Width, WindowInv, NEW seq \in Nat, LookUp(seq)
    PROVE  /\ WindowInv'
           /\ last'.seq = seq
           /\ seq \notin accepted => last'.ok
<1> USE WindowAssumption
<1>1. /\ seq > 0 /\ seq <= high /\ high - seq < Width /\ high' = high
      /\ high \in Nat /\ high - seq \in 0..(Width - 1)
  BY DEF LookUp, WindowInv, WindowTypeOK
<1>2. Bits(high - seq) = {{high - seq}}
  BY <1>1 DEF Bits
<1>3. CASE seq \in accepted
  <2>1. {high - seq} \cap bitmap # {}
    BY <1>1, <1>3, BitTells
  <2>2. UNCHANGED bitmap /\ Verdict(seq, FALSE)
    BY <1>2, <2>1 DEF LookUp
  <2> QED
    BY <1>1, <1>3, <2>2 DEF Verdict, WindowInv, WindowTypeOK, BitmapExact, AtMostOnce
<1>4. CASE seq \notin accepted
  <2>1. {high - seq} \cap bitmap = {}
    BY <1>1, <1>4, BitTells
  <2>2. bitmap' = bitmap \cup {high - seq} /\ Verdict(seq, TRUE)
    BY <1>2, <2>1 DEF LookUp
  <2>3. /\ accepted' = accepted \cup {seq} /\ twice' = twice
        /\ last' = [seq |-> seq, ok |-> TRUE]
    BY <1>4, <2>2 DEF Verdict
  <2>4. bitmap' = {age \in 0..(Width - 1) : high' - age \in accepted'}
    <3>1. ASSUME NEW age \in 0..(Width - 1)
          PROVE  age \in bitmap' <=> high - age \in accepted \cup {seq}
      BY <1>1, <2>2 DEF WindowInv, BitmapExact
    <3> QED
      BY <1>1, <2>2, <2>3, <3>1 DEF WindowInv, WindowTypeOK
  <2> QED
    <3>1. WindowTypeOK'
      BY <1>1, <2>2, <2>3 DEF WindowInv, WindowTypeOK
    <3>2. accepted' \subseteq 1..high'
      BY <1>1, <2>3 DEF WindowInv, BitmapExact
    <3>3. last'.seq = seq /\ last'.ok
      BY <2>3
    <3> QED
      BY <2>3, <2>4, <3>1, <3>2, <3>3 DEF WindowInv, BitmapExact, AtMostOnce
<1> QED
  BY <1>3, <1>4

LEMMA RefuseExact ==
    ASSUME WindowInv, NEW seq \in Nat, Refuse(seq)
    PROVE  WindowInv' /\ last'.seq = seq
BY DEF Refuse, Verdict, WindowInv, WindowTypeOK, BitmapExact, AtMostOnce

LEMMA WindowStepInv ==
    ASSUME Window <= Width
    PROVE  WindowInv /\ [WindowNext]_windowVars => WindowInv'
<1> SUFFICES ASSUME WindowInv, [WindowNext]_windowVars PROVE WindowInv'
  OBVIOUS
<1>1. ASSUME NEW seq \in 0..MaxSeq, Advance(seq) \/ LookUp(seq) \/ Refuse(seq)
      PROVE  WindowInv'
  BY <1>1, AdvanceExact, LookUpExact, RefuseExact, WindowAssumption
<1>2. CASE UNCHANGED windowVars
  BY <1>2 DEF windowVars, WindowInv, WindowTypeOK, BitmapExact, AtMostOnce
<1> QED
  BY <1>1, <1>2 DEF WindowNext

\* No sequence number is accepted twice and the bitmap is exact, as long as
\* the window is no wider than the bitmap.
THEOREM WindowSafe ==
    ASSUME Window <= Width
    PROVE  WindowSpec => [](WindowTypeOK /\ BitmapExact /\ AtMostOnce)
BY WindowInitInv, WindowStepInv, PTL DEF WindowSpec, WindowInv

\* The bitmap of accept_work_sequence and udp_replay_accept remembers exactly
\* the accepted numbers that are still in its reach.
THEOREM BitmapRemembers ==
    ASSUME Window <= Width
    PROVE  WindowSpec => []BitmapExact
<1>1. WindowInv => BitmapExact
  BY DEF WindowInv
<1> QED
  BY <1>1, WindowInitInv, WindowStepInv, PTL DEF WindowSpec

\* A new number in the window is accepted by every step.
THEOREM FreshNeverRefused ==
    ASSUME Window <= Width
    PROVE  WindowSpec => FreshAccepted
<1> DEFINE Fresh == /\ last'.seq > 0
                    /\ last'.seq \notin accepted
                    /\ last'.seq + Window > high
                    => last'.ok
<1>1. WindowInv /\ [WindowNext]_windowVars => [Fresh]_windowVars
  <2> SUFFICES ASSUME WindowInv, NEW seq \in 0..MaxSeq,
                      Advance(seq) \/ LookUp(seq) \/ Refuse(seq)
               PROVE  Fresh
    BY DEF WindowNext
  <2> USE WindowAssumption
  <2>1. CASE Advance(seq)
    BY <2>1 DEF Advance, Verdict
  <2>2. CASE LookUp(seq)
    BY <2>2, LookUpExact
  <2>3. CASE Refuse(seq)
    <3>1. last'.seq = seq /\ high \in Nat
      BY <2>3, RefuseExact DEF WindowInv, WindowTypeOK
    <3>2. seq = 0 \/ ~(seq + Window > high)
      BY <2>3, <3>1 DEF Refuse
    <3> QED
      BY <3>1, <3>2
  <2> QED
    BY <2>1, <2>2, <2>3
<1> QED
  BY <1>1, WindowInitInv, WindowStepInv, PTL DEF WindowSpec, FreshAccepted
==============================================================================
