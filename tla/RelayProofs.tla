----------------------------- MODULE RelayProofs -----------------------------
(***************************************************************************)
(* Proofs about Relay for every buffer size, record format, backend and    *)
(* fault: bytes are conserved, only authentic records reach the direct     *)
(* peer, no complete record is left behind, a half-close never overtakes   *)
(* data, and, with gates that hold, nothing is lost.                       *)
(***************************************************************************)
EXTENDS Relay, WellFoundedInduction, TLAPS

\* The ends of the records are in order, they carry no more than PeerChunk
\* bytes, and all but a truncated last one have been sent in full.
Records ==
    /\ \A i, j \in 0..Len(recs) :
         i < j => WireAt(i) + Hdr <= WireAt(j) /\ PlainAt(i) <= PlainAt(j)
    /\ encrypted /\ "work" \notin fin => work_sent = WireAt(Len(recs))
    /\ \A i \in 1..Len(recs) : recs[i].plain - PlainAt(i - 1) <= PeerChunk

\* What was decrypted was complete and authentic, and the direct peer got
\* no more than that.
Opened ==
    /\ WireAt(recv_seq) <= work_read
    /\ \A i \in 1..recv_seq : recs[i].good
    /\ encrypted => direct_out <= HeaderLen + PlainAt(recv_seq)

\* The loop of decrypt_ready has stopped behind record m for a reason: the
\* next one is not complete or does not fit, and not one it would refuse.
Settled(m, read, d) ==
    m < Len(recs) =>
      /\ WireAt(m + 1) <= read => d + PlainAt(m + 1) - PlainAt(m) > Cap
      /\ Oversized(m + 1) => read < WireAt(m) + Hdr

Waiting == ~closed /\ encrypted => Settled(recv_seq, work_read, to_direct)

\* An end of file was seen behind the last byte, and a half-close is
\* forwarded after it.
Ended ==
    /\ "direct" \in eof => "direct" \in fin /\ direct_read = direct_sent
    /\ "work" \in eof => "work" \in fin /\ work_read = work_sent
    /\ "work" \in shut => "direct" \in eof
    /\ "direct" \in shut => "work" \in eof

Inv ==
    /\ TypeOK /\ Records /\ Opened /\ Conserved /\ Waiting /\ Ended
    /\ ProxyHeaderFirst /\ HalfCloseOrder
-----------------------------------------------------------------------------
(***************************************************************************)
(* Least and greatest elements.                                            *)
(***************************************************************************)

LEMMA Least ==
    ASSUME NEW S \in SUBSET Nat, S # {}
    PROVE  \E x \in S : \A y \in S : x <= y
<1> DEFINE R == {p \in Nat \X Nat : p[1] < p[2]}
<1>1. IsWellFoundedOn(R, Nat)
  BY NatLessThanWellFounded, Zenon DEF OpToRel
<1>2. PICK x \in S : \A y \in S : <<y, x>> \notin R
  <2> HIDE DEF R
  <2> QED BY <1>1, WFMin
<1>3. ASSUME NEW y \in S PROVE x <= y
  <2>1. x \in Nat /\ y \in Nat /\ <<y, x>> \in Nat \X Nat
    OBVIOUS
  <2>2. ~(<<y, x>>[1] < <<y, x>>[2])
    <3>1. <<y, x>> \notin R
      BY <1>2
    <3> QED BY <2>1, <3>1
  <2>3. ~(y < x)
    BY <2>2
  <2> QED BY <2>1, <2>3
<1> QED BY <1>3

LEMMA Greatest ==
    ASSUME NEW n \in Nat, NEW S \in SUBSET 0..n, S # {}
    PROVE  \E x \in S : \A y \in S : y <= x
<1> DEFINE T == {k \in Nat : n - k \in S}
<1>1. T # {}
  <2> PICK x \in S : TRUE
    OBVIOUS
  <2>1. n - x \in Nat /\ n - (n - x) = x
    OBVIOUS
  <2> QED BY <2>1
<1>2. PICK k \in T : \A j \in T : k <= j
  <2>1. T \in SUBSET Nat
    OBVIOUS
  <2> HIDE DEF T
  <2> QED BY <1>1, <2>1, Least
<1>3. n - k \in S /\ k \in Nat
  OBVIOUS
<1>4. ASSUME NEW y \in S PROVE y <= n - k
  <2>1. n - y \in Nat /\ n - (n - y) = y
    OBVIOUS
  <2>2. n - y \in T
    BY <2>1
  <2>3. k <= n - y
    BY <1>2, <2>2
  <2>4. y \in Nat
    OBVIOUS
  <2> HIDE DEF T
  <2> QED BY <1>3, <2>3, <2>4
<1> HIDE DEF T
<1> QED BY <1>3, <1>4
-----------------------------------------------------------------------------
(***************************************************************************)
(* Records and their decryption.                                           *)
(***************************************************************************)

LEMMA Offsets ==
    ASSUME TypeOK, NEW i \in 0..Len(recs)
    PROVE  WireAt(i) \in Nat /\ PlainAt(i) \in Nat /\ Len(recs) \in Nat
<1>1. CASE i = 0
  BY <1>1 DEF WireAt, PlainAt, TypeOK
<1>2. CASE i # 0
  <2>1. i \in 1..Len(recs)
    BY <1>2 DEF TypeOK
  <2> DEFINE R == [wire : Nat, plain : Nat, good : BOOLEAN]
  <2>2. recs[i] \in R
    <3>1. recs \in Seq(R)
      BY DEF TypeOK
    <3> HIDE DEF R
    <3> QED BY <2>1, <3>1
  <2> QED BY <1>2, <2>1, <2>2 DEF WireAt, PlainAt, TypeOK
<1> QED BY <1>1, <1>2

LEMMA Ordered ==
    ASSUME TypeOK, Records, NEW i \in 0..Len(recs), NEW j \in i..Len(recs)
    PROVE  WireAt(i) <= WireAt(j) /\ PlainAt(i) <= PlainAt(j)
<1>1. j \in 0..Len(recs) /\ Len(recs) \in Nat
  BY Offsets
<1>2. /\ WireAt(i) \in Nat /\ PlainAt(i) \in Nat
      /\ WireAt(j) \in Nat /\ PlainAt(j) \in Nat
  BY <1>1, Offsets
<1>3. CASE i = j
  BY <1>2, <1>3
<1>4. CASE i < j
  <2>1. WireAt(i) + Hdr <= WireAt(j) /\ PlainAt(i) <= PlainAt(j)
    BY <1>1, <1>4 DEF Records
  <2> QED BY <1>2, <2>1, RelayAssumption
<1> QED BY <1>1, <1>3, <1>4

\* decrypt_ready stops at a record that may be decrypted and is the last such.
LEMMA DecryptLast ==
    ASSUME TypeOK, NEW read \in Nat, NEW d \in 0..Cap, WireAt(recv_seq) <= read
    PROVE  LET m == decrypt_ready(read, d)
           IN  m \in Decryptable(read, d) /\ \A k \in Decryptable(read, d) : k <= m
<1> DEFINE S == Decryptable(read, d)
<1>1. Len(recs) \in Nat /\ recv_seq \in 0..Len(recs) /\ PlainAt(recv_seq) \in Nat
  BY Offsets DEF TypeOK
<1>2. S \in SUBSET 0..Len(recs)
  BY <1>1 DEF Decryptable
<1>3. recv_seq \in S
  <2>1. (recv_seq + 1)..recv_seq = {}
    BY <1>1
  <2>2. d + PlainAt(recv_seq) - PlainAt(recv_seq) <= Cap
    BY <1>1, RelayAssumption
  <2> QED BY <1>1, <2>1, <2>2 DEF Decryptable
<1>4. \E m \in S : \A k \in S : k <= m
  <2> HIDE DEF S
  <2> QED BY <1>1, <1>2, <1>3, Greatest
<1> QED BY <1>4, Zenon DEF decrypt_ready

\* The loop ends settled: unless it fails, no record it could decrypt is left.
LEMMA DecryptSettles ==
    ASSUME TypeOK, Records, NEW read \in Nat, NEW d \in 0..Cap, WireAt(recv_seq) <= read,
           NEW m, m = decrypt_ready(read, d)
    PROVE  /\ m \in recv_seq..Len(recs)
           /\ WireAt(m) <= read
           /\ d + PlainAt(m) - PlainAt(recv_seq) <= Cap
           /\ \A i \in (recv_seq + 1)..m : recs[i].good
           /\ ~DecryptFails(read, d, m) =>
                Settled(m, read, d + PlainAt(m) - PlainAt(recv_seq))
<1>1. m \in Decryptable(read, d) /\ \A k \in Decryptable(read, d) : k <= m
  BY DecryptLast
<1>2. /\ m \in recv_seq..Len(recs)
      /\ WireAt(m) <= read
      /\ d + PlainAt(m) - PlainAt(recv_seq) <= Cap
      /\ \A i \in (recv_seq + 1)..m : recs[i].good /\ ~Oversized(i)
  BY <1>1 DEF Decryptable
<1>3. ASSUME m < Len(recs), ~DecryptFails(read, d, m)
      PROVE  /\ WireAt(m + 1) <= read =>
                  d + PlainAt(m) - PlainAt(recv_seq) + PlainAt(m + 1) - PlainAt(m) > Cap
             /\ Oversized(m + 1) => read < WireAt(m) + Hdr
  <2>1. /\ recv_seq \in Nat /\ Len(recs) \in Nat /\ m \in Nat
        /\ m \in 0..Len(recs) /\ m + 1 \in 0..Len(recs) /\ recv_seq \in 0..Len(recs)
        /\ (m + 1) - 1 = m /\ m + 1 # 0
    BY <1>2, <1>3 DEF TypeOK
  <2>2. /\ WireAt(m) \in Nat /\ WireAt(m + 1) \in Nat /\ PlainAt(m) \in Nat
        /\ PlainAt(m + 1) \in Nat /\ PlainAt(recv_seq) \in Nat /\ Hdr \in Nat /\ Cap \in Nat
    BY <2>1, Offsets, RelayAssumption
  <2>3. ~Rejected(read, m + 1, Cap - (d + PlainAt(m) - PlainAt(recv_seq)))
    BY <1>3 DEF DecryptFails
  <2>4. /\ ~(Oversized(m + 1) /\ read >= WireAt(m) + Hdr)
        /\ ~(~recs[m + 1].good /\ read >= WireAt(m + 1)
               /\ recs[m + 1].plain - PlainAt(m) <= Cap - (d + PlainAt(m) - PlainAt(recv_seq)))
    BY <2>1, <2>3 DEF Rejected
  <2>5. WireAt(m) + Hdr <= WireAt(m + 1)
    BY <2>1 DEF Records
  <2>6. recs[m + 1].plain = PlainAt(m + 1)
    BY <2>1 DEF PlainAt
  <2>7. m + 1 \notin Decryptable(read, d)
    BY <1>1, <2>1
  <2>8. ASSUME WireAt(m + 1) <= read,
               d + PlainAt(m) - PlainAt(recv_seq) + PlainAt(m + 1) - PlainAt(m) <= Cap
        PROVE  FALSE
    <3>1. d + PlainAt(m + 1) - PlainAt(recv_seq) <= Cap
      BY <2>2, <2>8
    <3>2. \E i \in (recv_seq + 1)..(m + 1) : ~recs[i].good \/ Oversized(i)
      <4>1. m + 1 \in recv_seq..Len(recs)
        BY <1>2, <2>1
      <4> QED BY <2>7, <2>8, <3>1, <4>1 DEF Decryptable
    <3>3. ~recs[m + 1].good \/ Oversized(m + 1)
      <4>1. \A i \in (recv_seq + 1)..(m + 1) : i = m + 1 \/ i \in (recv_seq + 1)..m
        BY <2>1
      <4> QED BY <1>2, <3>2, <4>1
    <3>4. ~Oversized(m + 1)
      <4>1. read >= WireAt(m) + Hdr
        BY <2>2, <2>5, <2>8
      <4> QED BY <2>4, <4>1
    <3>5. /\ read >= WireAt(m + 1)
          /\ PlainAt(m + 1) - PlainAt(m) <= Cap - (d + PlainAt(m) - PlainAt(recv_seq))
      BY <2>2, <2>8
    <3> QED BY <2>4, <2>6, <3>3, <3>4, <3>5
  <2>9. WireAt(m + 1) <= read =>
          d + PlainAt(m) - PlainAt(recv_seq) + PlainAt(m + 1) - PlainAt(m) > Cap
    BY <2>2, <2>8
  <2>10. Oversized(m + 1) => read < WireAt(m) + Hdr
    BY <2>2, <2>4
  <2> QED BY <2>9, <2>10
<1> QED BY <1>2, <1>3 DEF Settled
-----------------------------------------------------------------------------
(***************************************************************************)
(* The end of a call of ct_relay_process.                                  *)
(***************************************************************************)

LEMMA LesserBound ==
    ASSUME NEW a \in Nat, NEW b \in Nat
    PROVE  Lesser(a, b) \in 0..a /\ Lesser(a, b) \in 0..b
BY DEF Lesser

\* What an event leaves alone.
Frame == UNCHANGED network /\ batch' \subseteq batch

\* What a call did to the counters before it finished or closed: m records
\* are decrypted, and nothing that was forwarded for good has changed.
Counted(m) ==
    /\ recv_seq' = m /\ m \in recv_seq..Len(recs)
    /\ send_seq' \in Nat
    /\ direct_read' \in 0..direct_sent /\ work_read' \in 0..work_sent
    /\ direct_out' \in Nat /\ work_out' \in Nat
    /\ direct_out <= direct_out'
    /\ proxy_header_remaining' = HeaderLen - Lesser(HeaderLen, direct_out')
    /\ WireAt(m) <= work_read'
    /\ \A i \in (recv_seq + 1)..m : recs[i].good
    /\ encrypted => direct_out' <= HeaderLen + PlainAt(m)
    /\ "direct" \in eof => direct_read' = direct_sent
    /\ "work" \in eof => work_read' = work_sent
    /\ "work" \in shut => work_out' = direct_sent + send_seq' * Overhead
    /\ "direct" \in shut /\ ~encrypted => direct_out' = HeaderLen + work_sent

LEMMA SameRecords ==
    ASSUME Frame
    PROVE  /\ \A i : WireAt(i)' = WireAt(i) /\ PlainAt(i)' = PlainAt(i)
           /\ \A i : Oversized(i)' = Oversized(i)
           /\ Overhead' = Overhead
BY DEF Frame, network, WireAt, PlainAt, Oversized, Overhead

\* The parts of the invariant that do not depend on the rings.
LEMMA CountedKeeps ==
    ASSUME Inv, Frame, NEW m, Counted(m)
    PROVE  /\ Records' /\ Opened' /\ ProxyHeaderFirst'
           /\ "work" \in shut => DirectForwarded'
           /\ "direct" \in shut => WorkForwarded'
<1>1. TypeOK /\ Records /\ Opened /\ HalfCloseOrder /\ Ended
  BY DEF Inv
<1>2. /\ \A i : WireAt(i)' = WireAt(i) /\ PlainAt(i)' = PlainAt(i)
      /\ Overhead' = Overhead
  BY SameRecords
<1>3. /\ recs' = recs /\ fin' = fin /\ work_sent' = work_sent
      /\ direct_sent' = direct_sent /\ encrypted' = encrypted
  BY DEF Frame, network
<1>4. Records'
  BY <1>1, <1>2, <1>3 DEF Records
<1>5. Opened'
  <2>1. WireAt(m)' = WireAt(m) /\ PlainAt(m)' = PlainAt(m)
    BY <1>2
  <2>2. \A i \in 1..m : i \in 1..recv_seq \/ i \in (recv_seq + 1)..m
    BY <1>1 DEF TypeOK, Counted
  <2>3. \A i \in 1..m : recs[i].good
    BY <1>1, <2>2 DEF Opened, Counted
  <2>4. (WireAt(recv_seq))' = WireAt(m)' /\ (PlainAt(recv_seq))' = PlainAt(m)'
    BY DEF Counted, WireAt, PlainAt
  <2> QED BY <1>3, <2>1, <2>3, <2>4 DEF Opened, Counted
<1>6. ProxyHeaderFirst'
  BY DEF ProxyHeaderFirst, Counted, Lesser
<1>7. ASSUME "work" \in shut PROVE DirectForwarded'
  BY <1>1, <1>2, <1>3, <1>7 DEF DirectForwarded, Counted, Ended
<1>8. ASSUME "direct" \in shut PROVE WorkForwarded'
  <2>1. WorkForwarded
    BY <1>1, <1>8 DEF HalfCloseOrder
  <2>2. CASE encrypted
    <3>1. ASSUME NEW i \in 1..Len(recs), WireAt(i) <= work_sent
          PROVE  direct_out' >= HeaderLen + PlainAt(i)
      <4>1. direct_out >= HeaderLen + PlainAt(i)
        BY <2>1, <2>2, <3>1 DEF WorkForwarded
      <4>2. i \in 0..Len(recs) /\ HeaderLen \in Nat
        BY RelayAssumption
      <4>3. PlainAt(i) \in Nat
        BY <1>1, <4>2, Offsets
      <4>4. direct_out \in Nat /\ direct_out' \in Nat /\ direct_out <= direct_out'
        BY <1>1 DEF Counted, TypeOK
      <4> QED BY <4>1, <4>2, <4>3, <4>4
    <3> QED BY <1>2, <1>3, <2>2, <3>1 DEF WorkForwarded
  <2>3. CASE ~encrypted
    BY <1>3, <1>8, <2>3 DEF WorkForwarded, Counted
  <2> QED BY <2>2, <2>3
<1> QED BY <1>4, <1>5, <1>6, <1>7, <1>8

LEMMA Closes ==
    ASSUME Inv, Frame, NEW m, Counted(m), ct_relay_close
    PROVE  Inv'
<1>1. TypeOK /\ Ended /\ HalfCloseOrder
  BY DEF Inv
<1>2. /\ recs' = recs /\ fin' = fin /\ work_sent' = work_sent /\ reset' = reset
      /\ direct_sent' = direct_sent /\ encrypted' = encrypted
  BY DEF Frame, network
<1>3. /\ closed' = TRUE /\ to_direct' = 0 /\ to_work' = 0 /\ work_input' = 0
      /\ eof' = eof /\ shut' = shut
  BY DEF ct_relay_close
<1>4. /\ Records' /\ Opened' /\ ProxyHeaderFirst'
      /\ "work" \in shut => DirectForwarded'
      /\ "direct" \in shut => WorkForwarded'
  BY CountedKeeps
<1>5. Conserved' /\ Waiting'
  BY <1>3 DEF Conserved, Waiting
<1>6. Ended'
  BY <1>1, <1>2, <1>3 DEF Ended, Counted
<1>7. HalfCloseOrder'
  BY <1>1, <1>2, <1>3, <1>4 DEF HalfCloseOrder
<1>8. TypeOK'
  <2>1. m \in 0..Len(recs)
    BY <1>1 DEF Counted, TypeOK
  <2>2. proxy_header_remaining' \in 0..HeaderLen
    <3>1. /\ proxy_header_remaining' = HeaderLen - Lesser(HeaderLen, direct_out')
          /\ direct_out' \in Nat /\ HeaderLen \in Nat
      BY RelayAssumption DEF Counted
    <3>2. Lesser(HeaderLen, direct_out') \in 0..HeaderLen
      BY <3>1, LesserBound
    <3>3. \A a \in 0..HeaderLen : HeaderLen - a \in 0..HeaderLen
      BY <3>1
    <3> QED BY <3>1, <3>2, <3>3, Zenon
  <2>3. batch' \subseteq Sides \X SUBSET {"R", "W"}
    BY <1>1 DEF Frame, TypeOK
  <2>4. 0 \in 0..Cap
    BY RelayAssumption
  <2> QED BY <1>1, <1>2, <1>3, <2>1, <2>2, <2>3, <2>4 DEF TypeOK, Counted
<1> QED BY <1>4, <1>5, <1>6, <1>7, <1>8 DEF Inv

\* What the rings hold when a call finishes accounts for what was counted.
Balanced(d, w, in, m) ==
    /\ d \in 0..Cap /\ w \in 0..Cap /\ in \in 0..Cap
    /\ work_out' + w = direct_read' + send_seq' * Overhead
    /\ in = IF encrypted THEN work_read' - WireAt(m) ELSE 0
    /\ direct_out' + d = HeaderLen + (IF encrypted THEN PlainAt(m) ELSE work_read')
    /\ encrypted => Settled(m, work_read', d)

\* With the tunnel at its end and to_direct empty, every complete record is out.
LEMMA AllOut ==
    ASSUME TypeOK, Records, encrypted, NEW m \in 0..Len(recs), NEW read \in Nat,
           Settled(m, read, 0), NEW i \in 1..Len(recs), WireAt(i) <= read
    PROVE  PlainAt(i) <= PlainAt(m)
<1>1. i \in 0..Len(recs) /\ Len(recs) \in Nat /\ m \in Nat /\ i \in Nat
  BY DEF TypeOK
<1>2. CASE i <= m
  BY <1>1, <1>2, Offsets DEF Records
<1>3. CASE i > m
  <2>1. m < Len(recs) /\ m < m + 1 /\ m + 1 \in 0..Len(recs) /\ m + 1 # 0 /\ (m + 1) - 1 = m
    BY <1>1, <1>3
  <2>2. /\ WireAt(m) \in Nat /\ WireAt(m + 1) \in Nat /\ PlainAt(m) \in Nat
        /\ PlainAt(m + 1) \in Nat /\ WireAt(i) \in Nat
        /\ Hdr \in Nat /\ Cap \in Nat /\ Chunk \in Nat /\ Chunk < Cap
    BY <1>1, <2>1, Offsets, RelayAssumption
  <2>3. WireAt(m + 1) <= WireAt(i)
    <3>1. CASE i = m + 1
      BY <2>2, <3>1
    <3>2. CASE i > m + 1
      <4>1. WireAt(m + 1) + Hdr <= WireAt(i)
        BY <1>1, <2>1, <3>2 DEF Records
      <4> QED BY <2>2, <4>1
    <3> QED BY <1>1, <1>3, <3>1, <3>2
  <2>4. WireAt(m + 1) <= read
    BY <2>2, <2>3
  <2>5. WireAt(m) + Hdr <= WireAt(m + 1)
    BY <1>1, <2>1 DEF Records
  <2>6. ~Oversized(m + 1)
    <3>1. ~(read < WireAt(m) + Hdr)
      BY <2>2, <2>4, <2>5
    <3> QED BY <2>1, <3>1 DEF Settled
  <2>7. PlainAt(m + 1) - PlainAt(m) <= Chunk
    <3>1. recs[m + 1].plain = PlainAt(m + 1)
      BY <2>1 DEF PlainAt
    <3> QED BY <2>1, <2>2, <2>6, <3>1 DEF Oversized
  <2>8. 0 + PlainAt(m + 1) - PlainAt(m) > Cap
    BY <2>1, <2>4 DEF Settled
  <2> QED BY <2>2, <2>7, <2>8
<1> QED BY <1>1, <1>2, <1>3

LEMMA Finishes ==
    ASSUME Inv, Frame, ~closed, NEW m, Counted(m),
           NEW d, NEW w, NEW in, Balanced(d, w, in, m),
           NEW e, eof \subseteq e, e \subseteq Sides,
           "direct" \in e => "direct" \in fin /\ direct_read' = direct_sent,
           "work" \in e => "work" \in fin /\ work_read' = work_sent,
           Finish(d, w, in, e)
    PROVE  Inv'
<1>1. TypeOK /\ Ended /\ HalfCloseOrder /\ Records
  BY DEF Inv
<1>2. /\ recs' = recs /\ fin' = fin /\ work_sent' = work_sent /\ reset' = reset
      /\ direct_sent' = direct_sent /\ encrypted' = encrypted
      /\ \A i : WireAt(i)' = WireAt(i) /\ PlainAt(i)' = PlainAt(i)
      /\ \A i : Oversized(i)' = Oversized(i)
      /\ Overhead' = Overhead
  BY SameRecords DEF Frame, network
<1>3. /\ eof' = e /\ to_direct' = d /\ to_work' = w
      /\ closed' = (e = Sides /\ d = 0 /\ w = 0)
      /\ work_input' = IF closed' THEN 0 ELSE in
      /\ shut' = shut \cup (IF "direct" \in e /\ w = 0 THEN {"work"} ELSE {})
                      \cup (IF "work" \in e /\ d = 0 THEN {"direct"} ELSE {})
  BY DEF Finish
<1>4. /\ Records' /\ Opened' /\ ProxyHeaderFirst'
      /\ "work" \in shut => DirectForwarded'
      /\ "direct" \in shut => WorkForwarded'
  BY CountedKeeps
<1>5. /\ recv_seq' = m /\ m \in 0..Len(recs) /\ Len(recs) \in Nat
      /\ (WireAt(recv_seq))' = WireAt(m) /\ (PlainAt(recv_seq))' = PlainAt(m)
  BY <1>1, <1>2 DEF Counted, TypeOK, WireAt, PlainAt
<1>6. Conserved'
  BY <1>2, <1>3, <1>5 DEF Conserved, Balanced
<1>7. Waiting'
  <2>1. recs' = recs /\ encrypted' = encrypted /\ to_direct' = d /\ recv_seq' = m
    BY <1>2, <1>3, <1>5
  <2>2. encrypted => Settled(m, work_read', d)
    BY DEF Balanced
  <2> QED BY <2>1, <2>2 DEF Waiting, Settled, WireAt, PlainAt, Oversized
<1>8. Ended'
  BY <1>1, <1>2, <1>3 DEF Ended
<1>9. HalfCloseOrder'
  <2>1. ASSUME "work" \in shut' PROVE ("direct" \in fin /\ DirectForwarded)'
    <3>1. CASE "work" \in shut
      BY <1>1, <1>2, <1>4, <3>1 DEF HalfCloseOrder
    <3>2. CASE "work" \notin shut
      <4>1. "direct" \in e /\ w = 0
        BY <1>3, <2>1, <3>2
      <4>2. work_out' = direct_read' + send_seq' * Overhead
        BY <4>1 DEF Balanced, Counted
      <4> QED BY <1>2, <4>1, <4>2 DEF DirectForwarded
    <3> QED BY <3>1, <3>2
  <2>2. ASSUME "direct" \in shut' PROVE ("work" \in fin /\ WorkForwarded)'
    <3>1. CASE "direct" \in shut
      BY <1>1, <1>2, <1>4, <3>1 DEF HalfCloseOrder
    <3>2. CASE "direct" \notin shut
      <4>1. "work" \in e /\ d = 0
        BY <1>3, <2>2, <3>2
      <4>2. "work" \in fin /\ work_read' = work_sent
        BY <4>1
      <4>3. direct_out' = HeaderLen + (IF encrypted THEN PlainAt(m) ELSE work_sent)
        <5>1. direct_out' \in Nat
          BY DEF Counted
        <5> QED BY <4>1, <4>2, <5>1 DEF Balanced
      <4>4. CASE encrypted
        <5>1. ASSUME NEW i \in 1..Len(recs), WireAt(i) <= work_sent
              PROVE  direct_out' >= HeaderLen + PlainAt(i)
          <6>1. Settled(m, work_sent, 0)
            BY <4>1, <4>2, <4>4 DEF Balanced
          <6>2. work_sent \in Nat
            BY <1>1 DEF TypeOK
          <6>3. PlainAt(i) <= PlainAt(m)
            BY <1>1, <1>5, <4>4, <5>1, <6>1, <6>2, AllOut
          <6>4. PlainAt(i) \in Nat /\ PlainAt(m) \in Nat /\ HeaderLen \in Nat
            <7>1. i \in 0..Len(recs)
              BY <1>5
            <7> QED BY <1>1, <1>5, <7>1, Offsets, RelayAssumption
          <6> QED BY <4>3, <4>4, <6>3, <6>4
        <5> QED BY <1>2, <4>2, <4>4, <5>1 DEF WorkForwarded
      <4>5. CASE ~encrypted
        BY <1>2, <4>2, <4>3, <4>5 DEF WorkForwarded
      <4> QED BY <4>4, <4>5
    <3> QED BY <3>1, <3>2
  <2> QED BY <2>1, <2>2 DEF HalfCloseOrder
<1>10. TypeOK'
  <2>1. proxy_header_remaining' \in 0..HeaderLen
    <3>1. /\ proxy_header_remaining' = HeaderLen - Lesser(HeaderLen, direct_out')
          /\ direct_out' \in Nat /\ HeaderLen \in Nat
      BY RelayAssumption DEF Counted
    <3>2. Lesser(HeaderLen, direct_out') \in 0..HeaderLen
      BY <3>1, LesserBound
    <3>3. \A a \in 0..HeaderLen : HeaderLen - a \in 0..HeaderLen
      BY <3>1
    <3> QED BY <3>1, <3>2, <3>3, Zenon
  <2>2. batch' \subseteq Sides \X SUBSET {"R", "W"}
    BY <1>1 DEF Frame, TypeOK
  <2>3. /\ to_direct' \in 0..Cap /\ to_work' \in 0..Cap /\ work_input' \in 0..Cap
        /\ closed' \in BOOLEAN
    BY <1>3, RelayAssumption DEF Balanced
  <2>4. shut' \subseteq Sides
    BY <1>1, <1>3 DEF TypeOK, Sides
  <2>5. /\ send_seq' \in Nat /\ recv_seq' \in 0..Len(recs)
        /\ direct_read' \in 0..direct_sent /\ work_read' \in 0..work_sent
        /\ direct_out' \in Nat /\ work_out' \in Nat
    BY <1>5 DEF Counted
  <2> QED BY <1>1, <1>2, <1>3, <2>1, <2>2, <2>3, <2>4, <2>5 DEF TypeOK
<1> QED BY <1>4, <1>6, <1>7, <1>8, <1>9, <1>10 DEF Inv
-----------------------------------------------------------------------------
(***************************************************************************)
(* One event of the batch.                                                 *)
(***************************************************************************)

LEMMA Flushed ==
    ASSUME NEW ring \in Nat, NEW ev, NEW s \in FlushAmounts(ev, ring)
    PROVE  s \in 0..ring
BY DEF FlushAmounts

LEMMA Received ==
    ASSUME TypeOK, NEW f \in Sides, NEW limit \in Nat \ {0}, NEW ev,
           NEW n \in RecvAmounts(ev, f, limit)
    PROVE  /\ Available(f) \in Nat
           /\ n \in 0..Available(f) /\ n <= limit
           /\ n > 0 => "R" \in ev
<1>1. Available(f) \in Nat
  BY DEF TypeOK, Available, Sides
<1>2. Lesser(Available(f), limit) \in 0..Available(f) /\ Lesser(Available(f), limit) \in 0..limit
  BY <1>1, LesserBound
<1> HIDE DEF Available
<1>3. CASE "R" \in ev /\ Available(f) > 0
  <2>1. n \in 1..Lesser(Available(f), limit)
    BY <1>3 DEF RecvAmounts
  <2> QED BY <1>1, <1>2, <1>3, <2>1
<1>4. CASE ~("R" \in ev /\ Available(f) > 0)
  <2>1. n = 0
    BY <1>4 DEF RecvAmounts
  <2> QED BY <1>1, <2>1
<1> QED BY <1>3, <1>4

LEMMA EofBehindData ==
    ASSUME TypeOK, NEW f \in Sides, NEW ev
    PROVE  /\ eof \subseteq EofSeen(ev, f) /\ EofSeen(ev, f) \subseteq eof \cup {f}
           /\ EofSeen(ev, f) \subseteq Sides
           /\ f \in EofSeen(ev, f) => f \in eof \/ (f \in fin /\ Available(f) = 0)
BY DEF TypeOK, EofSeen

\* Nothing waits behind a record whose last byte is the last one received.
LEMMA NothingWaits ==
    ASSUME TypeOK, Records, NEW m \in 0..Len(recs), NEW d
    PROVE  Settled(m, WireAt(m), d)
<1> SUFFICES ASSUME m < Len(recs)
             PROVE  ~(WireAt(m + 1) <= WireAt(m)) /\ WireAt(m) < WireAt(m) + Hdr
  BY DEF Settled
<1>1. m + 1 \in 0..Len(recs) /\ m < m + 1
  BY DEF TypeOK
<1>2. WireAt(m) \in Nat /\ WireAt(m + 1) \in Nat /\ Hdr \in Nat \ {0}
  BY <1>1, Offsets, RelayAssumption
<1>3. WireAt(m) + Hdr <= WireAt(m + 1)
  BY <1>1 DEF Records
<1> QED BY <1>2, <1>3

\* The bytes of a record are its plaintext and the overhead it is counted for.
LEMMA Boxing ==
    ASSUME TypeOK, NEW got \in Nat,
           NEW sq, sq = IF encrypted /\ got > 0 THEN send_seq + 1 ELSE send_seq
    PROVE  /\ sq \in Nat /\ Boxed(got) \in Nat /\ Overhead \in Nat
           /\ got + sq * Overhead = Boxed(got) + send_seq * Overhead
<1>1. /\ send_seq \in Nat /\ Hdr \in Nat /\ Tag \in Nat /\ encrypted \in BOOLEAN
  BY RelayAssumption DEF TypeOK
<1>2. Overhead \in Nat /\ sq \in Nat /\ Boxed(got) \in Nat
  BY <1>1 DEF Overhead, Boxed
<1>3. CASE encrypted /\ got > 0
  <2>1. sq = send_seq + 1 /\ Boxed(got) = Hdr + got + Tag /\ Overhead = Hdr + Tag
    BY <1>1, <1>3 DEF Overhead, Boxed
  <2>2. \A a, b \in Nat : (a + 1) * b = a * b + b
    OBVIOUS
  <2>3. sq * Overhead = send_seq * Overhead + Overhead
    BY <1>1, <1>2, <2>1, <2>2
  <2>4. send_seq * Overhead \in Nat
    BY <1>1, <1>2
  <2> QED BY <1>1, <1>2, <2>1, <2>3, <2>4
<1>4. CASE ~(encrypted /\ got > 0)
  <2>1. sq = send_seq /\ Boxed(got) = got
    BY <1>1, <1>4 DEF Boxed
  <2> QED BY <1>1, <1>2, <2>1
<1> QED BY <1>2, <1>3, <1>4

\* A flush takes from the PROXY header first.
LEMMA HeaderFirst ==
    ASSUME TypeOK, ProxyHeaderFirst, NEW s \in Nat
    PROVE  HeaderLeft(s) = HeaderLen - Lesser(HeaderLen, direct_out + s)
<1>1. HeaderLen \in Nat /\ direct_out \in Nat
  BY RelayAssumption DEF TypeOK
<1>2. proxy_header_remaining = HeaderLen - Lesser(HeaderLen, direct_out)
  BY DEF ProxyHeaderFirst
<1> QED BY <1>1, <1>2 DEF HeaderLeft, Lesser

\* The values a call for the direct socket computes.
DirectStep(ev, s, n, d, m, bad, got, w) ==
    /\ s \in FlushAmounts(ev, to_direct) /\ n \in RecvAmounts(ev, "direct", Chunk)
    /\ d = to_direct - s
    /\ m = IF encrypted /\ work_input > 0 THEN decrypt_ready(work_read, d) ELSE recv_seq
    /\ bad \in BOOLEAN
    /\ bad <=> encrypted /\ work_input > 0 /\ DecryptFails(work_read, d, m)
    /\ got = IF bad THEN 0 ELSE n
    /\ w = to_work + Boxed(got)
    /\ direct_out' = direct_out + s
    /\ proxy_header_remaining' = HeaderLeft(s)
    /\ recv_seq' = m
    /\ direct_read' = direct_read + got
    /\ send_seq' = IF encrypted /\ got > 0 THEN send_seq + 1 ELSE send_seq
    /\ IF bad \/ w > Cap THEN ct_relay_close
       ELSE Finish(d + PlainAt(m) - PlainAt(recv_seq), w,
                   work_input - (WireAt(m) - WireAt(recv_seq)), EofSeen(ev, "direct"))
    /\ work_read' = work_read /\ work_out' = work_out

LEMMA DirectValues ==
    ASSUME NEW ev, ProcessDirect(ev)
    PROVE  \E s, n, d, m, bad, got, w : DirectStep(ev, s, n, d, m, bad, got, w)
BY ZenonT(60) DEF ProcessDirect, DirectStep, Consumed

\* What a call for the direct socket decrypts, and how much it leaves.
LEMMA DirectDecrypts ==
    ASSUME Inv, ~closed, NEW ev, NEW s, NEW n, NEW d, NEW m, NEW bad, NEW got, NEW w,
           DirectStep(ev, s, n, d, m, bad, got, w)
    PROVE  /\ s \in 0..to_direct /\ d \in 0..Cap /\ bad \in BOOLEAN
           /\ m \in recv_seq..Len(recs)
           /\ WireAt(m) <= work_read
           /\ d + PlainAt(m) - PlainAt(recv_seq) <= Cap
           /\ \A i \in (recv_seq + 1)..m : recs[i].good
           /\ ~encrypted => m = recv_seq
           /\ encrypted /\ ~bad =>
                Settled(m, work_read, d + PlainAt(m) - PlainAt(recv_seq))
<1>1. TypeOK /\ Records /\ Opened /\ Conserved
  BY DEF Inv
<1>2. s \in 0..to_direct
  BY <1>1, Flushed DEF TypeOK, DirectStep
<1>3. d \in 0..Cap /\ work_read \in Nat /\ WireAt(recv_seq) <= work_read
  BY <1>1, <1>2, RelayAssumption DEF TypeOK, DirectStep, Opened
<1>4. recv_seq \in 0..Len(recs) /\ Len(recs) \in Nat /\ bad \in BOOLEAN
  <2>1. recv_seq \in 0..Len(recs)
    BY <1>1 DEF TypeOK
  <2> QED BY <1>1, <2>1, Offsets DEF DirectStep
<1>5. CASE encrypted /\ work_input > 0
  <2>1. m = decrypt_ready(work_read, d) /\ (bad <=> DecryptFails(work_read, d, m))
    BY <1>5, Zenon DEF DirectStep
  <2>2. /\ m \in recv_seq..Len(recs)
        /\ WireAt(m) <= work_read
        /\ d + PlainAt(m) - PlainAt(recv_seq) <= Cap
        /\ \A i \in (recv_seq + 1)..m : recs[i].good
        /\ ~DecryptFails(work_read, d, m) =>
             Settled(m, work_read, d + PlainAt(m) - PlainAt(recv_seq))
    BY <1>1, <1>3, <2>1, DecryptSettles
  <2> QED BY <1>2, <1>3, <1>4, <1>5, <2>1, <2>2
<1>6. CASE ~(encrypted /\ work_input > 0)
  <2>1. m = recv_seq
    BY <1>6 DEF DirectStep
  <2>2. PlainAt(recv_seq) \in Nat /\ WireAt(recv_seq) \in Nat
    BY <1>1, <1>4, Offsets
  <2>3. d + PlainAt(m) - PlainAt(recv_seq) = d
    BY <1>3, <2>1, <2>2
  <2>4. (recv_seq + 1)..m = {}
    BY <1>4, <2>1
  <2>5. m \in recv_seq..Len(recs) /\ m \in 0..Len(recs)
    BY <1>4, <2>1
  <2>6. ASSUME encrypted PROVE Settled(m, work_read, d)
    <3>1. work_input = 0
      BY <1>1, <1>6, <2>6, RelayAssumption DEF TypeOK
    <3>2. work_input = work_read - WireAt(recv_seq)
      BY <1>1, <2>6 DEF Conserved
    <3>3. work_read = WireAt(m)
      BY <1>3, <2>1, <2>2, <3>1, <3>2
    <3> QED BY <1>1, <2>5, <3>3, NothingWaits
  <2>7. d <= Cap
    BY <1>3, RelayAssumption
  <2> QED BY <1>2, <1>3, <1>4, <2>1, <2>3, <2>4, <2>5, <2>6, <2>7
<1> QED BY <1>5, <1>6

LEMMA DirectKeeps ==
    ASSUME Inv, Frame, ~closed, NEW ev, ProcessDirect(ev)
    PROVE  Inv'
<1>1. PICK s, n, d, m, bad, got, w : DirectStep(ev, s, n, d, m, bad, got, w)
  BY DirectValues
<1>2. /\ s \in 0..to_direct /\ d \in 0..Cap /\ bad \in BOOLEAN
      /\ m \in recv_seq..Len(recs)
      /\ WireAt(m) <= work_read
      /\ d + PlainAt(m) - PlainAt(recv_seq) <= Cap
      /\ \A i \in (recv_seq + 1)..m : recs[i].good
      /\ ~encrypted => m = recv_seq
      /\ encrypted /\ ~bad => Settled(m, work_read, d + PlainAt(m) - PlainAt(recv_seq))
  BY <1>1, DirectDecrypts
<1>3. TypeOK /\ Records /\ Opened /\ Conserved /\ Ended /\ HalfCloseOrder /\ ProxyHeaderFirst
  BY DEF Inv
<1>4. /\ Cap \in Nat /\ HeaderLen \in Nat /\ Chunk \in Nat \ {0} /\ "direct" \in Sides
      /\ to_direct \in Nat /\ to_work \in Nat /\ work_input \in Nat
      /\ to_direct \in 0..Cap /\ encrypted \in BOOLEAN
      /\ direct_sent \in Nat /\ direct_read \in Nat /\ direct_read \in 0..direct_sent
      /\ work_sent \in Nat /\ work_read \in Nat /\ work_read \in 0..work_sent
      /\ direct_out \in Nat /\ work_out \in Nat /\ send_seq \in Nat
      /\ recv_seq \in 0..Len(recs) /\ m \in 0..Len(recs)
  BY <1>2, <1>3, RelayAssumption DEF TypeOK, Sides
<1>5. /\ WireAt(m) \in Nat /\ PlainAt(m) \in Nat
      /\ WireAt(recv_seq) \in Nat /\ PlainAt(recv_seq) \in Nat
      /\ PlainAt(recv_seq) <= PlainAt(m) /\ WireAt(recv_seq) <= WireAt(m)
  BY <1>2, <1>3, <1>4, Offsets, Ordered
<1>6. n \in 0..Available("direct") /\ Available("direct") = direct_sent - direct_read
  <2>1. n \in RecvAmounts(ev, "direct", Chunk)
    BY <1>1 DEF DirectStep
  <2> QED BY <1>3, <1>4, <2>1, Received DEF Available
<1>7. got \in 0..n /\ (~bad => got = n) /\ got \in Nat /\ n \in Nat
  BY <1>1, <1>2, <1>4, <1>6 DEF DirectStep
<1>8. /\ send_seq' \in Nat /\ Boxed(got) \in Nat /\ Overhead \in Nat
      /\ got + send_seq' * Overhead = Boxed(got) + send_seq * Overhead
  <2>1. send_seq' = IF encrypted /\ got > 0 THEN send_seq + 1 ELSE send_seq
    BY <1>1 DEF DirectStep
  <2> QED BY <1>3, <1>7, <2>1, Boxing
<1>9. /\ direct_out' = direct_out + s /\ direct_read' = direct_read + got
      /\ work_read' = work_read /\ work_out' = work_out /\ recv_seq' = m
      /\ d = to_direct - s /\ w = to_work + Boxed(got)
      /\ proxy_header_remaining' = HeaderLeft(s)
  BY <1>1 DEF DirectStep
<1>10. /\ work_out + to_work = direct_read + send_seq * Overhead
       /\ work_input = IF encrypted THEN work_read - WireAt(recv_seq) ELSE 0
       /\ direct_out + to_direct = HeaderLen + (IF encrypted THEN PlainAt(recv_seq) ELSE work_read)
  BY <1>3 DEF Conserved
<1>11. send_seq * Overhead \in Nat /\ send_seq' * Overhead \in Nat
  <2>1. \A a, b \in Nat : a * b \in Nat
    OBVIOUS
  <2> QED BY <1>4, <1>8, <2>1
<1>12. Counted(m)
  <2>1. /\ direct_out' \in Nat /\ direct_out <= direct_out' /\ work_out' \in Nat
        /\ direct_read' \in 0..direct_sent /\ work_read' \in 0..work_sent
    BY <1>2, <1>4, <1>6, <1>7, <1>9
  <2>2. proxy_header_remaining' = HeaderLen - Lesser(HeaderLen, direct_out')
    BY <1>2, <1>3, <1>4, <1>9, HeaderFirst
  <2>3. ASSUME encrypted PROVE direct_out' <= HeaderLen + PlainAt(m)
    <3>1. direct_out + to_direct = HeaderLen + PlainAt(recv_seq)
      BY <1>10, <2>3
    <3>2. /\ direct_out \in Nat /\ to_direct \in Nat /\ HeaderLen \in Nat /\ s \in 0..to_direct
          /\ PlainAt(m) \in Nat /\ PlainAt(recv_seq) \in Nat /\ PlainAt(recv_seq) <= PlainAt(m)
      BY <1>2, <1>4, <1>5
    <3>3. direct_out + s <= HeaderLen + PlainAt(m)
      BY <3>1, <3>2
    <3> QED BY <1>9, <3>3
  <2>4. ASSUME "direct" \in eof PROVE direct_read' = direct_sent /\ got = 0
    BY <1>3, <1>4, <1>6, <1>7, <1>9, <2>4 DEF Ended
  <2>5. ASSUME "work" \in eof PROVE work_read' = work_sent
    BY <1>3, <1>9, <2>5 DEF Ended
  <2>6. ASSUME "work" \in shut PROVE work_out' = direct_sent + send_seq' * Overhead
    <3>1. work_out = direct_sent + send_seq * Overhead /\ "direct" \in eof
      BY <1>3, <2>6 DEF HalfCloseOrder, DirectForwarded, Ended
    <3>2. send_seq' = send_seq
      BY <1>1, <2>4, <3>1 DEF DirectStep
    <3> QED BY <1>9, <3>1, <3>2
  <2>7. ASSUME "direct" \in shut, ~encrypted PROVE direct_out' = HeaderLen + work_sent
    <3>1. direct_out = HeaderLen + work_sent /\ work_read = work_sent
      BY <1>3, <2>7 DEF HalfCloseOrder, WorkForwarded, Ended
    <3>2. s = 0
      BY <1>2, <1>4, <1>10, <2>7, <3>1
    <3> QED BY <1>4, <1>9, <3>1, <3>2
  <2>8. WireAt(m) <= work_read'
    BY <1>2, <1>9
  <2> QED BY <1>2, <1>8, <1>9, <2>1, <2>2, <2>3, <2>4, <2>5, <2>6, <2>7, <2>8 DEF Counted
<1>13. CASE bad \/ w > Cap
  <2>1. ct_relay_close
    BY <1>1, <1>13 DEF DirectStep
  <2> QED BY <1>12, <2>1, Closes
<1>14. CASE ~(bad \/ w > Cap)
  <2>1. PICK dd, in, e : /\ dd = d + PlainAt(m) - PlainAt(recv_seq)
                         /\ in = work_input - (WireAt(m) - WireAt(recv_seq))
                         /\ e = EofSeen(ev, "direct")
    OBVIOUS
  <2>2. Finish(dd, w, in, e)
    BY <1>1, <1>14, <2>1 DEF DirectStep
  <2>3. Balanced(dd, w, in, m)
    <3>1. dd \in 0..Cap
      <4>1. /\ d \in Nat /\ Cap \in Nat /\ PlainAt(m) \in Nat /\ PlainAt(recv_seq) \in Nat
            /\ PlainAt(recv_seq) <= PlainAt(m) /\ d + PlainAt(m) - PlainAt(recv_seq) <= Cap
        BY <1>2, <1>4, <1>5
      <4>2. d + PlainAt(m) - PlainAt(recv_seq) \in 0..Cap
        BY <4>1
      <4> QED BY <2>1, <4>2
    <3>2. w \in 0..Cap
      <4>1. /\ to_work \in Nat /\ Boxed(got) \in Nat /\ Cap \in Nat /\ w = to_work + Boxed(got)
            /\ ~(w > Cap)
        BY <1>4, <1>8, <1>9, <1>14
      <4> QED BY <4>1
    <3>3. work_out' + w = direct_read' + send_seq' * Overhead
      <4>1. PICK a, b \in Nat : a = send_seq * Overhead /\ b = send_seq' * Overhead
        BY <1>11
      <4>2. got + b = Boxed(got) + a /\ work_out + to_work = direct_read + a
        BY <1>8, <1>10, <4>1
      <4>3. /\ work_out \in Nat /\ to_work \in Nat /\ Boxed(got) \in Nat
            /\ direct_read \in Nat /\ got \in Nat
        BY <1>4, <1>7, <1>8
      <4>4. work_out + (to_work + Boxed(got)) = (direct_read + got) + b
        BY <4>2, <4>3
      <4> QED BY <1>9, <4>1, <4>4
    <3>4. in = IF encrypted THEN work_read' - WireAt(m) ELSE 0
      <4>1. CASE encrypted
        <5>1. work_input = work_read - WireAt(recv_seq)
          BY <1>10, <4>1
        <5>2. in = work_read - WireAt(m)
          BY <1>4, <1>5, <2>1, <5>1
        <5> QED BY <1>9, <4>1, <5>2
      <4>2. CASE ~encrypted
        <5>1. work_input = 0 /\ WireAt(m) = WireAt(recv_seq)
          BY <1>2, <1>10, <4>2
        <5> QED BY <1>5, <2>1, <4>2, <5>1
      <4> QED BY <4>1, <4>2
    <3>5. in \in 0..Cap
      <4>1. in \in Nat
        BY <1>2, <1>4, <1>5, <1>9, <3>4
      <4>2. in <= work_input /\ work_input <= Cap
        <5>1. work_input <= Cap
          BY <1>3, <1>4 DEF TypeOK
        <5> QED BY <1>4, <1>5, <2>1, <5>1
      <4> QED BY <1>4, <4>1, <4>2
    <3>6. direct_out' + dd = HeaderLen + (IF encrypted THEN PlainAt(m) ELSE work_read')
      <4>1. /\ dd = to_direct - s + PlainAt(m) - PlainAt(recv_seq) /\ s \in Nat
            /\ direct_out' = direct_out + s
        BY <1>2, <1>9, <2>1
      <4> /\ direct_out \in Nat /\ to_direct \in Nat /\ HeaderLen \in Nat /\ work_read \in Nat
          /\ PlainAt(m) \in Nat /\ PlainAt(recv_seq) \in Nat
        BY <1>4, <1>5
      <4>2. CASE encrypted
        <5>1. direct_out + to_direct = HeaderLen + PlainAt(recv_seq)
          BY <1>10, <4>2
        <5>2. direct_out' + dd = HeaderLen + PlainAt(m)
          BY <4>1, <5>1
        <5> QED BY <4>2, <5>2
      <4>3. CASE ~encrypted
        <5>1. direct_out + to_direct = HeaderLen + work_read /\ PlainAt(m) = PlainAt(recv_seq)
          BY <1>2, <1>10, <4>3
        <5>2. direct_out' + dd = HeaderLen + work_read
          BY <4>1, <5>1
        <5> QED BY <1>9, <4>3, <5>2
      <4> QED BY <4>2, <4>3
    <3>7. encrypted => Settled(m, work_read', dd)
      BY <1>2, <1>9, <1>14, <2>1
    <3> QED BY <3>1, <3>2, <3>3, <3>4, <3>5, <3>6, <3>7 DEF Balanced
  <2>4. /\ eof \subseteq e /\ e \subseteq eof \cup {"direct"} /\ e \subseteq Sides
        /\ "direct" \in e => "direct" \in eof \/ ("direct" \in fin /\ Available("direct") = 0)
    BY <1>3, <1>4, <2>1, EofBehindData
  <2>5. ASSUME "direct" \in e PROVE "direct" \in fin /\ direct_read' = direct_sent
    <3>1. CASE "direct" \in eof
      BY <1>3, <1>12, <3>1 DEF Ended, Counted
    <3>2. CASE "direct" \in fin /\ Available("direct") = 0
      BY <1>4, <1>6, <1>7, <1>9, <3>2
    <3> QED BY <2>4, <2>5, <3>1, <3>2
  <2>6. ASSUME "work" \in e PROVE "work" \in fin /\ work_read' = work_sent
    BY <1>3, <1>12, <2>4, <2>6 DEF Ended, Counted
  <2> QED BY <1>12, <2>2, <2>3, <2>4, <2>5, <2>6, Finishes
<1> QED BY <1>13, <1>14

\* The values a call for the work socket computes.
WorkStep(ev, s, n, read, in, m, d) ==
    /\ s \in FlushAmounts(ev, to_work) /\ n \in RecvAmounts(ev, "work", Chunk + Slack)
    /\ read = work_read + n /\ in = work_input + n
    /\ m = IF encrypted /\ n > 0 /\ in <= Cap THEN decrypt_ready(read, to_direct) ELSE recv_seq
    /\ d = IF encrypted THEN to_direct + PlainAt(m) - PlainAt(recv_seq) ELSE to_direct + n
    /\ work_out' = work_out + s
    /\ work_read' = read
    /\ recv_seq' = m
    /\ IF \/ encrypted /\ in > Cap
          \/ encrypted /\ n > 0 /\ in <= Cap /\ DecryptFails(read, to_direct, m)
          \/ ~encrypted /\ d > Cap
       THEN ct_relay_close
       ELSE Finish(d, to_work - s,
                   IF encrypted THEN in - (WireAt(m) - WireAt(recv_seq)) ELSE work_input,
                   EofSeen(ev, "work"))
    /\ direct_read' = direct_read /\ direct_out' = direct_out /\ send_seq' = send_seq
    /\ proxy_header_remaining' = proxy_header_remaining

LEMMA WorkValues ==
    ASSUME NEW ev, ProcessWork(ev)
    PROVE  \E s, n, read, in, m, d : WorkStep(ev, s, n, read, in, m, d)
BY Zenon DEF ProcessWork, WorkStep, Consumed

\* What a call for the work socket decrypts, and how much it leaves.
LEMMA WorkDecrypts ==
    ASSUME Inv, ~closed, NEW ev, NEW s, NEW n, NEW read, NEW in, NEW m, NEW d,
           WorkStep(ev, s, n, read, in, m, d)
    PROVE  /\ s \in 0..to_work /\ n \in 0..Available("work") /\ n \in Nat
           /\ read \in Nat
           /\ m \in recv_seq..Len(recs)
           /\ WireAt(m) <= read
           /\ to_direct + PlainAt(m) - PlainAt(recv_seq) <= Cap
           /\ \A i \in (recv_seq + 1)..m : recs[i].good
           /\ /\ encrypted /\ in <= Cap
              /\ ~(n > 0 /\ DecryptFails(read, to_direct, m))
              => Settled(m, read, to_direct + PlainAt(m) - PlainAt(recv_seq))
<1>1. TypeOK /\ Records /\ Opened /\ Conserved /\ Waiting
  BY DEF Inv
<1>2. s \in 0..to_work
  BY <1>1, Flushed DEF TypeOK, WorkStep
<1>3. n \in 0..Available("work") /\ Available("work") \in Nat
  <2>1. n \in RecvAmounts(ev, "work", Chunk + Slack)
    BY DEF WorkStep
  <2>2. "work" \in Sides /\ Chunk + Slack \in Nat \ {0}
    BY RelayAssumption DEF Sides
  <2> QED BY <1>1, <2>1, <2>2, Received
<1>4. n \in Nat
  BY <1>3
<1>5. read = work_read + n /\ work_read \in Nat /\ read \in Nat
  BY <1>1, <1>4 DEF TypeOK, WorkStep
<1>6. to_direct \in 0..Cap /\ recv_seq \in 0..Len(recs) /\ Cap \in Nat
  BY <1>1, RelayAssumption DEF TypeOK
<1>7. Len(recs) \in Nat /\ WireAt(recv_seq) \in Nat /\ PlainAt(recv_seq) \in Nat
  BY <1>1, <1>6, Offsets
<1>8. WireAt(recv_seq) <= read
  <2>1. WireAt(recv_seq) <= work_read
    BY <1>1 DEF Opened
  <2> QED BY <1>4, <1>5, <1>7, <2>1
<1>9. CASE encrypted /\ n > 0 /\ in <= Cap
  <2>1. m = decrypt_ready(read, to_direct)
    BY <1>9 DEF WorkStep
  <2>2. /\ m \in recv_seq..Len(recs)
        /\ WireAt(m) <= read
        /\ to_direct + PlainAt(m) - PlainAt(recv_seq) <= Cap
        /\ \A i \in (recv_seq + 1)..m : recs[i].good
        /\ ~DecryptFails(read, to_direct, m) =>
             Settled(m, read, to_direct + PlainAt(m) - PlainAt(recv_seq))
    BY <1>1, <1>5, <1>6, <1>8, <2>1, DecryptSettles
  <2> QED BY <1>2, <1>3, <1>4, <1>5, <1>9, <2>2
<1>10. CASE ~(encrypted /\ n > 0 /\ in <= Cap)
  <2>1. m = recv_seq
    BY <1>10 DEF WorkStep
  <2>2. (recv_seq + 1)..m = {} /\ m \in recv_seq..Len(recs)
    BY <1>6, <1>7, <2>1
  <2>3. to_direct + PlainAt(m) - PlainAt(recv_seq) = to_direct /\ to_direct <= Cap
    BY <1>6, <1>7, <2>1
  <2>4. ASSUME encrypted, in <= Cap PROVE Settled(m, read, to_direct)
    <3>1. n = 0
      BY <1>4, <1>10, <2>4
    <3>2. read = work_read
      BY <1>5, <3>1
    <3> QED BY <1>1, <2>1, <2>4, <3>2 DEF Waiting
  <2>5. WireAt(m) <= read
    BY <1>8, <2>1
  <2> QED BY <1>2, <1>3, <1>4, <1>5, <2>2, <2>3, <2>4, <2>5
<1> QED BY <1>9, <1>10

LEMMA WorkKeeps ==
    ASSUME Inv, Frame, ~closed, NEW ev, ProcessWork(ev)
    PROVE  Inv'
<1>1. PICK s, n, read, in, m, d : WorkStep(ev, s, n, read, in, m, d)
  BY WorkValues
<1>2. /\ s \in 0..to_work /\ n \in 0..Available("work") /\ n \in Nat
      /\ read \in Nat
      /\ m \in recv_seq..Len(recs)
      /\ WireAt(m) <= read
      /\ to_direct + PlainAt(m) - PlainAt(recv_seq) <= Cap
      /\ \A i \in (recv_seq + 1)..m : recs[i].good
      /\ /\ encrypted /\ in <= Cap
         /\ ~(n > 0 /\ DecryptFails(read, to_direct, m))
         => Settled(m, read, to_direct + PlainAt(m) - PlainAt(recv_seq))
  BY <1>1, WorkDecrypts
<1>3. TypeOK /\ Records /\ Opened /\ Conserved /\ Ended /\ HalfCloseOrder /\ ProxyHeaderFirst
  BY DEF Inv
<1>4. /\ Cap \in Nat /\ HeaderLen \in Nat /\ "work" \in Sides
      /\ to_direct \in Nat /\ to_work \in 0..Cap /\ to_work \in Nat
      /\ work_input \in Nat /\ encrypted \in BOOLEAN
      /\ direct_sent \in Nat /\ direct_read \in 0..direct_sent /\ direct_read \in Nat
      /\ work_sent \in Nat /\ work_read \in Nat /\ work_read \in 0..work_sent
      /\ direct_out \in Nat /\ work_out \in Nat /\ send_seq \in Nat
      /\ recv_seq \in 0..Len(recs) /\ m \in 0..Len(recs)
  BY <1>2, <1>3, RelayAssumption DEF TypeOK, Sides
<1>5. /\ WireAt(m) \in Nat /\ PlainAt(m) \in Nat
      /\ WireAt(recv_seq) \in Nat /\ PlainAt(recv_seq) \in Nat
      /\ PlainAt(recv_seq) <= PlainAt(m) /\ WireAt(recv_seq) <= WireAt(m)
  BY <1>2, <1>3, <1>4, Offsets, Ordered
<1>6. /\ work_out' = work_out + s /\ work_read' = read /\ recv_seq' = m
      /\ direct_read' = direct_read /\ direct_out' = direct_out /\ send_seq' = send_seq
      /\ proxy_header_remaining' = proxy_header_remaining
      /\ read = work_read + n /\ in = work_input + n
  BY <1>1 DEF WorkStep
<1>7. /\ work_out + to_work = direct_read + send_seq * Overhead
      /\ work_input = IF encrypted THEN work_read - WireAt(recv_seq) ELSE 0
      /\ direct_out + to_direct = HeaderLen + (IF encrypted THEN PlainAt(recv_seq) ELSE work_read)
  BY <1>3 DEF Conserved
<1>8. Available("work") = work_sent - work_read
  BY DEF Available
<1>9. read \in 0..work_sent /\ (work_read = work_sent => n = 0 /\ read = work_sent)
  BY <1>2, <1>4, <1>6, <1>8
<1>10. Overhead \in Nat /\ send_seq * Overhead \in Nat
  <2>1. \A a, b \in Nat : a * b \in Nat
    OBVIOUS
  <2>2. Overhead \in Nat
    BY RelayAssumption DEF Overhead
  <2> QED BY <1>4, <2>1, <2>2
<1>11. Counted(m)
  <2>1. work_out' \in Nat /\ direct_out <= direct_out' /\ work_read' \in 0..work_sent
    BY <1>2, <1>4, <1>6, <1>9
  <2>2. proxy_header_remaining' = HeaderLen - Lesser(HeaderLen, direct_out')
    BY <1>3, <1>6 DEF ProxyHeaderFirst
  <2>3. ASSUME encrypted PROVE direct_out' <= HeaderLen + PlainAt(m)
    <3>1. direct_out <= HeaderLen + PlainAt(recv_seq)
      BY <1>3, <2>3 DEF Opened
    <3> QED BY <1>4, <1>5, <1>6, <3>1
  <2>4. ASSUME "direct" \in eof PROVE direct_read' = direct_sent
    BY <1>3, <1>6, <2>4 DEF Ended
  <2>5. ASSUME "work" \in eof PROVE work_read' = work_sent
    BY <1>3, <1>6, <1>9, <2>5 DEF Ended
  <2>6. ASSUME "work" \in shut PROVE work_out' = direct_sent + send_seq' * Overhead
    <3>1. work_out = direct_sent + send_seq * Overhead /\ direct_read = direct_sent
      BY <1>3, <2>6 DEF HalfCloseOrder, DirectForwarded
    <3>2. PICK a \in Nat : a = send_seq * Overhead
      BY <1>10
    <3>3. to_work = 0
      <4>1. work_out = direct_sent + a /\ work_out + to_work = direct_sent + a
        BY <1>7, <3>1, <3>2
      <4> QED BY <1>4, <4>1
    <3>4. s = 0
      BY <1>2, <3>3
    <3> QED BY <1>4, <1>6, <3>1, <3>4
  <2>7. ASSUME "direct" \in shut, ~encrypted PROVE direct_out' = HeaderLen + work_sent
    BY <1>3, <1>6, <2>7 DEF HalfCloseOrder, WorkForwarded
  <2>8. WireAt(m) <= work_read'
    BY <1>2, <1>6
  <2>9. send_seq' \in Nat /\ direct_read' \in 0..direct_sent /\ direct_out' \in Nat
    BY <1>4, <1>6
  <2> QED BY <1>2, <1>6, <2>1, <2>2, <2>3, <2>4, <2>5, <2>6, <2>7, <2>8, <2>9 DEF Counted
<1> DEFINE Drop == \/ encrypted /\ in > Cap
                   \/ encrypted /\ n > 0 /\ in <= Cap /\ DecryptFails(read, to_direct, m)
                   \/ ~encrypted /\ d > Cap
<1>12. CASE Drop
  <2>1. ct_relay_close
    BY <1>1, <1>12 DEF WorkStep
  <2> QED BY <1>11, <2>1, Closes
<1>13. CASE ~Drop
  <2>1. PICK w, rest, e : /\ w = to_work - s
                          /\ rest = IF encrypted THEN in - (WireAt(m) - WireAt(recv_seq)) ELSE work_input
                          /\ e = EofSeen(ev, "work")
    OBVIOUS
  <2>2. Finish(d, w, rest, e)
    BY <1>1, <1>13, <2>1 DEF WorkStep
  <2>3. d = IF encrypted THEN to_direct + PlainAt(m) - PlainAt(recv_seq) ELSE to_direct + n
    BY <1>1 DEF WorkStep
  <2>4. encrypted => in <= Cap /\ ~(n > 0 /\ DecryptFails(read, to_direct, m))
    BY <1>2, <1>4, <1>6, <1>13
  <2>5. Balanced(d, w, rest, m)
    <3>1. d \in 0..Cap
      <4>1. CASE encrypted
        BY <1>2, <1>4, <1>5, <2>3, <4>1
      <4>2. CASE ~encrypted
        BY <1>2, <1>4, <1>13, <2>3, <4>2
      <4> QED BY <4>1, <4>2
    <3>2. w \in 0..Cap
      BY <1>2, <1>4, <2>1
    <3>3. work_out' + w = direct_read' + send_seq' * Overhead
      <4>1. PICK a \in Nat : a = send_seq * Overhead
        BY <1>10
      <4>2. work_out + to_work = direct_read + a
        BY <1>7, <4>1
      <4>3. (work_out + s) + (to_work - s) = direct_read + a
        BY <1>2, <1>4, <4>2
      <4> QED BY <1>6, <2>1, <4>1, <4>3
    <3>4. rest = IF encrypted THEN work_read' - WireAt(m) ELSE 0
      <4>1. CASE encrypted
        <5>1. work_input = work_read - WireAt(recv_seq) /\ rest = in - (WireAt(m) - WireAt(recv_seq))
          BY <1>7, <2>1, <4>1
        <5>2. /\ work_read \in Nat /\ n \in Nat /\ WireAt(m) \in Nat /\ WireAt(recv_seq) \in Nat
              /\ work_input \in Nat /\ in = work_input + n
          BY <1>2, <1>4, <1>5, <1>6
        <5>3. rest = (work_read + n) - WireAt(m)
          BY <5>1, <5>2
        <5> QED BY <1>6, <4>1, <5>3
      <4>2. CASE ~encrypted
        BY <1>7, <2>1, <4>2
      <4> QED BY <4>1, <4>2
    <3>5. rest \in 0..Cap
      <4>1. CASE encrypted
        <5>1. rest = read - WireAt(m) /\ rest = in - (WireAt(m) - WireAt(recv_seq)) /\ in <= Cap
          BY <1>6, <2>1, <2>4, <3>4, <4>1
        <5>2. in \in Nat
          BY <1>2, <1>4, <1>6
        <5> QED BY <1>2, <1>4, <1>5, <5>1, <5>2
      <4>2. CASE ~encrypted
        BY <1>4, <3>4, <4>2
      <4> QED BY <4>1, <4>2
    <3>6. direct_out' + d = HeaderLen + (IF encrypted THEN PlainAt(m) ELSE work_read')
      <4>1. CASE encrypted
        <5>1. /\ direct_out + to_direct = HeaderLen + PlainAt(recv_seq)
              /\ d = to_direct + PlainAt(m) - PlainAt(recv_seq)
          BY <1>7, <2>3, <4>1
        <5>2. direct_out + d = HeaderLen + PlainAt(m)
          BY <1>4, <1>5, <5>1
        <5> QED BY <1>6, <4>1, <5>2
      <4>2. CASE ~encrypted
        <5>1. direct_out + to_direct = HeaderLen + work_read /\ d = to_direct + n
          BY <1>7, <2>3, <4>2
        <5>2. direct_out + d = HeaderLen + (work_read + n)
          BY <1>2, <1>4, <5>1
        <5> QED BY <1>6, <4>2, <5>2
      <4> QED BY <4>1, <4>2
    <3>7. encrypted => Settled(m, work_read', d)
      BY <1>2, <1>6, <2>3, <2>4
    <3> QED BY <3>1, <3>2, <3>3, <3>4, <3>5, <3>6, <3>7 DEF Balanced
  <2>6. /\ eof \subseteq e /\ e \subseteq eof \cup {"work"} /\ e \subseteq Sides
        /\ "work" \in e => "work" \in eof \/ ("work" \in fin /\ Available("work") = 0)
    BY <1>3, <1>4, <2>1, EofBehindData
  <2>7. ASSUME "direct" \in e PROVE "direct" \in fin /\ direct_read' = direct_sent
    BY <1>3, <1>11, <2>6, <2>7 DEF Ended, Counted
  <2>8. ASSUME "work" \in e PROVE "work" \in fin /\ work_read' = work_sent
    <3>1. CASE "work" \in eof
      BY <1>3, <1>11, <3>1 DEF Ended, Counted
    <3>2. CASE "work" \in fin /\ Available("work") = 0
      BY <1>4, <1>6, <1>8, <1>9, <3>2
    <3> QED BY <2>6, <2>8, <3>1, <3>2
  <2> QED BY <1>11, <2>2, <2>5, <2>6, <2>7, <2>8, Finishes
<1> QED BY <1>12, <1>13

\* A call that changes nothing but the rings, or nothing at all.
LEMMA BrokenKeeps ==
    ASSUME Inv, Frame, ~closed, ProcessBroken
    PROVE  Inv'
<1>1. TypeOK /\ Opened /\ Ended /\ HalfCloseOrder /\ ProxyHeaderFirst
  BY DEF Inv
<1>2. /\ send_seq' = send_seq /\ recv_seq' = recv_seq
      /\ proxy_header_remaining' = proxy_header_remaining
      /\ direct_read' = direct_read /\ work_read' = work_read
      /\ direct_out' = direct_out /\ work_out' = work_out /\ ct_relay_close
  BY DEF ProcessBroken
<1>3. PICK m : m = recv_seq
  OBVIOUS
<1>4. m \in recv_seq..Len(recs) /\ (recv_seq + 1)..m = {} /\ direct_out <= direct_out
  BY <1>1, <1>3 DEF TypeOK
<1>5. Counted(m)
  <2>1. /\ "direct" \in eof => direct_read' = direct_sent
        /\ "work" \in eof => work_read' = work_sent
        /\ "work" \in shut => work_out' = direct_sent + send_seq' * Overhead
        /\ "direct" \in shut /\ ~encrypted => direct_out' = HeaderLen + work_sent
    BY <1>1, <1>2 DEF Ended, HalfCloseOrder, DirectForwarded, WorkForwarded
  <2>2. /\ WireAt(m) <= work_read'
        /\ encrypted => direct_out' <= HeaderLen + PlainAt(m)
    BY <1>1, <1>2, <1>3 DEF Opened
  <2>3. proxy_header_remaining' = HeaderLen - Lesser(HeaderLen, direct_out')
    BY <1>1, <1>2 DEF ProxyHeaderFirst
  <2>4. /\ recv_seq' = m /\ send_seq' \in Nat
        /\ direct_read' \in 0..direct_sent /\ work_read' \in 0..work_sent
        /\ direct_out' \in Nat /\ work_out' \in Nat /\ direct_out <= direct_out'
    BY <1>1, <1>2, <1>3, <1>4 DEF TypeOK
  <2> QED BY <1>4, <2>1, <2>2, <2>3, <2>4 DEF Counted
<1> QED BY <1>2, <1>5, Closes

\* Nothing of the invariant but a type depends on the batch.
LEMMA BatchOnly ==
    ASSUME Inv, batch' \in SUBSET (Sides \X SUBSET {"R", "W"}), UNCHANGED network,
           UNCHANGED <<rings, eof, closed, shut, send_seq, recv_seq, proxy_header_remaining,
                       direct_read, work_read, direct_out, work_out>>
    PROVE  Inv'
<1>1. TypeOK'
  BY DEF Inv, TypeOK, network, rings
<1>2. Records' /\ Opened' /\ Conserved' /\ Waiting' /\ Ended' /\ ProxyHeaderFirst' /\ HalfCloseOrder'
  BY DEF Inv, network, rings, Records, Opened, Conserved, Waiting, Settled, Oversized, Ended,
         ProxyHeaderFirst, HalfCloseOrder, DirectForwarded, WorkForwarded, Overhead, WireAt, PlainAt
<1> QED BY <1>1, <1>2 DEF Inv

LEMMA EventKeeps ==
    ASSUME Inv, NEW f, NEW ev, ct_relay_process(f, ev)
    PROVE  Inv'
<1>1. Frame
  BY DEF ct_relay_process, Frame
<1>2. CASE closed /\ ProcessClosed
  <2>1. batch' \in SUBSET (Sides \X SUBSET {"R", "W"})
    BY <1>1 DEF Inv, TypeOK, Frame
  <2> QED BY <1>1, <1>2, <2>1, BatchOnly DEF ProcessClosed, Frame
<1>3. CASE ~closed /\ ProcessBroken
  BY <1>1, <1>3, BrokenKeeps
<1>4. CASE ~closed /\ ProcessDirect(ev)
  BY <1>1, <1>4, DirectKeeps
<1>5. CASE ~closed /\ ProcessWork(ev)
  BY <1>1, <1>5, WorkKeeps
<1> QED BY <1>2, <1>3, <1>4, <1>5 DEF ct_relay_process
-----------------------------------------------------------------------------
(***************************************************************************)
(* The peers and the event backend.                                        *)
(***************************************************************************)

LEMMA DirectSendsKeeps ==
    ASSUME Inv, NEW n \in 1..MaxDirect, DirectSends(n)
    PROVE  Inv'
<1>1. TypeOK /\ Ended
  BY DEF Inv
<1>2. "direct" \notin eof /\ "work" \notin shut
  BY <1>1 DEF Ended, DirectSends
<1>3. direct_sent' \in Nat /\ direct_read \in 0..direct_sent'
  BY <1>1, RelayAssumption DEF TypeOK, DirectSends
<1>4. TypeOK'
  BY <1>1, <1>3 DEF TypeOK, DirectSends, Local, rings
<1>5. Ended' /\ HalfCloseOrder'
  BY <1>2 DEF Inv, Ended, HalfCloseOrder, WorkForwarded, WireAt, PlainAt, DirectSends, Local, rings
<1>6. Records' /\ Opened' /\ Conserved' /\ Waiting' /\ ProxyHeaderFirst'
  BY DEF Inv, DirectSends, Local, rings, Records, Opened, Conserved, Waiting, Settled, Oversized,
         ProxyHeaderFirst, Overhead, WireAt, PlainAt
<1> QED BY <1>4, <1>5, <1>6 DEF Inv

LEMMA PeerClosesKeeps ==
    ASSUME Inv, NEW f \in Sides, PeerCloses(f) \/ PeerResets(f)
    PROVE  Inv'
<1>1. /\ fin \subseteq fin' /\ fin' \subseteq fin \cup {f}
      /\ reset' \subseteq reset \cup {f}
      /\ UNCHANGED <<Local, direct_sent, work_sent, recs>>
  BY DEF PeerCloses, PeerResets
<1>2. TypeOK'
  BY <1>1 DEF Inv, TypeOK, Local, rings
<1>3. Ended' /\ HalfCloseOrder'
  BY <1>1 DEF Inv, Ended, HalfCloseOrder, DirectForwarded, WorkForwarded, Overhead, WireAt, PlainAt,
              Local, rings
<1>4. Records'
  BY <1>1 DEF Inv, Records, WireAt, PlainAt, Local
<1>5. Opened' /\ Conserved' /\ Waiting' /\ ProxyHeaderFirst'
  BY <1>1 DEF Inv, Local, rings, Opened, Conserved, Waiting, Settled, Oversized,
              ProxyHeaderFirst, Overhead, WireAt, PlainAt
<1> QED BY <1>2, <1>3, <1>4, <1>5 DEF Inv

LEMMA PollKeeps ==
    ASSUME Inv, NEW writable, Poll(writable)
    PROVE  Inv'
<1>1. \A f \in Sides : \A ev \in SUBSET {"R", "W"} :
        Delivered(f, ev) \subseteq Sides \X SUBSET {"R", "W"}
  <2> SUFFICES ASSUME NEW f \in Sides, NEW ev \in SUBSET {"R", "W"}, NEW x \in Delivered(f, ev)
               PROVE  x \in Sides \X SUBSET {"R", "W"}
    OBVIOUS
  <2>1. (\E e \in ev : x = <<f, {e}>>) \/ x = <<f, ev>>
    BY Zenon DEF Delivered
  <2>2. \A e \in ev : {e} \in SUBSET {"R", "W"}
    OBVIOUS
  <2>3. \A v \in SUBSET {"R", "W"} : <<f, v>> \in Sides \X SUBSET {"R", "W"}
    OBVIOUS
  <2> QED BY <2>1, <2>2, <2>3, Zenon
<1>2. batch' \in SUBSET (Sides \X SUBSET {"R", "W"})
  <2> SUFFICES ASSUME NEW x \in batch' PROVE x \in Sides \X SUBSET {"R", "W"}
    OBVIOUS
  <2>1. PICK f \in Sides :
          x \in Delivered(f, (IF ReadReady(f) THEN {"R"} ELSE {})
                  \cup (IF WriteArmed(f) /\ f \in writable \cup reset THEN {"W"} ELSE {}))
    BY DEF Poll
  <2>2. (IF ReadReady(f) THEN {"R"} ELSE {})
          \cup (IF WriteArmed(f) /\ f \in writable \cup reset THEN {"W"} ELSE {}) \in SUBSET {"R", "W"}
    OBVIOUS
  <2> QED BY <1>1, <2>1, <2>2
<1> QED BY <1>2, BatchOnly DEF Poll

\* A record, complete or truncated, is appended to the ciphertext.
Appended(rec) ==
    /\ encrypted /\ recs' = Append(recs, rec)
    /\ rec \in [wire : Nat, plain : Nat, good : BOOLEAN]
    /\ work_sent + Hdr <= rec.wire /\ work_sent < rec.wire
    /\ PlainAt(Len(recs)) <= rec.plain /\ rec.plain - PlainAt(Len(recs)) <= PeerChunk
    /\ work_sent' \in Nat /\ work_sent <= work_sent'
    /\ "work" \notin fin /\ fin \subseteq fin' /\ fin' \subseteq Sides
    /\ "work" \notin fin' => work_sent' = rec.wire
    /\ UNCHANGED <<Local, direct_sent, reset>>

LEMMA OldOffsets ==
    ASSUME TypeOK, NEW rec, Appended(rec)
    PROVE  /\ Len(recs)' = Len(recs) + 1 /\ Len(recs) \in Nat
           /\ \A i \in 1..Len(recs) : recs'[i] = recs[i]
           /\ recs'[Len(recs) + 1] = rec
           /\ \A i \in 0..Len(recs) : WireAt(i)' = WireAt(i) /\ PlainAt(i)' = PlainAt(i)
           /\ \A i : i = Len(recs) + 1 => WireAt(i)' = rec.wire /\ PlainAt(i)' = rec.plain
<1> DEFINE R == [wire : Nat, plain : Nat, good : BOOLEAN]
<1>1. recs \in Seq(R) /\ rec \in R /\ recs' = Append(recs, rec)
  BY DEF TypeOK, Appended
<1> HIDE DEF R
<1>2. /\ Len(recs') = Len(recs) + 1 /\ Len(recs) \in Nat
      /\ \A i \in 1..Len(recs) : recs'[i] = recs[i]
      /\ recs'[Len(recs) + 1] = rec
  BY <1>1
<1>3. \A i \in 0..Len(recs) : i # 0 => i \in 1..Len(recs)
  BY <1>2
<1>4. \A i \in 0..Len(recs) : WireAt(i)' = WireAt(i) /\ PlainAt(i)' = PlainAt(i)
  BY <1>2, <1>3 DEF WireAt, PlainAt
<1>5. Len(recs) + 1 # 0
  BY <1>2
<1>6. \A i : i = Len(recs) + 1 => WireAt(i)' = rec.wire /\ PlainAt(i)' = rec.plain
  BY <1>2, <1>5 DEF WireAt, PlainAt
<1> QED BY <1>2, <1>4, <1>6

LEMMA AppendedKeeps ==
    ASSUME Inv, NEW rec, Appended(rec)
    PROVE  Inv'
<1>1. TypeOK /\ Records /\ Opened /\ Conserved /\ Waiting /\ Ended /\ ProxyHeaderFirst /\ HalfCloseOrder
  BY DEF Inv
<1>2. /\ Len(recs)' = Len(recs) + 1 /\ Len(recs) \in Nat
      /\ \A i \in 1..Len(recs) : recs'[i] = recs[i]
      /\ recs'[Len(recs) + 1] = rec
      /\ \A i \in 0..Len(recs) : WireAt(i)' = WireAt(i) /\ PlainAt(i)' = PlainAt(i)
      /\ \A i : i = Len(recs) + 1 => WireAt(i)' = rec.wire /\ PlainAt(i)' = rec.plain
  BY <1>1, OldOffsets
<1>3. UNCHANGED <<encrypted, to_direct, to_work, work_input, eof, closed, send_seq, recv_seq,
                  proxy_header_remaining, batch, direct_read, work_read, direct_out, work_out,
                  shut, direct_sent, reset>>
  BY DEF Appended, Local, rings
<1>4. "work" \notin eof /\ "direct" \notin shut
  BY <1>1 DEF Ended, Appended
<1>5. /\ rec.wire \in Nat /\ rec.plain \in Nat /\ work_sent \in Nat /\ Hdr \in Nat \ {0}
      /\ work_sent + Hdr <= rec.wire /\ work_sent < rec.wire
      /\ PlainAt(Len(recs)) <= rec.plain /\ rec.plain - PlainAt(Len(recs)) <= PeerChunk
  BY <1>1, RelayAssumption DEF TypeOK, Appended
<1>6. \A i \in 0..Len(recs) : /\ WireAt(i) \in Nat /\ PlainAt(i) \in Nat
                              /\ WireAt(i) <= work_sent
                              /\ PlainAt(i) <= rec.plain
  <2> SUFFICES ASSUME NEW i \in 0..Len(recs)
               PROVE  /\ WireAt(i) \in Nat /\ PlainAt(i) \in Nat
                      /\ WireAt(i) <= work_sent /\ PlainAt(i) <= rec.plain
    OBVIOUS
  <2>1. Len(recs) \in i..Len(recs) /\ Len(recs) \in 0..Len(recs)
    BY <1>2
  <2>2. /\ WireAt(i) \in Nat /\ PlainAt(i) \in Nat /\ PlainAt(Len(recs)) \in Nat
    BY <1>1, <2>1, Offsets
  <2>3. PlainAt(i) <= PlainAt(Len(recs)) /\ WireAt(i) <= WireAt(Len(recs))
    BY <1>1, <2>1, Ordered
  <2>4. WireAt(i) <= work_sent
    BY <1>1, <2>3 DEF Records, Appended
  <2> QED BY <1>5, <2>2, <2>3, <2>4
<1>7. Records'
  <2>1. ASSUME NEW i \in 0..(Len(recs) + 1), NEW j \in 0..(Len(recs) + 1), i < j
        PROVE  WireAt(i)' + Hdr <= WireAt(j)' /\ PlainAt(i)' <= PlainAt(j)'
    <3>1. i \in 0..Len(recs)
      BY <1>2, <2>1
    <3>2. CASE j \in 0..Len(recs)
      BY <1>1, <1>2, <2>1, <3>1, <3>2 DEF Records
    <3>3. CASE j = Len(recs) + 1
      <4>1. WireAt(j)' = rec.wire /\ PlainAt(j)' = rec.plain
        BY <1>2, <3>3
      <4>2. WireAt(i)' = WireAt(i) /\ PlainAt(i)' = PlainAt(i)
        BY <1>2, <3>1
      <4>3. WireAt(i) + Hdr <= rec.wire /\ PlainAt(i) <= rec.plain
        BY <1>5, <1>6, <3>1
      <4> QED BY <4>1, <4>2, <4>3
    <3> QED BY <1>2, <3>2, <3>3
  <2>2. ASSUME "work" \notin fin' PROVE work_sent' = (WireAt(Len(recs)))'
    <3>1. work_sent' = rec.wire
      BY <2>2 DEF Appended
    <3>2. PICK i : i = Len(recs) + 1
      OBVIOUS
    <3>3. (WireAt(Len(recs)))' = WireAt(i)'
      BY <1>2, <3>2 DEF WireAt
    <3> QED BY <1>2, <3>1, <3>2, <3>3
  <2>3. ASSUME NEW i \in 1..(Len(recs) + 1)
        PROVE  recs'[i].plain - PlainAt(i - 1)' <= PeerChunk
    <3>1. i - 1 \in 0..Len(recs)
      BY <1>2
    <3>2. PlainAt(i - 1)' = PlainAt(i - 1)
      BY <1>2, <3>1
    <3>3. CASE i \in 1..Len(recs)
      BY <1>1, <1>2, <3>2, <3>3 DEF Records
    <3>4. CASE i = Len(recs) + 1
      <4>1. recs'[i] = rec /\ i - 1 = Len(recs)
        BY <1>2, <3>4
      <4> QED BY <1>5, <3>2, <4>1
    <3> QED BY <1>2, <3>3, <3>4
  <2> QED BY <1>2, <2>1, <2>2, <2>3 DEF Records
<1>8. PICK m : m = recv_seq /\ m \in 0..Len(recs)
  BY <1>1 DEF TypeOK
<1>9. /\ (WireAt(recv_seq))' = WireAt(recv_seq) /\ (PlainAt(recv_seq))' = PlainAt(recv_seq)
  <2>1. (WireAt(recv_seq))' = WireAt(m)' /\ (PlainAt(recv_seq))' = PlainAt(m)'
    BY <1>3, <1>8 DEF WireAt, PlainAt
  <2> QED BY <1>2, <1>8, <2>1
<1>10. Opened'
  <2>1. \A i \in 1..recv_seq : i \in 1..Len(recs)
    BY <1>2, <1>8
  <2> QED BY <1>1, <1>2, <1>3, <1>9, <2>1 DEF Opened
<1>11. Conserved' /\ ProxyHeaderFirst'
  BY <1>1, <1>3, <1>9 DEF Conserved, ProxyHeaderFirst, Overhead
<1>12. Waiting'
  <2> SUFFICES ASSUME ~closed, encrypted PROVE Settled(recv_seq, work_read, to_direct)'
    BY <1>3 DEF Waiting
  <2>1. work_read \in Nat /\ work_read <= work_sent /\ WireAt(m) \in Nat
    BY <1>1, <1>6, <1>8 DEF TypeOK
  <2>2. CASE m < Len(recs)
    <3>1. m + 1 \in 1..Len(recs) /\ m + 1 \in 0..Len(recs) /\ (m + 1) - 1 = m
      BY <1>2, <1>8, <2>2
    <3>2. recs'[m + 1] = recs[m + 1] /\ m + 1 # 0 /\ (m # 0 => recs'[m] = recs[m])
      BY <1>2, <1>8, <3>1
    <3>3. Settled(m, work_read, to_direct)
      BY <1>1, <1>8 DEF Waiting
    <3> QED BY <1>3, <1>8, <2>2, <3>1, <3>2, <3>3 DEF Settled, WireAt, PlainAt, Oversized
  <2>3. CASE m = Len(recs)
    <3>1. /\ WireAt(m + 1)' = rec.wire /\ WireAt(m)' = WireAt(m)
      BY <1>2, <1>8, <2>3
    <3>2. ~(rec.wire <= work_read)
      BY <1>5, <2>1
    <3>3. work_read < WireAt(m) + Hdr
      <4>1. work_sent = WireAt(m)
        BY <1>1, <2>3 DEF Records, Appended
      <4> QED BY <1>5, <2>1, <4>1
    <3> QED BY <1>3, <1>8, <3>1, <3>2, <3>3 DEF Settled
  <2> QED BY <1>2, <1>8, <2>2, <2>3
<1>13. Ended' /\ HalfCloseOrder'
  <2>1. "work" \in shut => (DirectForwarded)' /\ "direct" \in fin'
    BY <1>1, <1>3 DEF HalfCloseOrder, DirectForwarded, Overhead, Appended
  <2>2. fin \subseteq fin'
    BY DEF Appended
  <2> QED BY <1>1, <1>3, <1>4, <2>1, <2>2 DEF Ended, HalfCloseOrder
<1>14. TypeOK'
  <2> DEFINE R == [wire : Nat, plain : Nat, good : BOOLEAN]
  <2>1. recs' \in Seq(R)
    <3>1. recs \in Seq(R) /\ rec \in R /\ recs' = Append(recs, rec)
      BY <1>1 DEF TypeOK, Appended
    <3> HIDE DEF R
    <3> QED BY <3>1
  <2>2. recv_seq \in 0..Len(recs')
    BY <1>2, <1>8
  <2>3. work_sent' \in Nat /\ work_read \in 0..work_sent' /\ fin' \subseteq Sides
    BY <1>1 DEF TypeOK, Appended
  <2>4. recs' \in Seq([wire : Nat, plain : Nat, good : BOOLEAN])
    BY <2>1
  <2> HIDE DEF R
  <2> QED BY <1>1, <1>3, <2>2, <2>3, <2>4 DEF TypeOK
<1> QED BY <1>7, <1>10, <1>11, <1>12, <1>13, <1>14 DEF Inv

LEMMA WorkSendsKeeps ==
    ASSUME Inv, NEW n \in 1..PeerChunk, NEW good \in BOOLEAN, WorkSends(n, good)
    PROVE  Inv'
<1>1. TypeOK /\ Records /\ Ended
  BY DEF Inv
<1>2. work_sent \in Nat /\ n \in Nat /\ Hdr \in Nat \ {0} /\ Tag \in Nat /\ PeerChunk \in Nat
  BY <1>1, RelayAssumption DEF TypeOK
<1>3. CASE encrypted
  <2>1. PICK rec : rec = [wire  |-> work_sent + Hdr + n + Tag,
                          plain |-> PlainAt(Len(recs)) + n,
                          good  |-> good]
    OBVIOUS
  <2>2. PlainAt(Len(recs)) \in Nat
    <3>1. Len(recs) \in 0..Len(recs)
      BY <1>1 DEF TypeOK
    <3> QED BY <1>1, <3>1, Offsets
  <2>3. Appended(rec)
    BY <1>1, <1>2, <1>3, <2>1, <2>2 DEF WorkSends, Appended, TypeOK
  <2> QED BY <2>3, AppendedKeeps
<1>4. CASE ~encrypted
  <2>1. /\ work_sent' = work_sent + n /\ recs' = recs /\ fin' = fin
        /\ UNCHANGED <<Local, direct_sent, fin, reset>> /\ "work" \notin fin
    BY <1>4 DEF WorkSends
  <2>2. "work" \notin eof /\ "direct" \notin shut
    BY <1>1, <2>1 DEF Ended
  <2>3. work_sent' \in Nat /\ work_read \in 0..work_sent'
    BY <1>1, <1>2, <2>1 DEF TypeOK
  <2>4. TypeOK'
    BY <1>1, <2>1, <2>3 DEF TypeOK, Local, rings
  <2>5. Ended' /\ HalfCloseOrder'
    BY <2>1, <2>2 DEF Inv, Ended, HalfCloseOrder, DirectForwarded, Overhead, Local, rings
  <2>6. Records' /\ Opened' /\ Conserved' /\ Waiting' /\ ProxyHeaderFirst'
    BY <1>4, <2>1 DEF Inv, Local, rings, Records, Opened, Conserved, Waiting,
         ProxyHeaderFirst, Overhead, WireAt, PlainAt
  <2> QED BY <2>4, <2>5, <2>6 DEF Inv
<1> QED BY <1>3, <1>4

LEMMA WorkTruncatesKeeps ==
    ASSUME Inv, NEW n \in 1..PeerChunk, NEW k \in 1..(Hdr + n + Tag - 1), WorkTruncates(n, k)
    PROVE  Inv'
<1>1. TypeOK
  BY DEF Inv
<1>2. /\ work_sent \in Nat /\ n \in Nat /\ Hdr \in Nat \ {0} /\ Tag \in Nat /\ PeerChunk \in Nat
      /\ k \in Nat
  BY <1>1, RelayAssumption DEF TypeOK
<1>3. PICK rec : rec = [wire  |-> work_sent + Hdr + n + Tag,
                        plain |-> PlainAt(Len(recs)) + n,
                        good  |-> TRUE]
  OBVIOUS
<1>4. PlainAt(Len(recs)) \in Nat
  <2>1. Len(recs) \in 0..Len(recs)
    BY <1>1 DEF TypeOK
  <2> QED BY <1>1, <2>1, Offsets
<1>5. /\ rec \in [wire : Nat, plain : Nat, good : BOOLEAN]
      /\ rec.wire = work_sent + Hdr + n + Tag /\ rec.plain = PlainAt(Len(recs)) + n
  BY <1>2, <1>3, <1>4
<1>6. /\ work_sent + Hdr <= rec.wire /\ work_sent < rec.wire
      /\ PlainAt(Len(recs)) <= rec.plain /\ rec.plain - PlainAt(Len(recs)) <= PeerChunk
  BY <1>2, <1>4, <1>5
<1>7. /\ encrypted /\ recs' = Append(recs, rec) /\ work_sent' = work_sent + k
      /\ "work" \notin fin /\ fin' = fin \cup {"work"}
      /\ UNCHANGED <<Local, direct_sent, reset>>
  BY <1>3 DEF WorkTruncates
<1>8. work_sent' \in Nat /\ work_sent <= work_sent'
  BY <1>2, <1>7
<1>9. fin' \subseteq Sides
  BY <1>1, <1>7 DEF TypeOK, Sides
<1>10. Appended(rec)
  BY <1>5, <1>6, <1>7, <1>8, <1>9 DEF Appended
<1> QED BY <1>10, AppendedKeeps
-----------------------------------------------------------------------------
LEMMA InitInv == Init => Inv
<1> SUFFICES ASSUME Init PROVE Inv
  OBVIOUS
<1>1. TypeOK
  <2>1. <<>> \in Seq([wire : Nat, plain : Nat, good : BOOLEAN]) /\ Len(<<>>) = 0
    OBVIOUS
  <2>2. encrypted \in BOOLEAN /\ HeaderLen \in 0..Cap /\ Cap \in Nat /\ HeaderLen \in Nat
    BY RelayAssumption DEF Init
  <2>3. recs \in Seq([wire : Nat, plain : Nat, good : BOOLEAN]) /\ Len(recs) = 0
    BY <2>1 DEF Init
  <2>4. /\ to_direct \in 0..Cap /\ to_work \in 0..Cap /\ work_input \in 0..Cap
        /\ recv_seq \in 0..Len(recs) /\ proxy_header_remaining \in 0..HeaderLen
    BY <2>2, <2>3 DEF Init
  <2> QED BY <2>2, <2>3, <2>4 DEF Init, TypeOK
<1>2. Records
  <2>1. Len(recs) = 0
    BY DEF Init
  <2> QED BY <2>1 DEF Init, Records, WireAt
<1>3. Opened /\ Conserved /\ Waiting
  <2>1. Len(recs) = 0 /\ recv_seq = 0 /\ HeaderLen \in Nat /\ Hdr \in Nat /\ Tag \in Nat
    BY RelayAssumption DEF Init
  <2> QED BY <2>1 DEF Init, Opened, Conserved, Waiting, Settled, WireAt, PlainAt, Overhead
<1>4. Ended /\ HalfCloseOrder
  BY DEF Init, Ended, HalfCloseOrder
<1>5. ProxyHeaderFirst
  BY RelayAssumption DEF Init, ProxyHeaderFirst, Lesser
<1> QED BY <1>1, <1>2, <1>3, <1>4, <1>5 DEF Inv

LEMMA NextInv == Inv /\ [Next]_vars => Inv'
<1> SUFFICES ASSUME Inv, [Next]_vars PROVE Inv'
  OBVIOUS
<1>1. ASSUME NEW n \in 1..MaxDirect, DirectSends(n) PROVE Inv'
  BY <1>1, DirectSendsKeeps
<1>2. ASSUME NEW n \in 1..PeerChunk, NEW good \in BOOLEAN, WorkSends(n, good) PROVE Inv'
  BY <1>2, WorkSendsKeeps
<1>3. ASSUME NEW n \in 1..PeerChunk, NEW k \in 1..(Hdr + n + Tag - 1), WorkTruncates(n, k)
      PROVE  Inv'
  BY <1>3, WorkTruncatesKeeps
<1>4. ASSUME NEW f \in Sides, PeerCloses(f) \/ PeerResets(f) PROVE Inv'
  BY <1>4, PeerClosesKeeps
<1>5. ASSUME NEW writable, Poll(writable) PROVE Inv'
  BY <1>5, PollKeeps
<1>6. CASE Process
  <2>1. PICK e \in batch : ct_relay_process(e[1], e[2])
    BY <1>6 DEF Process
  <2> QED BY <2>1, EventKeeps
<1>7. CASE UNCHANGED vars
  <2>1. batch' \in SUBSET (Sides \X SUBSET {"R", "W"})
    BY <1>7 DEF Inv, TypeOK, vars
  <2>2. /\ UNCHANGED network
        /\ UNCHANGED <<rings, eof, closed, shut, send_seq, recv_seq, proxy_header_remaining,
                       direct_read, work_read, direct_out, work_out>>
    BY <1>7 DEF vars, network, rings
  <2> QED BY <2>1, <2>2, BatchOnly
<1> QED BY <1>1, <1>2, <1>3, <1>4, <1>5, <1>6, <1>7 DEF Next, Done

LEMMA InvHolds == Spec => []Inv
BY InitInv, NextInv, PTL DEF Spec

\* TypeOK: the rings of a relay never exceed CONFIG_STREAM_BUFFER_SIZE, for
\* every size of buffer, record and send, backend and fault.
THEOREM RelayTypes == Spec => []TypeOK
<1>1. Inv => TypeOK
  BY DEF Inv
<1> QED BY <1>1, InvHolds, PTL

\* Conserved: every byte ct_relay_process takes from a socket is in a ring or
\* was sent on, once, whatever the sizes of the partial sends and reads.
THEOREM BytesConserved == Spec => []Conserved
<1>1. Inv => Conserved
  BY DEF Inv
<1> QED BY <1>1, InvHolds, PTL

\* ProxyHeaderFirst: flush_relay counts the PROXY header down exactly.
THEOREM HeaderCounted == Spec => []ProxyHeaderFirst
<1>1. Inv => ProxyHeaderFirst
  BY DEF Inv
<1> QED BY <1>1, InvHolds, PTL

\* HalfCloseOrder: shutdown(SHUT_WR) never overtakes data, in either direction.
THEOREM HalfCloseLast == Spec => []HalfCloseOrder
<1>1. Inv => HalfCloseOrder
  BY DEF Inv
<1> QED BY <1>1, InvHolds, PTL

\* NoIdleRecord: decrypt_ready leaves a complete record behind only while it
\* does not fit, and every flush that makes room calls it again.
THEOREM RecordsDrained == Spec => []NoIdleRecord
<1>1. Inv => NoIdleRecord
  BY DEF Inv, Waiting, Settled, NoIdleRecord
<1> QED BY <1>1, InvHolds, PTL

\* OnlyAuthentic: the direct peer never gets a byte of a record that is
\* incomplete or does not authenticate, nor of any record after it.
THEOREM AuthenticOnly == Spec => []OnlyAuthentic
<1>1. ASSUME Inv PROVE OnlyAuthentic
  <2> SUFFICES ASSUME encrypted, NEW i \in 1..Len(recs), ~recs[i].good \/ WireAt(i) > work_read
               PROVE  direct_out <= HeaderLen + PlainAt(i - 1)
    BY DEF OnlyAuthentic
  <2>1. TypeOK /\ Records /\ Opened
    BY <1>1 DEF Inv
  <2>2. /\ recv_seq \in 0..Len(recs) /\ Len(recs) \in Nat /\ direct_out \in Nat
        /\ work_read \in Nat /\ HeaderLen \in Nat
    BY <2>1, RelayAssumption DEF TypeOK
  <2>3. /\ i \in 0..Len(recs) /\ i - 1 \in 0..Len(recs)
    BY <2>2
  <2>4. /\ WireAt(i) \in Nat /\ WireAt(recv_seq) \in Nat
        /\ PlainAt(i - 1) \in Nat /\ PlainAt(recv_seq) \in Nat
    BY <2>1, <2>2, <2>3, Offsets
  <2>5. recv_seq < i
    <3>1. ASSUME i <= recv_seq PROVE FALSE
      <4>1. i \in 1..recv_seq /\ recv_seq \in i..Len(recs)
        BY <2>2, <3>1
      <4>2. recs[i].good
        BY <2>1, <4>1 DEF Opened
      <4>3. WireAt(i) <= WireAt(recv_seq) /\ WireAt(recv_seq) <= work_read
        BY <2>1, <2>3, <4>1, Ordered DEF Opened
      <4> QED BY <2>2, <2>4, <4>2, <4>3
    <3> QED BY <2>2, <3>1
  <2>6. i - 1 \in recv_seq..Len(recs)
    BY <2>2, <2>5
  <2>7. PlainAt(recv_seq) <= PlainAt(i - 1)
    BY <2>1, <2>2, <2>6, Ordered
  <2>8. direct_out <= HeaderLen + PlainAt(recv_seq)
    BY <2>1 DEF Opened
  <2> QED BY <2>2, <2>4, <2>7, <2>8
<1> QED BY <1>1, InvHolds, PTL
-----------------------------------------------------------------------------
(***************************************************************************)
(* Nothing is lost, on a backend that respects the READ gates, for an      *)
(* encrypted stream whose peer sends records of at most CHUNK bytes.       *)
(***************************************************************************)

\* Every event is for one flag, and a READ event is for a ring with room.
Gated ==
    /\ \A e \in batch : e[2] = {"R"} \/ e[2] = {"W"}
    /\ <<"direct", {"R"}>> \in batch => to_work < Cap - Chunk - Slack
    /\ <<"work", {"R"}>> \in batch => work_input < Cap - Chunk - Slack

AllGood == \A i \in 1..Len(recs) : recs[i].good

\* A relay closes only when both directions are done.
Complete == closed /\ reset = {} /\ AllGood => eof = Sides /\ shut = Sides

\* A gated relay never fails to decrypt an authentic record.
LEMMA NeverFails ==
    ASSUME TypeOK, Records, AllGood, PeerChunk <= Chunk,
           NEW read, NEW d, NEW m \in 0..Len(recs)
    PROVE  ~DecryptFails(read, d, m)
<1> SUFFICES ASSUME m < Len(recs)
             PROVE  recs[m + 1].good /\ ~Oversized(m + 1)
  BY DEF DecryptFails, Rejected
<1>1. m + 1 \in 1..Len(recs) /\ m + 1 \in 0..Len(recs) /\ (m + 1) - 1 = m /\ m + 1 # 0
  BY DEF TypeOK
<1>2. recs[m + 1].plain - PlainAt(m) <= PeerChunk
  BY <1>1 DEF Records
<1>3. recs[m + 1].plain = PlainAt(m + 1) /\ PlainAt(m + 1) \in Nat /\ PlainAt(m) \in Nat
  BY <1>1, Offsets DEF PlainAt
<1>4. PeerChunk \in Nat /\ Chunk \in Nat
  BY RelayAssumption
<1>5. ~(recs[m + 1].plain - PlainAt(m) > Chunk)
  BY <1>2, <1>3, <1>4
<1> QED BY <1>1, <1>5 DEF AllGood, Oversized

LEMMA FinishComplete ==
    ASSUME TypeOK, NEW d, NEW w, NEW in, NEW e, Finish(d, w, in, e)
    PROVE  closed' => eof' = Sides /\ shut' = Sides
BY DEF Finish, TypeOK, Sides

LEMMA DirectGated ==
    ASSUME Inv, Gated, encrypted, PeerChunk <= Chunk, ~closed, Frame,
           NEW ev, <<"direct", ev>> \in batch, batch' = batch \ {<<"direct", ev>>},
           ProcessDirect(ev)
    PROVE  Gated' /\ (AllGood /\ closed' => eof' = Sides /\ shut' = Sides)
<1>1. PICK s, n, d, m, bad, got, w : DirectStep(ev, s, n, d, m, bad, got, w)
  BY DirectValues
<1>2. TypeOK /\ Records
  BY DEF Inv
<1>3. m \in recv_seq..Len(recs) /\ bad \in BOOLEAN
  BY <1>1, DirectDecrypts
<1>4. /\ recv_seq \in 0..Len(recs) /\ m \in 0..Len(recs) /\ "direct" \in Sides
      /\ Cap \in Nat /\ Chunk \in Nat \ {0} /\ Slack \in Nat /\ Hdr \in Nat /\ Tag \in Nat
      /\ Hdr + Tag <= Slack /\ Chunk + Slack < Cap
      /\ to_work \in Nat /\ to_work <= Cap /\ work_input \in Nat
  BY <1>2, <1>3, RelayAssumption DEF TypeOK, Sides
<1>5. WireAt(recv_seq) \in Nat /\ WireAt(m) \in Nat /\ WireAt(recv_seq) <= WireAt(m)
  BY <1>2, <1>3, <1>4, Offsets, Ordered
<1>6. n \in Nat /\ n <= Chunk /\ (n > 0 => "R" \in ev)
  <2>1. n \in RecvAmounts(ev, "direct", Chunk)
    BY <1>1 DEF DirectStep
  <2>2. Available("direct") \in Nat /\ n \in 0..Available("direct") /\ n <= Chunk /\ (n > 0 => "R" \in ev)
    BY <1>2, <1>4, <2>1, Received
  <2> QED BY <2>2
<1>7. ev = {"R"} \/ ev = {"W"}
  BY Zenon DEF Gated
<1>8. ev = {"W"} => n = 0
  BY <1>6, <1>7
<1>9. /\ got = (IF bad THEN 0 ELSE n) /\ w = to_work + Boxed(got)
      /\ IF bad \/ w > Cap THEN ct_relay_close
         ELSE Finish(d + PlainAt(m) - PlainAt(recv_seq), w,
                     work_input - (WireAt(m) - WireAt(recv_seq)), EofSeen(ev, "direct"))
  BY <1>1 DEF DirectStep
<1>10. got \in Nat /\ got <= n /\ Boxed(got) \in Nat /\ Boxed(got) <= Chunk + Slack /\ (got = 0 => Boxed(got) = 0)
  <2>1. got \in Nat /\ got <= n
    BY <1>3, <1>6, <1>9
  <2> QED BY <1>4, <1>6, <2>1 DEF Boxed
<1>11. w <= Cap
  <2>1. CASE got = 0
    BY <1>4, <1>9, <1>10, <2>1
  <2>2. CASE got # 0
    <3>1. ev = {"R"}
      BY <1>6, <1>7, <1>8, <1>10, <2>2
    <3>2. to_work < Cap - Chunk - Slack
      BY <3>1 DEF Gated
    <3> QED BY <1>4, <1>9, <1>10, <3>2
  <2> QED BY <2>1, <2>2
<1>12. AllGood => ~bad
  <2>1. AllGood => ~DecryptFails(work_read, d, m)
    BY <1>2, <1>4, NeverFails
  <2> QED BY <1>1, <2>1 DEF DirectStep
<1>13. AllGood /\ closed' => eof' = Sides /\ shut' = Sides
  <2> SUFFICES ASSUME AllGood PROVE closed' => eof' = Sides /\ shut' = Sides
    OBVIOUS
  <2>1. PICK dd, in, e : /\ dd = d + PlainAt(m) - PlainAt(recv_seq)
                         /\ in = work_input - (WireAt(m) - WireAt(recv_seq))
                         /\ e = EofSeen(ev, "direct")
    OBVIOUS
  <2>2. ~(bad \/ w > Cap)
    BY <1>4, <1>9, <1>10, <1>11, <1>12
  <2>3. Finish(dd, w, in, e)
    BY <1>9, <2>1, <2>2
  <2> QED BY <1>2, <2>3, FinishComplete
<1>14. /\ work_input' \in Int /\ work_input' <= work_input
       /\ ev = {"W"} => to_work' \in Int /\ to_work' <= to_work
  <2>1. CASE ct_relay_close
    BY <1>4, <2>1 DEF ct_relay_close
  <2>2. CASE ~ct_relay_close
    <3>1. /\ to_work' = w
          /\ \/ work_input' = 0
             \/ work_input' = work_input - (WireAt(m) - WireAt(recv_seq))
      BY <1>9, <2>2 DEF Finish
    <3>2. ev = {"W"} => w = to_work
      BY <1>4, <1>8, <1>9, <1>10
    <3> QED BY <1>4, <1>5, <3>1, <3>2
  <2> QED BY <2>1, <2>2
<1>15. Gated'
  <2>1. ASSUME <<"direct", {"R"}>> \in batch' PROVE to_work' < Cap - Chunk - Slack
    <3>1. <<"direct", {"R"}>> \in batch /\ ev # {"R"}
      BY <2>1
    <3>2. ev = {"W"} /\ to_work < Cap - Chunk - Slack
      BY <1>7, <3>1 DEF Gated
    <3> QED BY <1>4, <1>14, <3>2
  <2>2. ASSUME <<"work", {"R"}>> \in batch' PROVE work_input' < Cap - Chunk - Slack
    <3>1. work_input < Cap - Chunk - Slack
      BY <2>2 DEF Gated
    <3> QED BY <1>4, <1>14, <3>1
  <2> QED BY <2>1, <2>2 DEF Gated
<1> QED BY <1>13, <1>15

LEMMA WorkGated ==
    ASSUME Inv, Gated, encrypted, PeerChunk <= Chunk, ~closed, Frame,
           NEW ev, <<"work", ev>> \in batch, batch' = batch \ {<<"work", ev>>},
           ProcessWork(ev)
    PROVE  Gated' /\ (AllGood /\ closed' => eof' = Sides /\ shut' = Sides)
<1>1. PICK s, n, read, in, m, d : WorkStep(ev, s, n, read, in, m, d)
  BY WorkValues
<1>2. TypeOK /\ Records
  BY DEF Inv
<1>3. m \in recv_seq..Len(recs) /\ s \in 0..to_work
  BY <1>1, WorkDecrypts
<1>4. /\ recv_seq \in 0..Len(recs) /\ m \in 0..Len(recs) /\ "work" \in Sides
      /\ Cap \in Nat /\ Chunk \in Nat /\ Slack \in Nat
      /\ Chunk + Slack < Cap /\ Chunk + Slack \in Nat \ {0}
      /\ to_work \in Nat /\ work_input \in Nat /\ work_input <= Cap
  BY <1>2, <1>3, RelayAssumption DEF TypeOK, Sides
<1>5. WireAt(recv_seq) \in Nat /\ WireAt(m) \in Nat /\ WireAt(recv_seq) <= WireAt(m)
  BY <1>2, <1>3, <1>4, Offsets, Ordered
<1>6. n \in Nat /\ n <= Chunk + Slack /\ (n > 0 => "R" \in ev)
  <2>1. n \in RecvAmounts(ev, "work", Chunk + Slack)
    BY <1>1 DEF WorkStep
  <2>2. /\ Available("work") \in Nat /\ n \in 0..Available("work")
        /\ n <= Chunk + Slack /\ (n > 0 => "R" \in ev)
    BY <1>2, <1>4, <2>1, Received
  <2> QED BY <2>2
<1>7. ev = {"R"} \/ ev = {"W"}
  BY Zenon DEF Gated
<1>8. ev = {"W"} => n = 0
  BY <1>6, <1>7
<1>9. /\ in = work_input + n
      /\ IF \/ encrypted /\ in > Cap
            \/ encrypted /\ n > 0 /\ in <= Cap /\ DecryptFails(read, to_direct, m)
            \/ ~encrypted /\ d > Cap
         THEN ct_relay_close
         ELSE Finish(d, to_work - s,
                     IF encrypted THEN in - (WireAt(m) - WireAt(recv_seq)) ELSE work_input,
                     EofSeen(ev, "work"))
  BY <1>1 DEF WorkStep
<1>10. in \in Nat /\ ~(in > Cap)
  <2>1. CASE n = 0
    BY <1>4, <1>9, <2>1
  <2>2. CASE n # 0
    <3>1. ev = {"R"}
      BY <1>6, <1>7, <1>8, <2>2
    <3>2. work_input < Cap - Chunk - Slack
      BY <3>1 DEF Gated
    <3> QED BY <1>4, <1>6, <1>9, <3>2
  <2> QED BY <2>1, <2>2
<1>11. AllGood /\ closed' => eof' = Sides /\ shut' = Sides
  <2> SUFFICES ASSUME AllGood PROVE closed' => eof' = Sides /\ shut' = Sides
    OBVIOUS
  <2>1. PICK w, rest, e : /\ w = to_work - s
                          /\ rest = in - (WireAt(m) - WireAt(recv_seq))
                          /\ e = EofSeen(ev, "work")
    OBVIOUS
  <2>2. ~DecryptFails(read, to_direct, m)
    BY <1>2, <1>4, NeverFails
  <2>3. Finish(d, w, rest, e)
    BY <1>9, <1>10, <2>1, <2>2
  <2> QED BY <1>2, <2>3, FinishComplete
<1>12. /\ to_work' \in Int /\ to_work' <= to_work
       /\ ev = {"W"} => work_input' \in Int /\ work_input' <= work_input
  <2>1. CASE ct_relay_close
    BY <1>4, <2>1 DEF ct_relay_close
  <2>2. CASE ~ct_relay_close
    <3>1. /\ to_work' = to_work - s
          /\ \/ work_input' = 0
             \/ work_input' = in - (WireAt(m) - WireAt(recv_seq))
      BY <1>9, <2>2 DEF Finish
    <3>2. ev = {"W"} => in = work_input
      BY <1>4, <1>8, <1>9
    <3> QED BY <1>3, <1>4, <1>5, <3>1, <3>2
  <2> QED BY <2>1, <2>2
<1>13. Gated'
  <2>1. ASSUME <<"work", {"R"}>> \in batch' PROVE work_input' < Cap - Chunk - Slack
    <3>1. <<"work", {"R"}>> \in batch /\ ev # {"R"}
      BY <2>1
    <3>2. ev = {"W"} /\ work_input < Cap - Chunk - Slack
      BY <1>7, <3>1 DEF Gated
    <3> QED BY <1>4, <1>12, <3>2
  <2>2. ASSUME <<"direct", {"R"}>> \in batch' PROVE to_work' < Cap - Chunk - Slack
    <3>1. to_work < Cap - Chunk - Slack
      BY <2>2 DEF Gated
    <3> QED BY <1>4, <1>12, <3>1
  <2> QED BY <2>1, <2>2 DEF Gated
<1> QED BY <1>11, <1>13

\* kqueue delivers READ only where ct_relay_events armed it.
LEMMA PollGated ==
    ASSUME DataEncryption, Backend = "kqueue", NEW writable, Poll(writable)
    PROVE  Gated'
<1>1. to_work' = to_work /\ work_input' = work_input
  BY DEF Poll, rings
<1>2. ASSUME NEW x \in batch'
      PROVE  \E f \in Sides : x = <<f, {"W"}>> \/ (x = <<f, {"R"}>> /\ ReadReady(f))
  <2>1. PICK f \in Sides :
          x \in Delivered(f, (IF ReadReady(f) THEN {"R"} ELSE {})
                  \cup (IF WriteArmed(f) /\ f \in writable \cup reset THEN {"W"} ELSE {}))
    BY DEF Poll
  <2>2. PICK a \in (IF ReadReady(f) THEN {"R"} ELSE {})
                    \cup (IF WriteArmed(f) /\ f \in writable \cup reset THEN {"W"} ELSE {}) :
               x = <<f, {a}>>
    BY <2>1 DEF Delivered
  <2>3. a = "W" \/ (a = "R" /\ ReadReady(f))
    OBVIOUS
  <2> QED BY <2>2, <2>3
<1>3. ASSUME NEW f \in Sides, ReadReady(f) PROVE ReadArmed(f)
  BY <1>3 DEF ReadReady, ReadUnmasked
<1>4. ASSUME NEW x \in batch' PROVE x[2] = {"R"} \/ x[2] = {"W"}
  BY <1>2, <1>4
<1>5. ASSUME NEW f \in Sides, <<f, {"R"}>> \in batch' PROVE ReadArmed(f)
  <2>1. {"R"} # {"W"}
    OBVIOUS
  <2>2. PICK g \in Sides : \/ <<f, {"R"}>> = <<g, {"W"}>>
                           \/ (<<f, {"R"}>> = <<g, {"R"}>> /\ ReadReady(g))
    BY <1>2, <1>5
  <2> QED BY <1>3, <2>1, <2>2
<1>6. ASSUME <<"direct", {"R"}>> \in batch' PROVE to_work' < Cap - Chunk - Slack
  BY <1>1, <1>5, <1>6 DEF ReadArmed, Sides
<1>7. ASSUME <<"work", {"R"}>> \in batch' PROVE work_input' < Cap - Chunk - Slack
  BY <1>1, <1>5, <1>7 DEF ReadArmed, Sides
<1> QED BY <1>4, <1>6, <1>7 DEF Gated

\* A step of the peers: the relay itself stands still.
LEMMA PeersGated ==
    ASSUME Gated, Complete, UNCHANGED Local,
           reset' = {} => reset = {}, AllGood' => AllGood
    PROVE  Gated' /\ Complete'
<1>1. /\ batch' = batch /\ to_work' = to_work /\ work_input' = work_input
      /\ closed' = closed /\ eof' = eof /\ shut' = shut
  BY DEF Local, rings
<1> QED BY <1>1 DEF Gated, Complete

\* Appending a record makes no earlier one authentic.
LEMMA AppendedGood ==
    ASSUME Inv, NEW rec, rec \in [wire : Nat, plain : Nat, good : BOOLEAN],
           recs' = Append(recs, rec)
    PROVE  AllGood' => AllGood
<1> DEFINE R == [wire : Nat, plain : Nat, good : BOOLEAN]
<1>1. recs \in Seq(R) /\ rec \in R
  BY DEF Inv, TypeOK
<1> HIDE DEF R
<1>2. Len(recs') = Len(recs) + 1 /\ Len(recs) \in Nat /\ \A i \in 1..Len(recs) : recs'[i] = recs[i]
  BY <1>1
<1>3. \A i \in 1..Len(recs) : i \in 1..Len(recs')
  BY <1>2
<1> QED BY <1>2, <1>3 DEF AllGood

LEMMA EventGated ==
    ASSUME Inv, Gated, Complete, encrypted, PeerChunk <= Chunk,
           NEW f, NEW ev, ct_relay_process(f, ev)
    PROVE  Gated' /\ Complete'
<1>1. Frame /\ recs' = recs /\ reset' = reset
  BY DEF ct_relay_process, Frame, network
<1>2. <<f, ev>> \in batch /\ batch' = batch \ {<<f, ev>>}
  BY DEF ct_relay_process
<1>3. AllGood' <=> AllGood
  BY <1>1 DEF AllGood
<1>4. CASE closed /\ ProcessClosed
  BY <1>1, <1>2, <1>3, <1>4 DEF ProcessClosed, rings, Gated, Complete
<1>5. CASE ~closed /\ f \in reset /\ ProcessBroken
  <2>1. Complete'
    BY <1>1, <1>5 DEF Complete
  <2>2. to_work' = 0 /\ work_input' = 0
    BY <1>5 DEF ProcessBroken, ct_relay_close
  <2>3. 0 < Cap - Chunk - Slack
    BY RelayAssumption
  <2> QED BY <1>2, <2>1, <2>2, <2>3 DEF Gated
<1>6. CASE ~closed /\ f = "direct" /\ ProcessDirect(ev)
  <2>1. Gated' /\ (AllGood /\ closed' => eof' = Sides /\ shut' = Sides)
    BY <1>1, <1>2, <1>6, DirectGated
  <2> QED BY <1>3, <2>1 DEF Complete
<1>7. CASE ~closed /\ f = "work" /\ ProcessWork(ev)
  <2>1. Gated' /\ (AllGood /\ closed' => eof' = Sides /\ shut' = Sides)
    BY <1>1, <1>2, <1>7, WorkGated
  <2> QED BY <1>3, <2>1 DEF Complete
<1> QED BY <1>4, <1>5, <1>6, <1>7 DEF ct_relay_process

LEMMA NextGated ==
    ASSUME Inv, Gated, Complete, encrypted, PeerChunk <= Chunk, DataEncryption,
           Backend = "kqueue", [Next]_vars
    PROVE  encrypted' /\ Gated' /\ Complete'
<1>1. encrypted' = encrypted
  BY DEF Next, DirectSends, WorkSends, WorkTruncates, PeerCloses, PeerResets, Poll, Process,
         ct_relay_process, Done, network, vars, Local
<1>2. ASSUME NEW n \in 1..MaxDirect, DirectSends(n) PROVE Gated' /\ Complete'
  BY <1>2, PeersGated DEF DirectSends, AllGood
<1>3. ASSUME NEW n \in 1..PeerChunk, NEW good \in BOOLEAN, WorkSends(n, good)
      PROVE  Gated' /\ Complete'
  <2>1. PICK rec : rec = [wire  |-> work_sent + Hdr + n + Tag,
                          plain |-> PlainAt(Len(recs)) + n,
                          good  |-> good]
    OBVIOUS
  <2>2. recs' = Append(recs, rec) /\ UNCHANGED Local /\ reset' = reset
    BY <1>3, <2>1 DEF WorkSends
  <2>3. rec \in [wire : Nat, plain : Nat, good : BOOLEAN]
    <3>1. Len(recs) \in 0..Len(recs) /\ work_sent \in Nat
      BY DEF Inv, TypeOK
    <3>2. PlainAt(Len(recs)) \in Nat
      BY <3>1, Offsets DEF Inv
    <3> QED BY <2>1, <3>1, <3>2, RelayAssumption
  <2>4. AllGood' => AllGood
    BY <2>2, <2>3, AppendedGood
  <2> QED BY <2>2, <2>4, PeersGated
<1>4. ASSUME NEW n \in 1..PeerChunk, NEW k \in 1..(Hdr + n + Tag - 1), WorkTruncates(n, k)
      PROVE  Gated' /\ Complete'
  <2>1. PICK rec : rec = [wire  |-> work_sent + Hdr + n + Tag,
                          plain |-> PlainAt(Len(recs)) + n,
                          good  |-> TRUE]
    OBVIOUS
  <2>2. recs' = Append(recs, rec) /\ UNCHANGED Local /\ reset' = reset
    BY <1>4, <2>1 DEF WorkTruncates
  <2>3. rec \in [wire : Nat, plain : Nat, good : BOOLEAN]
    <3>1. Len(recs) \in 0..Len(recs) /\ work_sent \in Nat
      BY DEF Inv, TypeOK
    <3>2. PlainAt(Len(recs)) \in Nat
      BY <3>1, Offsets DEF Inv
    <3> QED BY <2>1, <3>1, <3>2, RelayAssumption
  <2>4. AllGood' => AllGood
    BY <2>2, <2>3, AppendedGood
  <2> QED BY <2>2, <2>4, PeersGated
<1>5. ASSUME NEW f \in Sides, PeerCloses(f) \/ PeerResets(f) PROVE Gated' /\ Complete'
  <2>1. UNCHANGED Local /\ recs' = recs /\ reset \subseteq reset'
    BY <1>5 DEF PeerCloses, PeerResets
  <2>2. (reset' = {} => reset = {}) /\ (AllGood' => AllGood)
    BY <2>1 DEF AllGood
  <2> QED BY <2>1, <2>2, PeersGated
<1>6. ASSUME NEW writable, Poll(writable) PROVE Gated' /\ Complete'
  <2>1. Gated'
    BY <1>6, PollGated
  <2>2. Complete'
    BY <1>6 DEF Poll, network, Complete, AllGood
  <2> QED BY <2>1, <2>2
<1>7. CASE Process
  <2>1. PICK e \in batch : ct_relay_process(e[1], e[2])
    BY <1>7 DEF Process
  <2> QED BY <1>1, <2>1, EventGated
<1>8. CASE UNCHANGED vars
  BY <1>8 DEF vars, Gated, Complete, AllGood
<1> QED BY <1>1, <1>2, <1>3, <1>4, <1>5, <1>6, <1>7, <1>8 DEF Next, Done

\* Lossless, for every buffer size that RelayAssumption allows, on the backend
\* that delivers no READ event behind a paused gate, for an encrypted stream
\* whose peer's records are within CHUNK: a relay whose connections did not
\* break closes only when both streams are forwarded to the last byte.
THEOREM NothingLost ==
    ASSUME Backend = "kqueue", Modes = {TRUE}, PeerChunk <= Chunk
    PROVE  Spec => []Lossless
<1>1. DataEncryption
  BY RelayAssumption
<1>2. Init => encrypted /\ Gated /\ Complete
  BY DEF Init, Gated, Complete
<1>3. Inv /\ encrypted /\ Gated /\ Complete /\ [Next]_vars => encrypted' /\ Gated' /\ Complete'
  BY <1>1, NextGated
<1>4. Inv /\ Complete => Lossless
  BY DEF Inv, Complete, Lossless, AllGood, HalfCloseOrder, Sides
<1> QED BY <1>2, <1>3, <1>4, InvHolds, PTL DEF Spec
==============================================================================
