-------------------------------- MODULE Relay --------------------------------
(***************************************************************************)
(* ct_relay (net/relay.c): one endpoint of an active stream.  It moves     *)
(* bytes between the direct socket (the external user on the server, the   *)
(* local service on the client) and the work socket (the tunnel), through  *)
(* ring buffers of Cap bytes, encrypting towards the tunnel and decrypting *)
(* from it when the service asks for it.  The two sockets and the event    *)
(* backend are its environment.                                            *)
(*                                                                         *)
(* Bytes are counted: Ring proves the buffers first-in first-out, so what  *)
(* a buffer holds is fixed by how much went in and came out.  recs marks   *)
(* where the records of the incoming ciphertext end.                       *)
(***************************************************************************)
EXTENDS Integers, Sequences, FiniteSets

CONSTANTS
    Cap,             \* CONFIG_STREAM_BUFFER_SIZE
    Chunk,           \* CHUNK, the longest plaintext of a record
    Slack,           \* the 32 extra bytes of read_work and of the READ gates
    Hdr, Tag,        \* the 12 header bytes and 16 tag bytes of a record
    DataEncryption,  \* CONFIG_FEATURE_DATA_ENCRYPTION
    Modes,           \* values of r->encrypted: does the service encrypt its data?
    Backend,         \* "epoll", "poll" or "kqueue"
    HeaderLen,       \* length of the PROXY header queued by ct_relay_init
    PeerChunk,       \* CHUNK of the build at the other end of the tunnel
    Faults,          \* faults allowed: "reset", "truncate", "corrupt"
    MaxDirect,       \* bound: bytes the direct peer sends
    MaxWork          \* bound: bytes the tunnel peer sends

ASSUME RelayAssumption ==
    /\ Chunk \in Nat \ {0} /\ PeerChunk \in Nat \ {0}
    /\ Hdr \in Nat \ {0} /\ Tag \in Nat
    /\ Slack \in Nat /\ Slack >= Hdr + Tag
    /\ Cap \in Nat /\ Cap > Chunk + Slack
    /\ HeaderLen \in 0..Cap
    /\ DataEncryption \in BOOLEAN /\ Modes \subseteq BOOLEAN
    /\ TRUE \in Modes => DataEncryption
    /\ Backend \in {"epoll", "poll", "kqueue"}
    /\ Faults \subseteq {"reset", "truncate", "corrupt"}
    /\ MaxDirect \in Nat /\ MaxWork \in Nat

Sides == {"direct", "work"}

VARIABLES
    encrypted,       \* r->encrypted
    to_direct, to_work, work_input,  \* lengths of the three rings
    eof,             \* sides whose recv returned 0 (direct_eof, work_eof)
    closed,          \* r->closed
    send_seq,        \* records encrypted
    recv_seq,        \* records decrypted
    proxy_header_remaining,
    batch,           \* events returned by the last wait, not yet processed
    \* the sockets, as the kernel sees them
    direct_sent, work_sent,   \* bytes the two peers have sent
    direct_read, work_read,   \* bytes received from them
    direct_out, work_out,     \* bytes sent to them
    fin,             \* sides whose peer has closed its sending direction
    shut,            \* sides on which shutdown(SHUT_WR) was called
    reset,           \* sides whose connection broke
    recs             \* the records in the ciphertext sent by the tunnel peer

rings   == <<to_direct, to_work, work_input>>
network == <<encrypted, direct_sent, work_sent, fin, reset, recs>>
vars == <<encrypted, to_direct, to_work, work_input, eof, closed, send_seq, recv_seq,
          proxy_header_remaining, batch, direct_sent, work_sent, direct_read,
          work_read, direct_out, work_out, fin, shut, reset, recs>>

Lesser(a, b) == IF a < b THEN a ELSE b

\* Ciphertext and plaintext offsets of the end of the first i records.
WireAt(i)  == IF i = 0 THEN 0 ELSE recs[i].wire
PlainAt(i) == IF i = 0 THEN 0 ELSE recs[i].plain

Init ==
    /\ encrypted \in Modes
    /\ to_direct = HeaderLen /\ to_work = 0 /\ work_input = 0
    /\ eof = {} /\ closed = FALSE
    /\ send_seq = 0 /\ recv_seq = 0
    /\ proxy_header_remaining = HeaderLen
    /\ batch = {}
    /\ direct_sent = 0 /\ work_sent = 0
    /\ direct_read = 0 /\ work_read = 0
    /\ direct_out = 0 /\ work_out = 0
    /\ fin = {} /\ shut = {} /\ reset = {}
    /\ recs = <<>>
-----------------------------------------------------------------------------
(***************************************************************************)
(* The two peers.                                                          *)
(***************************************************************************)

Local == <<encrypted, rings, eof, closed, send_seq, recv_seq, proxy_header_remaining, batch,
           direct_read, work_read, direct_out, work_out, shut>>

\* The user or the local service sends n bytes.
DirectSends(n) ==
    /\ "direct" \notin fin
    /\ direct_sent + n <= MaxDirect
    /\ direct_sent' = direct_sent + n
    /\ UNCHANGED <<Local, work_sent, fin, reset, recs>>

\* The other relay sends n plaintext bytes, or one record that carries them.
\* A corrupt record is one whose authentication fails.
WorkSends(n, good) ==
    /\ "work" \notin fin
    /\ good \/ "corrupt" \in Faults
    /\ IF encrypted
       THEN /\ work_sent' = work_sent + Hdr + n + Tag
            /\ recs' = Append(recs, [wire  |-> work_sent + Hdr + n + Tag,
                                     plain |-> PlainAt(Len(recs)) + n,
                                     good  |-> good])
       ELSE /\ good
            /\ work_sent' = work_sent + n
            /\ UNCHANGED recs
    /\ work_sent' <= MaxWork
    /\ UNCHANGED <<Local, direct_sent, fin, reset>>

\* The other relay dies while a record is on its way: k of its bytes and an
\* end of file arrive.
WorkTruncates(n, k) ==
    /\ encrypted /\ "truncate" \in Faults
    /\ "work" \notin fin
    /\ k < Hdr + n + Tag /\ work_sent + k <= MaxWork
    /\ work_sent' = work_sent + k
    /\ recs' = Append(recs, [wire  |-> work_sent + Hdr + n + Tag,
                             plain |-> PlainAt(Len(recs)) + n,
                             good  |-> TRUE])
    /\ fin' = fin \cup {"work"}
    /\ UNCHANGED <<Local, direct_sent, reset>>

PeerCloses(f) ==
    /\ f \notin fin
    /\ fin' = fin \cup {f}
    /\ UNCHANGED <<Local, direct_sent, work_sent, reset, recs>>

PeerResets(f) ==
    /\ "reset" \in Faults
    /\ f \notin reset
    /\ reset' = reset \cup {f}
    /\ UNCHANGED <<Local, direct_sent, work_sent, fin, recs>>
-----------------------------------------------------------------------------
(***************************************************************************)
(* Event registration and delivery.                                        *)
(***************************************************************************)

\* Faulty: READ is never paused.
ReadUngated(f) == f \notin eof

\* Faulty: READ pauses as soon as a record may be complete.
ReadPausedEarly(f) ==
    f \notin eof /\ (IF f = "direct" THEN to_work ELSE work_input) < Chunk

\* ct_relay_events: pause READ while the ring it fills is near full.
ReadArmed(f) ==
    IF f = "direct" THEN "direct" \notin eof /\ to_work < Cap - Chunk - Slack
    ELSE /\ "work" \notin eof
         /\ IF DataEncryption THEN work_input < Cap - Chunk - Slack
            ELSE to_direct < Cap - Chunk

WriteArmed(f) == IF f = "direct" THEN to_direct > 0 ELSE to_work > 0

Available(f) == IF f = "direct" THEN direct_sent - direct_read ELSE work_sent - work_read

\* The READ events a backend delivers whether or not READ is armed: epoll
\* always arms EPOLLRDHUP; EPOLLHUP and POLLHUP (both directions closed) and
\* the error flags cannot be masked.
ReadUnmasked(f) ==
    \/ Backend = "epoll" /\ f \in fin
    \/ Backend \in {"epoll", "poll"} /\ (f \in fin \cap shut \/ f \in reset)

ReadReady(f) ==
    \/ ReadArmed(f) /\ (Available(f) > 0 \/ f \in fin \cup reset)
    \/ ReadUnmasked(f)

\* One event per socket with its flags; kqueue reports each filter apart.
Delivered(f, ev) ==
    IF Backend = "kqueue" THEN {<<f, {e}>> : e \in ev}
    ELSE IF ev = {} THEN {} ELSE {<<f, ev>>}

\* event_loop_wait, with the events of every socket registered from the
\* state at the start of the iteration.  writable is the set of sockets with
\* room in their send buffer.
Poll(writable) ==
    /\ ~closed /\ batch = {}
    /\ batch' = UNION {Delivered(f, (IF ReadReady(f) THEN {"R"} ELSE {})
                          \cup (IF WriteArmed(f) /\ f \in writable \cup reset THEN {"W"} ELSE {})) :
                       f \in Sides}
    /\ batch' # {}
    /\ UNCHANGED <<network, rings, eof, closed, send_seq, recv_seq, proxy_header_remaining,
                   direct_read, work_read, direct_out, work_out, shut>>
-----------------------------------------------------------------------------
(***************************************************************************)
(* ct_relay_process.                                                       *)
(***************************************************************************)

\* flush: the socket takes at least one byte of the contiguous part.
FlushAmounts(ev, ring) == IF "W" \in ev /\ ring > 0 THEN 1..ring ELSE {0}

\* What a ring still holds after s of its bytes were sent.
Consumed(ring, s) == ring - s

\* Faulty: any flush counts as the end of the PROXY header.
HeaderGone(s) == IF s > 0 THEN 0 ELSE proxy_header_remaining

\* flush_relay: what is left of the PROXY header after a flush of s bytes.
HeaderLeft(s) == proxy_header_remaining - Lesser(s, proxy_header_remaining)

\* recv of at most limit bytes; 0 is end of file or nothing available.
RecvAmounts(ev, f, limit) ==
    IF "R" \in ev /\ Available(f) > 0 THEN 1..Lesser(Available(f), limit) ELSE {0}

EofSeen(ev, f) == IF "R" \in ev /\ Available(f) = 0 /\ f \in fin THEN eof \cup {f} ELSE eof

\* The i-th record fails: its header announces more than CHUNK bytes, or,
\* complete, it does not authenticate.
Oversized(i) == recs[i].plain - PlainAt(i - 1) > Chunk
Rejected(read, i, room) ==
    \/ Oversized(i) /\ read >= WireAt(i - 1) + Hdr
    \/ ~recs[i].good /\ read >= WireAt(i) /\ recs[i].plain - PlainAt(i - 1) <= room

\* Faulty: the room in to_direct is not checked.
DecryptableAnyRoom(read, d) ==
    {m \in recv_seq..Len(recs) :
        WireAt(m) <= read /\ \A i \in (recv_seq + 1)..m : recs[i].good /\ ~Oversized(i)}

\* Faulty: the result of ct_aead_decrypt is ignored.
DecryptableUnchecked(read, d) ==
    {m \in recv_seq..Len(recs) :
        WireAt(m) <= read /\ d + PlainAt(m) - PlainAt(recv_seq) <= Cap}

\* decrypt_ready: the records decrypted once the loop stops, when the first
\* read ciphertext bytes have been received and to_direct holds d bytes.
\* It stops at a record that is incomplete, does not fit or fails.
Decryptable(read, d) ==
    {m \in recv_seq..Len(recs) :
        /\ WireAt(m) <= read
        /\ d + PlainAt(m) - PlainAt(recv_seq) <= Cap
        /\ \A i \in (recv_seq + 1)..m : recs[i].good /\ ~Oversized(i)}

\* Faulty: one record per call instead of a loop.
decrypt_one(read, d) ==
    IF recv_seq + 1 \in Decryptable(read, d) THEN recv_seq + 1 ELSE recv_seq

decrypt_ready(read, d) ==
    CHOOSE m \in Decryptable(read, d) : \A k \in Decryptable(read, d) : k <= m

DecryptFails(read, d, m) ==
    m < Len(recs) /\ Rejected(read, m + 1, Cap - (d + PlainAt(m) - PlainAt(recv_seq)))

\* ct_relay_close: both sockets closed, the rings freed.
ct_relay_close ==
    /\ closed' = TRUE
    /\ to_direct' = 0 /\ to_work' = 0 /\ work_input' = 0
    /\ UNCHANGED <<eof, shut>>

\* Faulty: a half-close is forwarded at once.
FinishEager(d, w, in, e) ==
    /\ eof' = e
    /\ shut' = shut \cup (IF "direct" \in e THEN {"work"} ELSE {})
                    \cup (IF "work" \in e THEN {"direct"} ELSE {})
    /\ closed' = (e = Sides /\ d = 0 /\ w = 0)
    /\ to_direct' = d /\ to_work' = w
    /\ work_input' = IF closed' THEN 0 ELSE in

\* The end of ct_relay_process: forward a half-close once the opposite ring
\* is empty, and close when both directions are done.
Finish(d, w, in, e) ==
    /\ eof' = e
    /\ shut' = shut \cup (IF "direct" \in e /\ w = 0 THEN {"work"} ELSE {})
                    \cup (IF "work" \in e /\ d = 0 THEN {"direct"} ELSE {})
    /\ closed' = (e = Sides /\ d = 0 /\ w = 0)
    /\ to_direct' = d /\ to_work' = w
    /\ work_input' = IF closed' THEN 0 ELSE in

\* Faulty: the tag is left out of the record.
BoxedUntagged(n) == IF n = 0 THEN 0 ELSE IF encrypted THEN Hdr + n ELSE n

\* Bytes that n received plaintext bytes put in to_work.
Boxed(n) == IF n = 0 THEN 0 ELSE IF encrypted THEN Hdr + n + Tag ELSE n

\* The direct socket is ready: flush to_direct, drain work_input into the
\* room this made, then read, encrypt and queue for the tunnel.
ProcessDirect(ev) ==
    \E s \in FlushAmounts(ev, to_direct), n \in RecvAmounts(ev, "direct", Chunk) :
      LET d     == Consumed(to_direct, s)
          drain == encrypted /\ work_input > 0
          m     == IF drain THEN decrypt_ready(work_read, d) ELSE recv_seq
          bad   == drain /\ DecryptFails(work_read, d, m)
          got   == IF bad THEN 0 ELSE n
          w     == to_work + Boxed(got)
      IN
      /\ direct_out' = direct_out + s
      /\ proxy_header_remaining' = HeaderLeft(s)
      /\ recv_seq' = m
      /\ direct_read' = direct_read + got
      /\ send_seq' = IF encrypted /\ got > 0 THEN send_seq + 1 ELSE send_seq
      /\ IF bad \/ w > Cap THEN ct_relay_close
         ELSE Finish(d + PlainAt(m) - PlainAt(recv_seq), w,
                     work_input - (WireAt(m) - WireAt(recv_seq)), EofSeen(ev, "direct"))
      /\ UNCHANGED <<work_read, work_out>>

\* The work socket is ready: flush to_work, then read into work_input and
\* decrypt, or straight into to_direct.
ProcessWork(ev) ==
    \E s \in FlushAmounts(ev, to_work), n \in RecvAmounts(ev, "work", Chunk + Slack) :
      LET read == work_read + n
          in   == work_input + n
          dec  == encrypted /\ n > 0 /\ in <= Cap
          m    == IF dec THEN decrypt_ready(read, to_direct) ELSE recv_seq
          d    == IF encrypted THEN to_direct + PlainAt(m) - PlainAt(recv_seq)
                  ELSE to_direct + n
      IN
      /\ work_out' = work_out + s
      /\ work_read' = read
      /\ recv_seq' = m
      /\ IF \/ encrypted /\ in > Cap
            \/ dec /\ DecryptFails(read, to_direct, m)
            \/ ~encrypted /\ d > Cap
         THEN ct_relay_close
         ELSE Finish(d, Consumed(to_work, s),
                     IF encrypted THEN in - (WireAt(m) - WireAt(recv_seq)) ELSE work_input,
                     EofSeen(ev, "work"))
      /\ UNCHANGED <<direct_read, direct_out, send_seq, proxy_header_remaining>>

\* send or recv reports that the connection broke.
ProcessBroken ==
    /\ ct_relay_close
    /\ UNCHANGED <<send_seq, recv_seq, proxy_header_remaining, direct_read, work_read,
                   direct_out, work_out>>

\* An event for a relay that an earlier event of the batch closed.
ProcessClosed ==
    UNCHANGED <<rings, eof, closed, shut, send_seq, recv_seq, proxy_header_remaining,
                direct_read, work_read, direct_out, work_out>>

ct_relay_process(f, ev) ==
    /\ <<f, ev>> \in batch
    /\ batch' = batch \ {<<f, ev>>}
    /\ \/ closed /\ ProcessClosed
       \/ ~closed /\ f \in reset /\ ProcessBroken
       \/ ~closed /\ f \notin reset /\ f = "direct" /\ ProcessDirect(ev)
       \/ ~closed /\ f \notin reset /\ f = "work" /\ ProcessWork(ev)
    /\ UNCHANGED network

Process == \E e \in batch : ct_relay_process(e[1], e[2])

\* A closed relay stays closed; its slot is reused by a new relay.
Done == closed /\ batch = {} /\ UNCHANGED vars

Next ==
    \/ \E n \in 1..MaxDirect : DirectSends(n)
    \/ \E n \in 1..PeerChunk, good \in BOOLEAN : WorkSends(n, good)
    \/ \E n \in 1..PeerChunk : \E k \in 1..(Hdr + n + Tag - 1) : WorkTruncates(n, k)
    \/ \E f \in Sides : PeerCloses(f) \/ PeerResets(f)
    \/ \E writable \in SUBSET Sides : Poll(writable)
    \/ Process
    \/ Done

Spec == Init /\ [][Next]_vars

\* The loop processes every batch and polls again, and a peer that keeps
\* reading makes its socket writable again and again.
Fairness == WF_vars(Process) /\ SF_vars(Poll(Sides))

FairSpec == Spec /\ Fairness
-----------------------------------------------------------------------------
(***************************************************************************)
(* Properties.                                                             *)
(***************************************************************************)

Overhead == IF encrypted THEN Hdr + Tag ELSE 0

\* The rings never exceed their capacity, and the relay's counters never run
\* ahead of what the sockets carried.
TypeOK ==
    /\ to_direct \in 0..Cap /\ to_work \in 0..Cap /\ work_input \in 0..Cap
    /\ encrypted \in BOOLEAN
    /\ eof \subseteq Sides /\ fin \subseteq Sides
    /\ shut \subseteq Sides /\ reset \subseteq Sides
    /\ closed \in BOOLEAN
    /\ send_seq \in Nat /\ recv_seq \in 0..Len(recs)
    /\ proxy_header_remaining \in 0..HeaderLen
    /\ batch \subseteq Sides \X SUBSET {"R", "W"}
    /\ direct_sent \in Nat /\ direct_read \in 0..direct_sent
    /\ work_sent \in Nat /\ work_read \in 0..work_sent
    /\ direct_out \in Nat /\ work_out \in Nat
    /\ recs \in Seq([wire : Nat, plain : Nat, good : BOOLEAN])

\* Every byte taken from a socket is in a ring or was sent on, once: towards
\* the tunnel with the overhead of its records, towards the direct socket
\* after the PROXY header.
Conserved ==
    ~closed =>
      /\ work_out + to_work = direct_read + send_seq * Overhead
      /\ work_input = IF encrypted THEN work_read - WireAt(recv_seq) ELSE 0
      /\ direct_out + to_direct = HeaderLen + (IF encrypted THEN PlainAt(recv_seq) ELSE work_read)

\* Everything the direct peer sent went into the tunnel.
DirectForwarded ==
    direct_read = direct_sent /\ work_out = direct_sent + send_seq * Overhead

\* Every complete record, or byte, of the tunnel went to the direct peer.
WorkForwarded ==
    IF encrypted
    THEN \A i \in 1..Len(recs) : WireAt(i) <= work_sent => direct_out >= HeaderLen + PlainAt(i)
    ELSE direct_out = HeaderLen + work_sent

\* A relay whose connections did not break and whose records authenticate
\* closes only after both ends of file, with both streams fully forwarded:
\* no ring overflow ever drops the stream (the READ gates are wide enough).
Lossless ==
    closed /\ reset = {} /\ (\A i \in 1..Len(recs) : recs[i].good)
      => eof = Sides /\ DirectForwarded /\ WorkForwarded

\* shutdown(SHUT_WR) is forwarded only when the opposite peer has closed and
\* all it sent is out: a half-close never cuts data short, not even records
\* still encrypted in work_input.
HalfCloseOrder ==
    /\ "work" \in shut => "direct" \in fin /\ DirectForwarded
    /\ "direct" \in shut => "work" \in fin /\ WorkForwarded

\* Between two calls, a complete record waits in work_input only while it does
\* not fit in to_direct: a flush that makes room drains work_input, because no
\* other event is sure to come.
NoIdleRecord ==
    ~closed /\ encrypted /\ recv_seq < Len(recs) /\ WireAt(recv_seq + 1) <= work_read
      => to_direct + PlainAt(recv_seq + 1) - PlainAt(recv_seq) > Cap

\* The direct peer never sees a byte of a record that is incomplete or that
\* does not authenticate, nor of any record after such a one.
OnlyAuthentic ==
    encrypted =>
      \A i \in 1..Len(recs) :
        (~recs[i].good \/ WireAt(i) > work_read)
          => direct_out <= HeaderLen + PlainAt(i - 1)

\* proxy_header_remaining is what the direct socket has yet to take of the
\* PROXY header, whatever the sizes of the partial sends.
ProxyHeaderFirst ==
    proxy_header_remaining = HeaderLen - Lesser(HeaderLen, direct_out)

\* When both peers have closed, the relay drains and closes: no byte stays in
\* a ring behind a paused READ.
Drains == fin = Sides ~> (closed \/ reset # {})
==============================================================================
