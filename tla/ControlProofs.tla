---------------------------- MODULE ControlProofs ----------------------------
(***************************************************************************)
(* Proofs about Control for every interval, timeout, delay and bound: an   *)
(* end that hears nothing closes in time, an end on a sound path does not  *)
(* close for silence, and no frame is accepted behind one that got lost.   *)
(***************************************************************************)
EXTENDS Control, TLAPS

Kinds      == {"PING", "PONG", "OTHER", "GOAWAY", "PARTIAL"}
WireFrame  == [kind : Kinds, jump : {1, 2}, late : BOOLEAN, age : Nat]
InboxFrame == [kind : Kinds, jump : {1, 2}, late : BOOLEAN]

\* TypeOK with the domains of the functions and the frames in the queues.
Shape ==
    /\ open \subseteq Ends /\ event \subseteq open \cup {"server"}
    /\ wire \in [Ends -> Seq(WireFrame)]
    /\ inbox \in [Ends -> Seq(InboxFrame)]
    /\ unsent \in [Ends -> {0, 1}]
    /\ rx \in [Ends -> Nat] /\ tx \in [Ends -> Nat] /\ lag \in [Ends -> Nat]
    /\ cut \in BOOLEAN /\ misread \in BOOLEAN /\ faults \in 0..MaxFaults
    /\ overdue \subseteq Ends \ open /\ missed \subseteq Ends /\ torn \subseteq Ends
    /\ \A e \in event \cap open : inbox[e] # <<>>

\* An end was not overdue when its batch began, and the batch took lag since.
Clocks == \A e \in open : lag[e] <= Block /\ rx[e] <= Timeout + lag[e]

\* A frame that its receiver refuses, and a queue with such a frame.
Gap(f)   == f.kind = "PARTIAL" \/ f.jump = 2
Shows(q) == \E j \in 1..Len(q) : Gap(q[j])

\* A late frame of the inbox i, or of the wire w behind it, has one that shows
\* the gap before it, or shows it itself.
Safe(i, w) ==
    /\ \A n \in 1..Len(i) : i[n].late => \E j \in 1..n : Gap(i[j])
    /\ \A n \in 1..Len(w) : w[n].late => Shows(i) \/ \E j \in 1..n : Gap(w[j])

\* As long as no frame that shows the gap is out, the next one will show it.
GuardedAt(e) ==
    /\ Safe(inbox[e], wire[e])
    /\ e \in missed => unsent[e] = 1 \/ cut \/ Shows(inbox[e]) \/ Shows(wire[e])

Guarded == \A e \in open : GuardedAt(e)

IInv == Shape /\ Clocks /\ Guarded /\ InOrder

-----------------------------------------------------------------------------
(***************************************************************************)
(* Changes of one pair of queues.                                          *)
(***************************************************************************)

\* A frame is put on the wire.
LEMMA SafeSend ==
    ASSUME NEW i \in Seq(InboxFrame), NEW w \in Seq(WireFrame), NEW f \in WireFrame,
           Safe(i, w), f.late => Gap(f) \/ Shows(i) \/ Shows(w)
    PROVE  /\ Safe(i, Append(w, f))
           /\ Shows(w) => Shows(Append(w, f))
           /\ Gap(f) => Shows(Append(w, f))
<1> DEFINE v == Append(w, f)
<1>1. /\ Len(v) = Len(w) + 1 /\ v[Len(v)] = f /\ Len(w) \in Nat
      /\ \A j \in 1..Len(w) : v[j] = w[j]
  OBVIOUS
<1> HIDE DEF v
<1>2. (Shows(w) => Shows(v)) /\ (Gap(f) => Shows(v))
  BY <1>1 DEF Shows
<1>3. ASSUME NEW n \in 1..Len(v), v[n].late
      PROVE  Shows(i) \/ \E j \in 1..n : Gap(v[j])
  <2>1. CASE n \in 1..Len(w)
    <3>1. v[n] = w[n] /\ w[n].late
      BY <1>1, <1>3, <2>1
    <3>2. Shows(i) \/ \E j \in 1..n : Gap(w[j])
      BY <3>1, <2>1 DEF Safe
    <3>3. \A j \in 1..n : v[j] = w[j]
      BY <1>1, <2>1
    <3> QED
      BY <3>2, <3>3
  <2>2. CASE n = Len(v)
    BY <1>1, <1>2, <1>3, <2>2 DEF Shows
  <2> QED
    BY <1>1, <2>1, <2>2
<1>4. Safe(i, v)
  BY <1>3 DEF Safe
<1> QED
  BY <1>2, <1>4 DEF v

\* The first frame on the wire arrives.
LEMMA SafeArrive ==
    ASSUME NEW i \in Seq(InboxFrame), NEW w \in Seq(WireFrame), w # <<>>,
           Safe(i, w),
           NEW g \in InboxFrame, g.kind = w[1].kind, g.jump = w[1].jump, g.late = w[1].late
    PROVE  /\ Safe(Append(i, g), Tail(w))
           /\ Shows(i) \/ Shows(w) => Shows(Append(i, g)) \/ Shows(Tail(w))
<1> DEFINE k == Append(i, g)
           t == Tail(w)
<1>1. /\ Len(k) = Len(i) + 1 /\ k[Len(k)] = g /\ Len(i) \in Nat
      /\ \A j \in 1..Len(i) : k[j] = i[j]
  OBVIOUS
<1>2. /\ Len(w) \in Nat /\ Len(w) >= 1 /\ Len(t) = Len(w) - 1
      /\ \A j \in 1..Len(t) : t[j] = w[j + 1]
  OBVIOUS
<1> HIDE DEF k, t
<1>3. Gap(w[1]) <=> Gap(g)
  BY DEF Gap
<1>4. (Shows(i) => Shows(k)) /\ (Gap(g) => Shows(k))
  BY <1>1 DEF Shows
<1>5. Shows(w) => Shows(k) \/ Shows(t)
  <2> SUFFICES ASSUME NEW j \in 1..Len(w), Gap(w[j])
               PROVE  Shows(k) \/ Shows(t)
    BY DEF Shows
  <2>1. CASE j = 1
    BY <2>1, <1>3, <1>4
  <2>2. CASE j # 1
    <3>1. j - 1 \in 1..Len(t) /\ t[j - 1] = w[j]
      BY <2>2, <1>2
    <3> QED
      BY <3>1 DEF Shows
  <2> QED
    BY <2>1, <2>2
<1>6. ASSUME NEW n \in 1..Len(k), k[n].late
      PROVE  \E j \in 1..n : Gap(k[j])
  <2>1. CASE n \in 1..Len(i)
    <3>1. k[n] = i[n] /\ i[n].late
      BY <1>1, <1>6, <2>1
    <3>2. \E j \in 1..n : Gap(i[j])
      BY <3>1, <2>1 DEF Safe
    <3>3. \A j \in 1..n : k[j] = i[j]
      BY <1>1, <2>1
    <3> QED
      BY <3>2, <3>3
  <2>2. CASE n = Len(k)
    <3>1. w[1].late
      BY <1>1, <1>6, <2>2
    <3>2. Shows(i) \/ Gap(w[1])
      <4>1. 1 \in 1..Len(w)
        BY <1>2
      <4>2. Shows(i) \/ \E j \in 1..1 : Gap(w[j])
        BY <3>1, <4>1 DEF Safe
      <4> QED
        BY <4>2
    <3>3. Shows(k)
      BY <3>2, <1>3, <1>4
    <3> QED
      BY <3>3, <2>2 DEF Shows
  <2> QED
    BY <1>1, <2>1, <2>2
<1>7. ASSUME NEW n \in 1..Len(t), t[n].late
      PROVE  Shows(k) \/ \E j \in 1..n : Gap(t[j])
  <2>1. n + 1 \in 1..Len(w) /\ w[n + 1].late
    BY <1>2, <1>7
  <2>2. CASE Shows(i)
    BY <2>2, <1>4
  <2>3. ASSUME NEW j \in 1..(n + 1), Gap(w[j])
        PROVE  Shows(k) \/ \E m \in 1..n : Gap(t[m])
    <3>1. CASE j = 1
      BY <2>3, <3>1, <1>3, <1>4
    <3>2. CASE j # 1
      <4>1. j - 1 \in 1..n /\ j - 1 \in 1..Len(t) /\ t[j - 1] = w[j]
        BY <3>2, <1>2
      <4> QED
        BY <4>1, <2>3
    <3> QED
      BY <3>1, <3>2
  <2> QED
    BY <2>1, <2>2, <2>3 DEF Safe
<1>8. Safe(k, t)
  BY <1>6, <1>7 DEF Safe
<1> QED
  BY <1>4, <1>5, <1>8 DEF k, t

\* The first frame of the inbox is accepted.
LEMMA SafeReceive ==
    ASSUME NEW i \in Seq(InboxFrame), NEW w \in Seq(WireFrame), i # <<>>,
           Safe(i, w), ~Gap(i[1])
    PROVE  /\ Safe(Tail(i), w)
           /\ Shows(i) => Shows(Tail(i))
           /\ ~i[1].late
<1> DEFINE t == Tail(i)
<1>1. /\ Len(i) \in Nat /\ Len(i) >= 1 /\ Len(t) = Len(i) - 1
      /\ \A j \in 1..Len(t) : t[j] = i[j + 1]
  OBVIOUS
<1> HIDE DEF t
<1>2. Shows(i) => Shows(t)
  <2> SUFFICES ASSUME NEW j \in 1..Len(i), Gap(i[j])
               PROVE  Shows(t)
    BY DEF Shows
  <2>1. j # 1
    OBVIOUS
  <2>2. j - 1 \in 1..Len(t) /\ t[j - 1] = i[j]
    BY <2>1, <1>1
  <2> QED
    BY <2>2 DEF Shows
<1>3. ASSUME i[1].late PROVE FALSE
  <2>1. 1 \in 1..Len(i)
    BY <1>1
  <2>2. \E j \in 1..1 : Gap(i[j])
    BY <1>3, <2>1 DEF Safe
  <2> QED
    BY <2>2
<1>4. ASSUME NEW n \in 1..Len(t), t[n].late
      PROVE  \E j \in 1..n : Gap(t[j])
  <2>1. n + 1 \in 1..Len(i) /\ i[n + 1].late
    BY <1>1, <1>4
  <2>2. PICK j \in 1..(n + 1) : Gap(i[j])
    BY <2>1 DEF Safe
  <2>3. j # 1
    BY <2>2
  <2>4. j - 1 \in 1..n /\ j - 1 \in 1..Len(t) /\ t[j - 1] = i[j]
    BY <2>3, <1>1
  <2> QED
    BY <2>2, <2>4
<1>5. Safe(t, w)
  BY <1>2, <1>4 DEF Safe
<1> QED
  BY <1>2, <1>3, <1>5 DEF t

\* The frames on the wire grow older.
LEMMA SafeTick ==
    ASSUME NEW i \in Seq(InboxFrame), NEW w \in Seq(WireFrame), NEW v \in Seq(WireFrame),
           Safe(i, w), Len(v) = Len(w),
           \A j \in 1..Len(w) : /\ v[j].kind = w[j].kind
                                /\ v[j].jump = w[j].jump
                                /\ v[j].late = w[j].late
    PROVE  Safe(i, v) /\ (Shows(w) => Shows(v))
<1>1. \A j \in 1..Len(w) : Gap(v[j]) <=> Gap(w[j])
  BY DEF Gap
<1>2. Shows(w) => Shows(v)
  BY <1>1 DEF Shows
<1>3. ASSUME NEW n \in 1..Len(v), v[n].late
      PROVE  Shows(i) \/ \E j \in 1..n : Gap(v[j])
  <2>1. n \in 1..Len(w) /\ w[n].late /\ Len(w) \in Nat
    BY <1>3
  <2>2. Shows(i) \/ \E j \in 1..n : Gap(w[j])
    BY <2>1 DEF Safe
  <2>3. 1..n \subseteq 1..Len(w)
    BY <2>1
  <2> QED
    BY <2>2, <2>3, <1>1
<1> QED
  BY <1>2, <1>3 DEF Safe

-----------------------------------------------------------------------------
(***************************************************************************)
(* What the operators shared by the actions do.                            *)
(***************************************************************************)

LEMMA PeerIsOther ==
    ASSUME NEW e \in Ends
    PROVE  Peer(e) \in Ends /\ Peer(e) # e
BY DEF Peer, Ends

\* One frame to e is put on the wire, or none.
LEMMA SentTo ==
    ASSUME Shape, NEW e \in Ends, NEW kind \in Kinds
    PROVE  /\ Sent(e, kind) \in [Ends -> Seq(WireFrame)]
           /\ \A q \in Ends : q # e => Sent(e, kind)[q] = wire[q]
           /\ Frame(e, kind) \in WireFrame
           /\ Sent(e, kind)[e] = IF cut \/ e \notin open THEN wire[e]
                                ELSE Append(wire[e], Frame(e, kind))
<1>1. unsent[e] \in {0, 1} /\ wire[e] \in Seq(WireFrame)
  BY DEF Shape
<1>2. 1 + unsent[e] \in {1, 2} /\ (e \in missed) \in BOOLEAN
  BY <1>1
<1>3. Frame(e, kind) \in WireFrame
  BY <1>2 DEF Frame, WireFrame
<1>4. Append(wire[e], Frame(e, kind)) \in Seq(WireFrame)
  BY <1>1, <1>3
<1> QED
  BY <1>3, <1>4 DEF Sent, Shape

\* The frame to e is guarded as the ones before it.
LEMMA SentGuarded ==
    ASSUME Shape, NEW e \in open, NEW kind \in Kinds, GuardedAt(e)
    PROVE  /\ Safe(inbox[e], Sent(e, kind)[e])
           /\ e \in missed => cut \/ Shows(inbox[e]) \/ Shows(Sent(e, kind)[e])
<1>1. e \in Ends /\ inbox[e] \in Seq(InboxFrame) /\ wire[e] \in Seq(WireFrame)
  BY DEF Shape
<1> DEFINE f == Frame(e, kind)
<1>2. f \in WireFrame
  BY <1>1, SentTo
<1>3. CASE cut
  <2>1. Sent(e, kind)[e] = wire[e]
    BY <1>1, <1>3, SentTo
  <2> QED
    BY <2>1, <1>3 DEF GuardedAt
<1>4. CASE ~cut
  <2>1. Sent(e, kind)[e] = Append(wire[e], f)
    BY <1>1, <1>4, SentTo
  <2>2. f.late <=> e \in missed
    BY DEF Frame
  <2>3. unsent[e] = 1 => Gap(f)
    BY DEF Frame, Gap
  <2>4. e \in missed => Gap(f) \/ Shows(inbox[e]) \/ Shows(wire[e])
    BY <2>3, <1>4 DEF GuardedAt
  <2> HIDE DEF f
  <2>5. Safe(inbox[e], wire[e])
    BY DEF GuardedAt
  <2>6. f.late => Gap(f) \/ Shows(inbox[e]) \/ Shows(wire[e])
    BY <2>2, <2>4
  <2>7. /\ Safe(inbox[e], Append(wire[e], f))
        /\ Shows(wire[e]) => Shows(Append(wire[e], f))
        /\ Gap(f) => Shows(Append(wire[e], f))
    BY <1>1, <1>2, <2>5, <2>6, SafeSend
  <2> QED
    BY <2>1, <2>4, <2>7
<1> QED
  BY <1>3, <1>4

\* SendFrame by e: its peer, whose inbox stays, is guarded afterwards.
LEMMA SendFrameStep ==
    ASSUME Shape, Guarded, NEW e \in Ends, NEW kind \in Kinds, SendFrame(e, kind),
           UNCHANGED <<open, cut>>, inbox'[Peer(e)] = inbox[Peer(e)]
    PROVE  /\ wire' \in [Ends -> Seq(WireFrame)] /\ wire'[e] = wire[e]
           /\ unsent' \in [Ends -> {0, 1}] /\ unsent'[e] = unsent[e]
           /\ tx' \in [Ends -> Nat]
           /\ Peer(e) \in open => GuardedAt(Peer(e))'
<1>1. Peer(e) \in Ends /\ Peer(e) # e
  BY PeerIsOther
<1>2. wire' = Sent(Peer(e), kind)
  BY DEF SendFrame
<1>3. wire' \in [Ends -> Seq(WireFrame)] /\ wire'[e] = wire[e]
  BY <1>1, <1>2, SentTo
<1>4. unsent' \in [Ends -> {0, 1}] /\ unsent'[e] = unsent[e]
  BY <1>1 DEF SendFrame, Shape
<1>5. tx' \in [Ends -> Nat]
  BY DEF SendFrame, Shape
<1>6. ASSUME Peer(e) \in open PROVE GuardedAt(Peer(e))'
  <2>1. GuardedAt(Peer(e))
    BY <1>6 DEF Guarded
  <2>2. missed' = missed
    BY DEF SendFrame
  <2> QED
    BY <2>1, <2>2, <1>2, <1>6, SentGuarded DEF GuardedAt
<1> QED
  BY <1>3, <1>4, <1>5, <1>6

\* Stop of e: what is left of Shape and Guarded is about the other end.
LEMMA StopStep ==
    ASSUME Shape, Guarded, NEW e \in open, Stop(e), UNCHANGED <<unsent, missed, cut>>,
           event' \subseteq event
    PROVE  /\ open' \subseteq Ends /\ open' = open \ {e}
           /\ \A q \in event' \cap open' : inbox'[q] # <<>>
           /\ wire' \in [Ends -> Seq(WireFrame)]
           /\ inbox' \in [Ends -> Seq(InboxFrame)]
           /\ Guarded'
<1>1. e \in Ends /\ Peer(e) \in Ends /\ Peer(e) # e
  BY PeerIsOther DEF Shape
<1>2. "GOAWAY" \in Kinds
  BY DEF Kinds
<1> DEFINE w == Sent(Peer(e), "GOAWAY")
<1>3. w \in [Ends -> Seq(WireFrame)]
  BY <1>1, <1>2, SentTo
<1>4. wire' = [w EXCEPT ![e] = <<>>]
  BY DEF Stop
<1> HIDE DEF w
<1>5. wire' \in [Ends -> Seq(WireFrame)] /\ wire'[Peer(e)] = w[Peer(e)]
  BY <1>1, <1>3, <1>4
<1>6. inbox' \in [Ends -> Seq(InboxFrame)] /\ inbox'[Peer(e)] = inbox[Peer(e)]
  BY <1>1 DEF Stop, Shape
<1>7. open' = open \ {e} /\ open' \subseteq Ends
  BY DEF Stop, Shape
<1>8. \A q \in Ends : q # e => q = Peer(e)
  BY <1>1 DEF Ends, Peer
<1>9. \A q \in event' \cap open' : inbox'[q] # <<>>
  BY <1>6, <1>7, <1>8 DEF Shape
<1>10. ASSUME NEW q \in open' PROVE GuardedAt(q)'
  <2>1. q = Peer(e) /\ q \in open /\ GuardedAt(q)
    BY <1>7, <1>8 DEF Guarded
  <2>2. /\ Safe(inbox[q], w[q])
        /\ q \in missed => cut \/ Shows(inbox[q]) \/ Shows(w[q])
    BY <2>1, <1>2, SentGuarded DEF w
  <2> QED
    BY <2>1, <2>2, <1>5, <1>6 DEF GuardedAt
<1> QED
  BY <1>5, <1>6, <1>7, <1>9, <1>10 DEF Guarded

-----------------------------------------------------------------------------
(***************************************************************************)
(* The steps.                                                              *)
(***************************************************************************)

LEMMA InitOK == Init => IInv
<1> SUFFICES ASSUME Init PROVE IInv
  OBVIOUS
<1>1. Shape
  <2>1. <<>> \in Seq(WireFrame) /\ <<>> \in Seq(InboxFrame)
    OBVIOUS
  <2>2. wire \in [Ends -> Seq(WireFrame)] /\ inbox \in [Ends -> Seq(InboxFrame)]
    BY <2>1 DEF Init
  <2>3. /\ unsent \in [Ends -> {0, 1}]
        /\ rx \in [Ends -> Nat] /\ tx \in [Ends -> Nat] /\ lag \in [Ends -> Nat]
        /\ faults \in 0..MaxFaults
    BY ControlAssumption DEF Init
  <2> QED
    BY <2>2, <2>3 DEF Init, Shape
<1>2. Clocks
  BY ControlAssumption DEF Init, Clocks
<1>3. Guarded
  BY DEF Init, Guarded, GuardedAt, Safe
<1> QED
  BY <1>1, <1>2, <1>3 DEF IInv, InOrder, Init

LEMMA ArriveOK == ASSUME IInv, NEW e \in Ends, Arrive(e) PROVE IInv'
<1> DEFINE f == wire[e][1]
           g == [kind |-> f.kind, jump |-> f.jump, late |-> f.late]
<1>1. /\ wire \in [Ends -> Seq(WireFrame)] /\ inbox \in [Ends -> Seq(InboxFrame)]
      /\ wire[e] \in Seq(WireFrame) /\ inbox[e] \in Seq(InboxFrame) /\ wire[e] # <<>>
  BY DEF IInv, Shape, Arrive
<1>2. f \in WireFrame /\ Head(wire[e]) = f
  BY <1>1
<1>3. g \in InboxFrame /\ g.kind = f.kind /\ g.jump = f.jump /\ g.late = f.late
  BY <1>2 DEF WireFrame, InboxFrame
<1>4. inbox' = [inbox EXCEPT ![e] = Append(@, g)] /\ wire' = [wire EXCEPT ![e] = Tail(@)]
  BY <1>2 DEF Arrive
<1> HIDE DEF g
<1>5. Append(inbox[e], g) \in Seq(InboxFrame) /\ Tail(wire[e]) \in Seq(WireFrame)
      /\ Append(inbox[e], g) # <<>>
  <2> DEFINE k == Append(inbox[e], g)
  <2>1. k \in Seq(InboxFrame) /\ Len(k) > 0
    BY <1>1, <1>3
  <2>2. Tail(wire[e]) \in Seq(WireFrame)
    BY <1>1
  <2> HIDE DEF k
  <2>3. k # <<>>
    BY <2>1
  <2> QED
    BY <2>1, <2>2, <2>3 DEF k
<1>6. Shape'
  BY <1>1, <1>4, <1>5 DEF IInv, Shape, Arrive
<1>7. Clocks'
  BY DEF IInv, Clocks, Arrive
<1>8. ASSUME NEW q \in open' PROVE GuardedAt(q)'
  <2>1. q \in Ends /\ GuardedAt(q)
    BY <1>8 DEF IInv, Shape, Guarded, Arrive
  <2>2. CASE q # e
    BY <2>1, <2>2, <1>1, <1>4 DEF GuardedAt, Arrive
  <2>3. CASE q = e
    <3>1. /\ Safe(Append(inbox[e], g), Tail(wire[e]))
          /\ Shows(inbox[e]) \/ Shows(wire[e]) => Shows(Append(inbox[e], g)) \/ Shows(Tail(wire[e]))
      BY <2>1, <2>3, <1>1, <1>3, SafeArrive DEF GuardedAt
    <3>2. inbox'[e] = Append(inbox[e], g) /\ wire'[e] = Tail(wire[e])
      BY <1>1, <1>4
    <3> QED
      BY <2>1, <2>3, <3>1, <3>2 DEF GuardedAt, Arrive
  <2> QED
    BY <2>2, <2>3
<1> QED
  BY <1>6, <1>7, <1>8 DEF IInv, Guarded, InOrder, Arrive

LEMMA ReceiveOK == ASSUME IInv, NEW e \in Ends, Receive(e) PROVE IInv'
<1> DEFINE f == inbox[e][1]
           p == Peer(e)
<1>1. /\ inbox \in [Ends -> Seq(InboxFrame)] /\ inbox[e] \in Seq(InboxFrame)
      /\ inbox[e] # <<>> /\ e \in open /\ p \in Ends /\ p # e
  BY PeerIsOther DEF IInv, Shape, Receive
<1>2. Head(inbox[e]) = f /\ f \in InboxFrame /\ Tail(inbox[e]) \in Seq(InboxFrame)
  BY <1>1
<1>3. ~Gap(f)
  BY <1>2 DEF Receive, Acceptable, Gap
<1>4. /\ Safe(Tail(inbox[e]), wire[e])
      /\ Shows(inbox[e]) => Shows(Tail(inbox[e]))
      /\ ~f.late
  <2>1. Safe(inbox[e], wire[e]) /\ wire[e] \in Seq(WireFrame)
    BY <1>1 DEF IInv, Shape, Guarded, GuardedAt
  <2> QED
    BY <2>1, <1>1, <1>3, SafeReceive
<1>5. inbox' = [inbox EXCEPT ![e] = Tail(@)] /\ rx' = [rx EXCEPT ![e] = 0] /\ torn' = torn
  BY <1>2, <1>4 DEF Receive, Heard
<1>6. /\ inbox' \in [Ends -> Seq(InboxFrame)] /\ inbox'[e] = Tail(inbox[e])
      /\ inbox'[p] = inbox[p]
  BY <1>1, <1>2, <1>5
<1>7. /\ UNCHANGED <<open, lag, cut, faults, overdue, missed, misread>>
      /\ event' = event \ {e}
  BY DEF Receive, SendFrame
<1>8. /\ wire' \in [Ends -> Seq(WireFrame)] /\ wire'[e] = wire[e]
      /\ unsent' \in [Ends -> {0, 1}] /\ unsent'[e] = unsent[e]
      /\ tx' \in [Ends -> Nat]
      /\ p \in open => GuardedAt(p)'
  <2>1. CASE f.kind = "PING"
    <3>1. SendFrame(e, "PONG") /\ "PONG" \in Kinds
      BY <2>1, <1>2 DEF Receive, Kinds
    <3> QED
      BY <3>1, <1>6, <1>7, SendFrameStep DEF IInv
  <2>2. CASE f.kind # "PING"
    <3>1. UNCHANGED <<wire, unsent, missed, tx>>
      BY <2>2, <1>2 DEF Receive
    <3> QED
      BY <3>1, <1>6, <1>7 DEF IInv, Shape, Guarded, GuardedAt
  <2> QED
    BY <2>1, <2>2
<1>9. Shape'
  <2>1. rx' \in [Ends -> Nat]
    BY <1>5 DEF IInv, Shape
  <2>2. \A q \in event' \cap open' : inbox'[q] # <<>>
    BY <1>1, <1>5, <1>7 DEF IInv, Shape
  <2> QED
    BY <2>1, <2>2, <1>5, <1>6, <1>7, <1>8 DEF IInv, Shape
<1>10. Clocks'
  BY <1>5, <1>7, ControlAssumption DEF IInv, Shape, Clocks
<1>11. GuardedAt(e)'
  <2>1. GuardedAt(e)
    BY <1>1 DEF IInv, Guarded
  <2> QED
    BY <2>1, <1>4, <1>6, <1>7, <1>8 DEF GuardedAt
<1>12. Guarded'
  <2>1. \A q \in open' : q = e \/ (q = p /\ p \in open)
    BY <1>7, <1>1 DEF IInv, Shape, Ends, Peer
  <2> QED
    BY <2>1, <1>8, <1>11 DEF Guarded
<1> QED
  BY <1>5, <1>9, <1>10, <1>12 DEF IInv, InOrder

\* ReceiveEnds, AnswerFails, SendOtherFails, PingFails and EndBatch of an overdue
\* end: only the server may keep the event of a stopped end in its batch.
LEMMA StopOK ==
    ASSUME IInv, NEW e \in open, Stop(e),
           UNCHANGED <<unsent, missed, rx, tx, lag, cut, torn, misread>>,
           faults' \in 0..MaxFaults, overdue' \in {overdue, overdue \cup {e}},
           event' \subseteq event, e \in event' => e = "server"
    PROVE  IInv'
<1>1. /\ open' \subseteq Ends /\ open' = open \ {e}
      /\ \A q \in event' \cap open' : inbox'[q] # <<>>
      /\ wire' \in [Ends -> Seq(WireFrame)]
      /\ inbox' \in [Ends -> Seq(InboxFrame)]
      /\ Guarded'
  BY StopStep DEF IInv
<1>2. overdue' \subseteq Ends \ open'
  BY <1>1 DEF IInv, Shape
<1>3. Shape'
  <2>1. event' \subseteq open' \cup {"server"}
    BY <1>1 DEF IInv, Shape
  <2> QED
    BY <1>1, <1>2, <2>1 DEF IInv, Shape
<1>4. Clocks'
  BY <1>1 DEF IInv, Clocks
<1> QED
  BY <1>1, <1>3, <1>4 DEF IInv, InOrder

LEMMA ReceiveEndsOK == ASSUME IInv, NEW e \in Ends, ReceiveEnds(e) PROVE IInv'
<1>1. /\ e \in open /\ faults' \in 0..MaxFaults
      /\ event' \subseteq event /\ e \notin event'
  BY DEF IInv, Shape, ReceiveEnds
<1> QED
  BY <1>1, StopOK DEF ReceiveEnds

LEMMA AnswerFailsOK == ASSUME IInv, NEW e \in Ends, AnswerFails(e) PROVE IInv'
<1> DEFINE f == inbox[e][1]
<1>1. inbox[e] \in Seq(InboxFrame) /\ inbox[e] # <<>> /\ e \in open
  BY DEF IInv, Shape, AnswerFails
<1>2. Head(inbox[e]) = f /\ f \in InboxFrame
  BY <1>1
<1>3. ~Gap(f)
  BY <1>2 DEF AnswerFails, Acceptable, Gap
<1>4. ~f.late
  <2>1. Safe(inbox[e], wire[e]) /\ wire[e] \in Seq(WireFrame)
    BY <1>1 DEF IInv, Shape, Guarded, GuardedAt
  <2> QED
    BY <2>1, <1>1, <1>3, SafeReceive
<1>5. torn' = torn
  BY <1>2, <1>4 DEF AnswerFails
<1>6. /\ faults' \in 0..MaxFaults
      /\ event' \subseteq event /\ e \notin event'
  BY ControlAssumption DEF IInv, Shape, AnswerFails
<1> QED
  BY <1>1, <1>5, <1>6, StopOK DEF AnswerFails

LEMMA SendOtherFailsOK == ASSUME IInv, NEW e \in Ends, SendOtherFails(e) PROVE IInv'
<1>1. /\ e \in open /\ faults' \in 0..MaxFaults
      /\ event' \subseteq event /\ (e \in event' => e = "server")
  BY ControlAssumption DEF IInv, Shape, SendOtherFails, Ends
<1> QED
  BY <1>1, StopOK DEF SendOtherFails

LEMMA PingFailsOK == ASSUME IInv, NEW e \in Ends, PingFails(e) PROVE IInv'
<1>1. /\ e \in open /\ faults' \in 0..MaxFaults
      /\ event' \subseteq event /\ e \notin event'
  BY ControlAssumption DEF IInv, Shape, PingFails
<1> QED
  BY <1>1, StopOK DEF PingFails

LEMMA ReceiveLaterOK == ASSUME IInv, NEW e \in Ends, ReceiveLater(e) PROVE IInv'
<1>1. Shape'
  BY DEF IInv, Shape, ReceiveLater, channel
<1>2. Clocks' /\ Guarded' /\ InOrder'
  BY DEF IInv, Clocks, Guarded, GuardedAt, InOrder, ReceiveLater, channel
<1> QED
  BY <1>1, <1>2 DEF IInv

LEMMA StaleEventOK == ASSUME IInv, NEW e \in Ends, StaleEvent(e) PROVE IInv'
<1>1. Shape'
  BY DEF IInv, Shape, StaleEvent, channel
<1>2. Clocks' /\ Guarded' /\ InOrder'
  BY DEF IInv, Clocks, Guarded, GuardedAt, InOrder, StaleEvent, channel
<1> QED
  BY <1>1, <1>2 DEF IInv

\* A step that sends a frame and reads none.
LEMMA SendOK ==
    ASSUME IInv, NEW e \in open, NEW kind \in Kinds, SendFrame(e, kind),
           UNCHANGED <<open, inbox, rx, cut, faults, overdue, torn, misread>>,
           lag' \in [Ends -> Nat], Clocks',
           event' \subseteq open' \cup {"server"},
           \A q \in event' \cap open' : inbox[q] # <<>>
    PROVE  IInv'
<1>1. e \in Ends
  BY DEF IInv, Shape
<1>2. /\ wire' \in [Ends -> Seq(WireFrame)] /\ wire'[e] = wire[e]
      /\ unsent' \in [Ends -> {0, 1}] /\ unsent'[e] = unsent[e]
      /\ tx' \in [Ends -> Nat]
      /\ Peer(e) \in open => GuardedAt(Peer(e))'
  BY <1>1, SendFrameStep DEF IInv
<1>3. missed' = missed
  BY DEF SendFrame
<1>4. Shape'
  BY <1>2, <1>3 DEF IInv, Shape
<1>5. GuardedAt(e)'
  BY <1>2, <1>3 DEF IInv, Guarded, GuardedAt
<1>6. \A q \in open' : q = e \/ (q = Peer(e) /\ Peer(e) \in open)
  BY <1>1 DEF IInv, Shape, Ends, Peer
<1> QED
  BY <1>2, <1>4, <1>5, <1>6 DEF IInv, Guarded, InOrder

LEMMA SendOtherOK == ASSUME IInv, NEW e \in Ends, SendOther(e) PROVE IInv'
<1>1. e \in open /\ "OTHER" \in Kinds /\ SendFrame(e, "OTHER")
  BY DEF SendOther, Kinds
<1>2. UNCHANGED <<open, inbox, rx, lag, event, cut, faults, overdue, torn, misread>>
  BY DEF SendOther
<1>3. Clocks'
  BY <1>2 DEF IInv, Clocks
<1>4. /\ lag' \in [Ends -> Nat] /\ event' \subseteq open' \cup {"server"}
      /\ \A q \in event' \cap open' : inbox[q] # <<>>
  BY <1>2 DEF IInv, Shape
<1> QED
  BY <1>1, <1>2, <1>3, <1>4, SendOK

LEMMA EndBatchOK == ASSUME IInv, NEW e \in Ends, EndBatch(e) PROVE IInv'
<1>1. e \in open
  BY DEF EndBatch
<1>2. CASE Overdue(e)
  <2>1. /\ Stop(e) /\ UNCHANGED <<unsent, missed, rx, tx, lag, cut, torn, misread>>
        /\ event' = event /\ e \notin event
        /\ overdue' = overdue \cup {e} /\ faults' \in 0..MaxFaults
    BY <1>2 DEF EndBatch, IInv, Shape
  <2> QED
    BY <1>1, <2>1, StopOK
<1>3. CASE ~Overdue(e)
  <2>1. /\ UNCHANGED <<open, inbox, overdue, rx, cut, faults, torn, misread>>
        /\ lag' = [lag EXCEPT ![e] = 0]
        /\ event' = IF inbox[e] = <<>> THEN event ELSE event \cup {e}
    BY <1>3 DEF EndBatch
  <2>2. /\ lag' \in [Ends -> Nat] /\ event' \subseteq open' \cup {"server"}
        /\ \A q \in event' \cap open' : inbox[q] # <<>>
    BY <1>1, <2>1 DEF IInv, Shape
  <2>3. Clocks'
    <3> SUFFICES ASSUME NEW q \in open'
                 PROVE  lag'[q] <= Block /\ rx'[q] <= Timeout + lag'[q]
      BY DEF Clocks
    <3>1. q \in Ends /\ q \in open /\ lag[q] <= Block /\ rx[q] <= Timeout + lag[q]
      BY <2>1 DEF IInv, Shape, Clocks
    <3>2. CASE q = e
      <4>1. rx[e] \in Nat /\ rx[e] <= Timeout
        BY <1>3, ControlAssumption DEF Overdue, IInv, Shape
      <4>2. lag'[e] = 0
        BY <2>1 DEF IInv, Shape
      <4> QED
        BY <3>2, <4>1, <4>2, <2>1, ControlAssumption
    <3>3. CASE q # e
      <4>1. lag'[q] = lag[q]
        BY <2>1, <3>1, <3>3 DEF IInv, Shape
      <4> QED
        BY <3>1, <4>1, <2>1
    <3> QED
      BY <3>2, <3>3
  <2>4. CASE PingDue(e)
    <3>1. SendFrame(e, "PING") /\ "PING" \in Kinds
      BY <1>3, <2>4 DEF EndBatch, Kinds
    <3> QED
      BY <1>1, <2>1, <2>2, <2>3, <3>1, SendOK
  <2>5. CASE ~PingDue(e)
    <3>1. UNCHANGED <<wire, unsent, missed, tx>>
      BY <1>3, <2>5 DEF EndBatch
    <3>2. Shape'
      BY <2>1, <2>2, <3>1 DEF IInv, Shape
    <3>3. Guarded'
      BY <2>1, <3>1 DEF IInv, Guarded, GuardedAt
    <3> QED
      BY <2>1, <2>3, <3>2, <3>3 DEF IInv, InOrder
  <2> QED
    BY <2>4, <2>5
<1> QED
  BY <1>2, <1>3

LEMMA RequestFailsOK == ASSUME IInv, RequestFails PROVE IInv'
<1> DEFINE p == Peer("server")
<1>1. p = "client" /\ "server" \in Ends /\ p \in Ends /\ "PARTIAL" \in Kinds
  BY DEF Peer, Ends, Kinds
<1>2. /\ unsent' = [unsent EXCEPT ![p] = 1] /\ missed' = missed \cup {p}
      /\ wire' \in {wire, Sent(p, "PARTIAL")}
      /\ UNCHANGED <<open, inbox, rx, tx, lag, event, cut, overdue, torn, misread>>
  BY DEF RequestFails, SendFails
<1>3. faults' \in 0..MaxFaults
  BY ControlAssumption DEF RequestFails, SendFails, IInv, Shape
<1> HIDE DEF p
<1>4. wire' \in [Ends -> Seq(WireFrame)] /\ wire'["server"] = wire["server"]
  <2>1. /\ Sent(p, "PARTIAL") \in [Ends -> Seq(WireFrame)]
        /\ Sent(p, "PARTIAL")["server"] = wire["server"]
    BY <1>1, SentTo DEF IInv
  <2> QED
    BY <1>2, <2>1 DEF IInv, Shape
<1>5. /\ unsent' \in [Ends -> {0, 1}] /\ unsent'[p] = 1
      /\ unsent'["server"] = unsent["server"]
  BY <1>1, <1>2 DEF IInv, Shape
<1>6. Shape'
  BY <1>1, <1>2, <1>3, <1>4, <1>5 DEF IInv, Shape
<1>7. Clocks'
  BY <1>2 DEF IInv, Clocks
<1>8. ASSUME NEW q \in open' PROVE GuardedAt(q)'
  <2>1. q \in Ends /\ q \in open /\ GuardedAt(q)
    BY <1>2, <1>8 DEF IInv, Shape, Guarded
  <2>2. CASE q = "server"
    BY <2>1, <2>2, <1>1, <1>2, <1>4, <1>5 DEF GuardedAt
  <2>3. CASE q = p
    <3>1. Safe(inbox[p], Sent(p, "PARTIAL")[p]) /\ Safe(inbox[p], wire[p])
      BY <2>1, <2>3, <1>1, SentGuarded DEF IInv, GuardedAt
    <3> QED
      BY <2>3, <3>1, <1>2, <1>5 DEF GuardedAt
  <2> QED
    BY <2>1, <2>2, <2>3, <1>1 DEF Ends
<1> QED
  BY <1>2, <1>6, <1>7, <1>8 DEF IInv, Guarded, InOrder

LEMMA CutOK == ASSUME IInv, Cut PROVE IInv'
<1>1. /\ cut' = TRUE /\ wire' = [e \in Ends |-> <<>>]
      /\ UNCHANGED <<open, inbox, unsent, missed, rx, tx, lag, event, overdue, torn, misread>>
  BY DEF Cut
<1>2. faults' \in 0..MaxFaults
  BY ControlAssumption DEF Cut, IInv, Shape
<1>3. <<>> \in Seq(WireFrame) /\ Len(<<>>) = 0
  OBVIOUS
<1>4. wire' \in [Ends -> Seq(WireFrame)]
  BY <1>1, <1>3
<1>5. Shape'
  BY <1>1, <1>2, <1>4 DEF IInv, Shape
<1>6. Clocks'
  BY <1>1 DEF IInv, Clocks
<1>7. ASSUME NEW q \in open' PROVE GuardedAt(q)'
  <2>1. q \in Ends /\ GuardedAt(q)
    BY <1>1, <1>7 DEF IInv, Shape, Guarded
  <2>2. wire'[q] = <<>>
    BY <1>1, <2>1
  <2>3. \A n \in 1..Len(wire'[q]) : FALSE
    BY <2>2, <1>3
  <2>4. Safe(inbox'[q], wire'[q])
    BY <2>1, <2>3, <1>1 DEF Safe, GuardedAt
  <2> QED
    BY <2>4, <1>1 DEF GuardedAt
<1> QED
  BY <1>1, <1>5, <1>6, <1>7 DEF IInv, Guarded, InOrder

LEMMA TickOK == ASSUME IInv, Tick PROVE IInv'
<1>1. /\ UNCHANGED <<open, inbox, unsent, missed, event, cut, faults, overdue, torn, misread>>
      /\ \A e \in open : lag[e] < Block
      /\ lag' = [e \in Ends |-> IF e \in open THEN lag[e] + 1 ELSE lag[e]]
      /\ rx' = [e \in Ends |-> IF e \in open THEN rx[e] + 1 ELSE rx[e]]
      /\ tx' = [e \in Ends |-> IF e \in open THEN tx[e] + 1 ELSE tx[e]]
      /\ wire' = [e \in Ends |-> [i \in DOMAIN wire[e] |->
                    [wire[e][i] EXCEPT !.age = IF cut THEN @ ELSE @ + 1]]]
  BY DEF Tick
<1>2. lag' \in [Ends -> Nat] /\ rx' \in [Ends -> Nat] /\ tx' \in [Ends -> Nat]
  BY <1>1 DEF IInv, Shape
<1>3. ASSUME NEW e \in Ends
      PROVE  /\ wire'[e] \in Seq(WireFrame) /\ Len(wire'[e]) = Len(wire[e])
             /\ \A j \in 1..Len(wire[e]) : /\ wire'[e][j].kind = wire[e][j].kind
                                           /\ wire'[e][j].jump = wire[e][j].jump
                                           /\ wire'[e][j].late = wire[e][j].late
  <2> DEFINE w == wire[e]
             v == [i \in 1..Len(w) |-> [w[i] EXCEPT !.age = IF cut THEN @ ELSE @ + 1]]
  <2>1. w \in Seq(WireFrame) /\ DOMAIN w = 1..Len(w) /\ Len(w) \in Nat
    BY DEF IInv, Shape
  <2>2. wire'[e] = v
    BY <1>1, <2>1
  <2>3. ASSUME NEW j \in 1..Len(w)
        PROVE  /\ v[j] \in WireFrame /\ v[j].kind = w[j].kind
               /\ v[j].jump = w[j].jump /\ v[j].late = w[j].late
    <3>1. w[j] \in WireFrame
      BY <2>1
    <3>2. (IF cut THEN w[j].age ELSE w[j].age + 1) \in Nat
      BY <3>1 DEF WireFrame
    <3>3. v[j] = [w[j] EXCEPT !.age = IF cut THEN @ ELSE @ + 1]
      OBVIOUS
    <3> QED
      BY <3>1, <3>2, <3>3 DEF WireFrame
  <2>4. v \in Seq(WireFrame) /\ Len(v) = Len(w)
    <3>1. \A j \in 1..Len(w) : v[j] \in WireFrame
      BY <2>3
    <3> HIDE DEF w
    <3>2. v \in [1..Len(w) -> WireFrame]
      BY <3>1
    <3> HIDE DEF v
    <3> QED
      BY <3>2, <2>1
  <2> QED
    BY <2>2, <2>3, <2>4
<1>4. wire' \in [Ends -> Seq(WireFrame)]
  BY <1>1, <1>3
<1>5. Shape'
  BY <1>1, <1>2, <1>4 DEF IInv, Shape
<1>6. Clocks'
  <2> SUFFICES ASSUME NEW q \in open'
               PROVE  lag'[q] <= Block /\ rx'[q] <= Timeout + lag'[q]
    BY DEF Clocks
  <2>1. q \in Ends /\ q \in open /\ lag[q] < Block /\ rx[q] <= Timeout + lag[q]
    BY <1>1 DEF IInv, Shape, Clocks
  <2>2. lag'[q] = lag[q] + 1 /\ rx'[q] = rx[q] + 1 /\ lag[q] \in Nat /\ rx[q] \in Nat
    BY <1>1, <2>1 DEF IInv, Shape
  <2> QED
    BY <2>1, <2>2, ControlAssumption
<1>7. ASSUME NEW q \in open' PROVE GuardedAt(q)'
  <2>1. /\ q \in Ends /\ GuardedAt(q)
        /\ inbox[q] \in Seq(InboxFrame) /\ wire[q] \in Seq(WireFrame)
    BY <1>1, <1>7 DEF IInv, Shape, Guarded
  <2>2. Safe(inbox[q], wire'[q]) /\ (Shows(wire[q]) => Shows(wire'[q]))
    BY <2>1, <1>3, SafeTick DEF GuardedAt
  <2> QED
    BY <2>1, <2>2, <1>1 DEF GuardedAt
<1> QED
  BY <1>1, <1>5, <1>6, <1>7 DEF IInv, Guarded, InOrder

-----------------------------------------------------------------------------
(***************************************************************************)
(* The theorems.                                                           *)
(***************************************************************************)

LEMMA StepOK == IInv /\ [Next]_vars => IInv'
<1> SUFFICES ASSUME IInv, [Next]_vars PROVE IInv'
  OBVIOUS
<1>1. CASE Tick
  BY <1>1, TickOK
<1>2. CASE RequestFails
  BY <1>2, RequestFailsOK
<1>3. CASE Cut
  BY <1>3, CutOK
<1>4. ASSUME NEW e \in Ends,
             \/ Arrive(e) \/ Receive(e) \/ AnswerFails(e) \/ ReceiveEnds(e)
             \/ ReceiveLater(e) \/ StaleEvent(e) \/ SendOther(e)
             \/ SendOtherFails(e) \/ EndBatch(e) \/ PingFails(e)
      PROVE  IInv'
  BY <1>4, ArriveOK, ReceiveOK, AnswerFailsOK, ReceiveEndsOK, ReceiveLaterOK,
     StaleEventOK, SendOtherOK, SendOtherFailsOK, EndBatchOK, PingFailsOK
<1>5. CASE UNCHANGED vars
  <2>1. Shape'
    BY <1>5 DEF IInv, Shape, vars, channel
  <2>2. Clocks' /\ Guarded' /\ InOrder'
    BY <1>5 DEF IInv, Clocks, Guarded, GuardedAt, InOrder, vars, channel
  <2> QED
    BY <2>1, <2>2 DEF IInv
<1> QED
  BY <1>1, <1>2, <1>3, <1>4, <1>5 DEF Next

LEMMA InvariantHolds == Spec => []IInv
  BY InitOK, StepOK, PTL DEF Spec

\* Every variable has its type; in particular the client's batch never holds a
\* control event of an ended session (client_session).  The server's may: see
\* StaleIgnored.
THEOREM ControlTypes == Spec => []TypeOK
<1>1. IInv => TypeOK
  <2> SUFFICES ASSUME IInv PROVE TypeOK
    OBVIOUS
  <2>1. \A e \in Ends : \A i \in DOMAIN inbox[e] : inbox[e][i].jump \in {1, 2}
    <3> TAKE e \in Ends
    <3>1. inbox[e] \in Seq(InboxFrame)
      BY DEF IInv, Shape
    <3>2. \A i \in DOMAIN inbox[e] : inbox[e][i] \in InboxFrame
      BY <3>1
    <3> QED
      BY <3>2 DEF InboxFrame
  <2> QED
    BY <2>1 DEF IInv, Shape, TypeOK
<1> QED
  BY <1>1, InvariantHolds, PTL

\* Whatever the interval, the timeout and the number of faults, no frame sent
\* behind one that ct_control_send could not send as a whole is ever accepted
\* by ct_control_recv.
THEOREM AcceptedInOrder == Spec => []InOrder
<1>1. IInv => InOrder
  BY DEF IInv
<1> QED
  BY <1>1, InvariantHolds, PTL

\* An end that hears nothing closes within the timeout and one batch, however
\* frames, failed sends and the cut of the path are interleaved.
THEOREM SilenceNoticed == Spec => []NoticedInTime
<1>1. IInv => NoticedInTime
  <2> SUFFICES ASSUME IInv, NEW e \in open PROVE rx[e] <= Timeout + Block
    BY DEF NoticedInTime
  <2>1. rx[e] \in Nat /\ lag[e] \in Nat /\ lag[e] <= Block /\ rx[e] <= Timeout + lag[e]
    BY DEF IInv, Shape, Clocks
  <2> QED
    BY <2>1, ControlAssumption
<1> QED
  BY <1>1, InvariantHolds, PTL
-----------------------------------------------------------------------------
(***************************************************************************)
(* The heartbeat on a sound path.  As long as no fault has happened, what  *)
(* an end has not heard of its peer for so long is bounded by where the    *)
(* next frame is: not sent yet, on the wire, or in the socket buffer.      *)
(***************************************************************************)

Plain(f) == f.kind \in {"PING", "PONG", "OTHER"} /\ f.jump = 1

HeardAt(e) ==
    /\ inbox[e] = <<>> /\ wire[e] = <<>> => rx[e] <= tx[Peer(e)]
    /\ inbox[e] = <<>> /\ wire[e] # <<>> => rx[e] <= Interval + Block + wire[e][1].age
    /\ inbox[e] # <<>> /\ e \notin event => rx[e] <= Interval + Block + Delay + lag[e]

CalmAt(e) ==
    /\ unsent[e] = 0
    /\ tx[e] <= Interval + lag[e]
    /\ \A i \in 1..Len(wire[e]) : Plain(wire[e][i]) /\ wire[e][i].age <= Delay
    /\ \A i \in 1..Len(inbox[e]) : Plain(inbox[e][i])
    /\ HeardAt(e)

Sound ==
    /\ open = Ends /\ ~cut /\ missed = {} /\ overdue = {}
    /\ \A e \in Ends : CalmAt(e)

Calm == Ample /\ faults = MaxFaults => Sound

LEMMA Types ==
    ASSUME IInv
    PROVE  /\ \A e \in Ends : /\ wire[e] \in Seq(WireFrame) /\ inbox[e] \in Seq(InboxFrame)
                              /\ rx[e] \in Nat /\ tx[e] \in Nat /\ lag[e] \in Nat
           /\ Interval \in Nat /\ Timeout \in Nat /\ Block \in Nat /\ Delay \in Nat
BY ControlAssumption DEF IInv, Shape

\* The first frame on the wire has an age within Delay.
LEMMA FirstAge ==
    ASSUME IInv, Sound, NEW e \in Ends, wire[e] # <<>>
    PROVE  1 \in 1..Len(wire[e]) /\ wire[e][1].age \in Nat /\ wire[e][1].age <= Delay
<1>1. wire[e] \in Seq(WireFrame) /\ 1 \in 1..Len(wire[e])
  BY Types
<1>2. wire[e][1] \in WireFrame
  BY <1>1
<1> QED
  BY <1>1, <1>2 DEF WireFrame, Sound, CalmAt

LEMMA PeerOfPeer == ASSUME NEW e \in Ends PROVE Peer(Peer(e)) = e /\ \A q \in Ends : q = e \/ q = Peer(e)
BY DEF Peer, Ends

\* The peer of an end that sends a frame.
LEMMA SentCalm ==
    ASSUME IInv, Sound, NEW e \in Ends, NEW kind \in {"PING", "PONG", "OTHER"}, SendFrame(e, kind),
           NEW p, p = Peer(e), inbox'[p] = inbox[p], rx'[p] = rx[p], lag'[p] = lag[p],
           p \in event' <=> p \in event
    PROVE  /\ CalmAt(p)'
           /\ wire'[e] = wire[e] /\ unsent'[e] = 0 /\ tx'[e] = 0 /\ tx'[p] = tx[p]
<1>1. p \in Ends /\ p # e /\ Peer(p) = e
  BY PeerIsOther, PeerOfPeer
<1> DEFINE f == Frame(p, kind)
           v == Append(wire[p], f)
<1>2. unsent[p] = 0 /\ unsent[e] = 0 /\ p \notin missed /\ ~cut /\ p \in open
  BY <1>1 DEF Sound, CalmAt
<1>3. Plain(f) /\ f.age = 0
  BY <1>2 DEF Frame, Plain
<1>4. kind \in Kinds
  BY DEF Kinds
<1>5. f \in WireFrame /\ wire' = Sent(p, kind)
  BY <1>1, <1>4, SentTo DEF SendFrame, IInv
<1>6. wire'[p] = v /\ wire'[e] = wire[e]
  BY <1>1, <1>2, <1>4, <1>5, SentTo DEF IInv
<1> HIDE DEF f
<1>7. /\ Len(v) = Len(wire[p]) + 1 /\ v[Len(v)] = f /\ Len(wire[p]) \in Nat
      /\ \A j \in 1..Len(wire[p]) : v[j] = wire[p][j]
  BY <1>1, <1>5, Types
<1> HIDE DEF v
<1>8. unsent'[p] = 0 /\ unsent'[e] = 0 /\ tx'[e] = 0 /\ tx'[p] = tx[p]
  BY <1>1, <1>2 DEF SendFrame, IInv, Shape
<1>9. \A i \in 1..Len(v) : Plain(v[i]) /\ v[i].age <= Delay
  <2>1. \A i \in 1..Len(v) : i \in 1..Len(wire[p]) \/ i = Len(v)
    BY <1>7
  <2>2. \A i \in 1..Len(wire[p]) : Plain(wire[p][i]) /\ wire[p][i].age <= Delay
    BY <1>1 DEF Sound, CalmAt
  <2>3. Plain(f) /\ f.age <= Delay
    BY <1>3, Types
  <2> QED
    BY <1>7, <2>1, <2>2, <2>3
<1>10. v # <<>>
  BY <1>7
<1>11. inbox[p] = <<>> => rx[p] <= Interval + Block + v[1].age
  <2>1. CASE wire[p] = <<>>
    <3>1. v[1].age = 0
      BY <1>3, <1>7, <2>1
    <3>2. inbox[p] = <<>> => rx[p] <= tx[e]
      BY <1>1, <2>1 DEF Sound, CalmAt, HeardAt
    <3>3. tx[e] <= Interval + lag[e] /\ lag[e] <= Block
      BY DEF Sound, CalmAt, IInv, Clocks
    <3> QED
      BY <1>1, <3>1, <3>2, <3>3, Types
  <2>2. CASE wire[p] # <<>>
    <3>1. v[1] = wire[p][1]
      BY <1>1, <1>7, <2>2, FirstAge
    <3> QED
      BY <1>1, <2>2, <3>1 DEF Sound, CalmAt, HeardAt
  <2> QED
    BY <2>1, <2>2
<1>12. inbox[p] # <<>> /\ p \notin event => rx[p] <= Interval + Block + Delay + lag[p]
  BY <1>1 DEF Sound, CalmAt, HeardAt
<1>13. HeardAt(p)'
  BY <1>6, <1>10, <1>11, <1>12 DEF HeardAt
<1>14. CalmAt(p)'
  BY <1>1, <1>6, <1>8, <1>9, <1>13 DEF Sound, CalmAt
<1> QED
  BY <1>6, <1>8, <1>14

LEMMA InitCalm == Init => Calm
<1> SUFFICES ASSUME Init, Ample, faults = MaxFaults PROVE Sound
  BY DEF Calm
<1>1. \A e \in Ends : Peer(e) \in Ends
  BY PeerIsOther
<1>2. \A e \in Ends : /\ wire[e] = <<>> /\ inbox[e] = <<>> /\ unsent[e] = 0
                      /\ rx[e] = 0 /\ tx[e] = 0 /\ lag[e] = 0
  BY DEF Init
<1>3. Len(<<>>) = 0
  OBVIOUS
<1>4. \A e \in Ends : CalmAt(e)
  BY <1>1, <1>2, <1>3, ControlAssumption DEF CalmAt, HeardAt
<1> QED
  BY <1>4 DEF Init, Sound

LEMMA TickCalm == ASSUME IInv, Sound, Tick PROVE Sound'
<1>1. /\ UNCHANGED <<open, inbox, unsent, missed, event, cut, overdue>>
      /\ \A e \in Ends : /\ lag'[e] = lag[e] + 1 /\ rx'[e] = rx[e] + 1 /\ tx'[e] = tx[e] + 1
  BY DEF Tick, Sound
<1>2. ASSUME NEW e \in Ends
      PROVE  /\ Len(wire'[e]) = Len(wire[e]) /\ (wire'[e] = <<>> <=> wire[e] = <<>>)
             /\ \A j \in 1..Len(wire[e]) : /\ wire'[e][j].kind = wire[e][j].kind
                                           /\ wire'[e][j].jump = wire[e][j].jump
                                           /\ wire'[e][j].age = wire[e][j].age + 1
                                           /\ wire[e][j].age < Delay /\ wire[e][j].age \in Nat
  <2> DEFINE w == wire[e]
             v == [i \in 1..Len(w) |-> [w[i] EXCEPT !.age = @ + 1]]
  <2>1. w \in Seq(WireFrame) /\ DOMAIN w = 1..Len(w) /\ Len(w) \in Nat
    BY Types
  <2>2. wire'[e] = v
    BY <2>1 DEF Tick, Sound
  <2>3. ASSUME NEW j \in 1..Len(w)
        PROVE  /\ v[j].kind = w[j].kind /\ v[j].jump = w[j].jump /\ v[j].age = w[j].age + 1
               /\ v[j] \in WireFrame /\ w[j].age \in Nat
    <3>1. w[j] \in WireFrame
      BY <2>1
    <3>2. w[j].age + 1 \in Nat /\ w[j].age \in Nat
      BY <3>1 DEF WireFrame
    <3>3. v[j] = [w[j] EXCEPT !.age = @ + 1]
      OBVIOUS
    <3> QED
      BY <3>1, <3>2, <3>3 DEF WireFrame
  <2>4. \A j \in 1..Len(w) : w[j].age < Delay
    BY <2>1 DEF Tick, Sound
  <2>5. v \in Seq(WireFrame) /\ Len(v) = Len(w)
    <3>1. \A j \in 1..Len(w) : v[j] \in WireFrame
      BY <2>3
    <3> HIDE DEF w
    <3>2. v \in [1..Len(w) -> WireFrame]
      BY <3>1
    <3> HIDE DEF v
    <3> QED
      BY <3>2, <2>1
  <2> HIDE DEF v, w
  <2>6. v = <<>> <=> w = <<>>
    BY <2>1, <2>5
  <2> QED
    BY <2>2, <2>3, <2>4, <2>5, <2>6 DEF w
<1>3. ASSUME NEW e \in Ends PROVE CalmAt(e)'
  <2>1. Peer(e) \in Ends /\ CalmAt(e)
    BY PeerIsOther DEF Sound
  <2>2. \A i \in 1..Len(wire'[e]) : Plain(wire'[e][i]) /\ wire'[e][i].age <= Delay
    <3> SUFFICES ASSUME NEW i \in 1..Len(wire[e])
                 PROVE  Plain(wire'[e][i]) /\ wire'[e][i].age <= Delay
      BY <1>2
    <3>1. Plain(wire'[e][i])
      BY <1>2, <2>1 DEF CalmAt, Plain
    <3>2. wire'[e][i].age = wire[e][i].age + 1 /\ wire[e][i].age < Delay /\ wire[e][i].age \in Nat
      BY <1>2
    <3>3. Delay \in Nat
      BY Types
    <3> QED
      BY <3>1, <3>2, <3>3
  <2>3. tx'[e] <= Interval + lag'[e]
    BY <1>1, <2>1, Types DEF CalmAt
  <2>4. inbox[e] = <<>> /\ wire'[e] = <<>> => rx'[e] <= tx'[Peer(e)]
    BY <1>1, <1>2, <2>1, Types DEF CalmAt, HeardAt
  <2>5. ASSUME inbox[e] = <<>>, wire'[e] # <<>> PROVE rx'[e] <= Interval + Block + wire'[e][1].age
    <3>1. wire[e] # <<>> /\ 1 \in 1..Len(wire[e])
      BY <1>2, <2>5, FirstAge
    <3>2. wire'[e][1].age = wire[e][1].age + 1 /\ wire[e][1].age \in Nat
      BY <1>2, <3>1
    <3>3. rx[e] <= Interval + Block + wire[e][1].age
      BY <2>1, <2>5, <3>1 DEF CalmAt, HeardAt
    <3>4. rx'[e] = rx[e] + 1 /\ rx[e] \in Nat /\ Interval \in Nat /\ Block \in Nat
      BY <1>1, Types
    <3> QED
      BY <3>2, <3>3, <3>4
  <2>6. ASSUME inbox[e] # <<>>, e \notin event PROVE rx'[e] <= Interval + Block + Delay + lag'[e]
    <3>1. rx[e] <= Interval + Block + Delay + lag[e]
      BY <2>1, <2>6 DEF CalmAt, HeardAt
    <3>2. /\ rx'[e] = rx[e] + 1 /\ lag'[e] = lag[e] + 1 /\ rx[e] \in Nat /\ lag[e] \in Nat
          /\ Interval \in Nat /\ Block \in Nat /\ Delay \in Nat
      BY <1>1, <2>6, Types
    <3> QED
      BY <3>1, <3>2
  <2>7. HeardAt(e)'
    BY <1>1, <2>4, <2>5, <2>6 DEF HeardAt
  <2> QED
    BY <1>1, <2>1, <2>2, <2>3, <2>7 DEF CalmAt
<1> QED
  BY <1>1, <1>3 DEF Sound

LEMMA ArriveCalm == ASSUME IInv, Sound, NEW e \in Ends, Arrive(e) PROVE Sound'
<1> DEFINE f == wire[e][1]
           g == [kind |-> f.kind, jump |-> f.jump, late |-> f.late]
           k == Append(inbox[e], g)
           t == Tail(wire[e])
<1>1. wire[e] \in Seq(WireFrame) /\ inbox[e] \in Seq(InboxFrame) /\ wire[e] # <<>>
  BY Types DEF Arrive
<1>2. f \in WireFrame /\ Head(wire[e]) = f
  BY <1>1
<1>3. g \in InboxFrame /\ g.kind = f.kind /\ g.jump = f.jump
  BY <1>2 DEF WireFrame, InboxFrame
<1>4. inbox' = [inbox EXCEPT ![e] = k] /\ wire' = [wire EXCEPT ![e] = t]
  BY <1>2 DEF Arrive
<1>5. UNCHANGED <<open, unsent, missed, rx, tx, lag, event, cut, overdue>>
  BY DEF Arrive
<1> HIDE DEF g
<1>6. /\ Len(k) = Len(inbox[e]) + 1 /\ k[Len(k)] = g /\ Len(inbox[e]) \in Nat
      /\ \A j \in 1..Len(inbox[e]) : k[j] = inbox[e][j]
  BY <1>1, <1>3
<1>7. /\ Len(wire[e]) \in Nat /\ Len(wire[e]) >= 1 /\ Len(t) = Len(wire[e]) - 1
      /\ \A j \in 1..Len(t) : t[j] = wire[e][j + 1]
  BY <1>1
<1> HIDE DEF k, t
<1>8. inbox'[e] = k /\ wire'[e] = t /\ k # <<>>
  BY <1>4, <1>6 DEF IInv, Shape
<1>9. ASSUME NEW q \in Ends, q # e PROVE CalmAt(q)'
  <2>1. inbox'[q] = inbox[q] /\ wire'[q] = wire[q] /\ CalmAt(q)
    BY <1>4, <1>9 DEF IInv, Shape, Sound
  <2> QED
    BY <1>5, <2>1 DEF CalmAt, HeardAt
<1>10. CalmAt(e)'
  <2>1. CalmAt(e) /\ 1 \in 1..Len(wire[e])
    BY <1>1, FirstAge DEF Sound
  <2>2. Plain(g)
    BY <1>3, <2>1 DEF CalmAt, Plain
  <2>3. \A i \in 1..Len(k) : i \in 1..Len(inbox[e]) \/ i = Len(k)
    BY <1>6
  <2>4. \A i \in 1..Len(k) : Plain(k[i])
    BY <1>6, <2>1, <2>2, <2>3 DEF CalmAt
  <2>5. \A i \in 1..Len(t) : Plain(t[i]) /\ t[i].age <= Delay
    <3>1. \A i \in 1..Len(t) : i + 1 \in 1..Len(wire[e])
      BY <1>7
    <3> QED
      BY <1>7, <2>1, <3>1 DEF CalmAt
  <2>6. e \notin event => rx[e] <= Interval + Block + Delay + lag[e]
    <3>1. CASE inbox[e] # <<>>
      BY <2>1, <3>1 DEF CalmAt, HeardAt
    <3>2. CASE inbox[e] = <<>>
      <4>1. rx[e] <= Interval + Block + f.age
        BY <1>1, <2>1, <3>2 DEF CalmAt, HeardAt
      <4>2. f.age \in Nat /\ f.age <= Delay
        BY <1>1, FirstAge
      <4> QED
        BY <4>1, <4>2, Types
    <3> QED
      BY <3>1, <3>2
  <2>7. HeardAt(e)'
    BY <1>5, <1>8, <2>6 DEF HeardAt
  <2> QED
    BY <1>5, <1>8, <2>1, <2>4, <2>5, <2>7 DEF CalmAt
<1> QED
  BY <1>5, <1>9, <1>10 DEF Sound

LEMMA ReceiveCalm == ASSUME IInv, Sound, NEW e \in Ends, Receive(e) PROVE Sound'
<1>1. PICK p \in Ends : p = Peer(e) /\ p # e /\ Peer(p) = e
  BY PeerIsOther, PeerOfPeer
<1> DEFINE t == Tail(inbox[e])
<1>2. inbox[e] \in Seq(InboxFrame) /\ inbox[e] # <<>>
  BY Types DEF Receive, IInv, Shape
<1>3. inbox' = [inbox EXCEPT ![e] = t] /\ rx' = [rx EXCEPT ![e] = 0] /\ event' = event \ {e}
  BY DEF Receive, Heard
<1>4. UNCHANGED <<open, lag, cut, overdue, missed>>
  BY DEF Receive, SendFrame
<1>5. /\ Len(inbox[e]) \in Nat /\ Len(t) = Len(inbox[e]) - 1
      /\ \A j \in 1..Len(t) : t[j] = inbox[e][j + 1]
  BY <1>2
<1> HIDE DEF t
<1>6. /\ inbox'[e] = t /\ inbox'[p] = inbox[p] /\ rx'[e] = 0 /\ rx'[p] = rx[p]
      /\ p \in event' <=> p \in event
  BY <1>1, <1>3 DEF IInv, Shape
<1>7. /\ CalmAt(p)'
      /\ wire'[e] = wire[e] /\ unsent'[e] = 0 /\ tx'[e] \in {0, tx[e]} /\ tx'[p] = tx[p]
  <2>1. CASE SendFrame(e, "PONG")
    BY <1>1, <1>4, <1>6, <2>1, SentCalm
  <2>2. CASE UNCHANGED <<wire, unsent, missed, tx>>
    <3>1. CalmAt(p) /\ CalmAt(e)
      BY <1>1 DEF Sound
    <3>2. CalmAt(p)'
      BY <1>4, <1>6, <2>2, <3>1 DEF CalmAt, HeardAt
    <3> QED
      BY <2>2, <3>1, <3>2 DEF CalmAt
  <2> QED
    BY <2>1, <2>2 DEF Receive
<1>8. CalmAt(e)'
  <2>1. CalmAt(e)
    BY DEF Sound
  <2>2. \A i \in 1..Len(t) : Plain(t[i])
    <3>1. \A i \in 1..Len(t) : i + 1 \in 1..Len(inbox[e])
      BY <1>5
    <3> QED
      BY <1>5, <2>1, <3>1 DEF CalmAt
  <2>3. HeardAt(e)'
    <3>1. tx'[p] \in Nat /\ lag'[e] \in Nat /\ Interval \in Nat /\ Block \in Nat /\ Delay \in Nat
      BY <1>1, <1>4, <1>7, Types
    <3>2. wire'[e] # <<>> => wire'[e][1].age \in Nat
      BY <1>7, FirstAge
    <3>3. wire'[e] # <<>> => 0 <= Interval + Block + wire'[e][1].age
      BY <3>1, <3>2
    <3>4. 0 <= tx'[p] /\ 0 <= Interval + Block + Delay + lag'[e]
      BY <3>1
    <3> QED
      BY <1>1, <1>6, <3>3, <3>4 DEF HeardAt
  <2>4. tx'[e] <= Interval + lag'[e]
    BY <1>4, <1>7, <2>1, Types DEF CalmAt
  <2> QED
    BY <1>6, <1>7, <2>1, <2>2, <2>3, <2>4 DEF CalmAt
<1>9. \A q \in Ends : q = e \/ q = p
  BY <1>1, PeerOfPeer
<1> QED
  BY <1>4, <1>7, <1>8, <1>9 DEF Sound

\* No frame of a sound path ends the session.
LEMMA NoBadFrame == ASSUME IInv, Sound, NEW e \in Ends PROVE ~ReceiveEnds(e) /\ ~ReceiveLater(e)
<1> SUFFICES ASSUME e \in event PROVE ~ReceiveEnds(e) /\ ~ReceiveLater(e)
  BY DEF ReceiveEnds, ReceiveLater
<1>1. inbox[e] \in Seq(InboxFrame) /\ inbox[e] # <<>>
  BY Types DEF IInv, Shape, Sound
<1>2. Head(inbox[e]) = inbox[e][1] /\ 1 \in 1..Len(inbox[e])
  BY <1>1
<1>3. Plain(Head(inbox[e]))
  BY <1>2 DEF Sound, CalmAt
<1> QED
  BY <1>3 DEF ReceiveEnds, ReceiveLater, Plain, Acceptable

LEMMA SendOtherCalm == ASSUME IInv, Sound, NEW e \in Ends, SendOther(e) PROVE Sound'
<1>1. PICK p \in Ends : p = Peer(e) /\ p # e /\ Peer(p) = e
  BY PeerIsOther, PeerOfPeer
<1>2. SendFrame(e, "OTHER") /\ UNCHANGED <<open, inbox, rx, lag, event, cut, overdue, missed>>
  BY DEF SendOther, SendFrame
<1>3. /\ CalmAt(p)'
      /\ wire'[e] = wire[e] /\ unsent'[e] = 0 /\ tx'[e] = 0 /\ tx'[p] = tx[p]
  BY <1>1, <1>2, SentCalm
<1>4. CalmAt(e)'
  <2>1. CalmAt(e) /\ 0 <= Interval + lag[e]
    BY Types DEF Sound
  <2> QED
    BY <1>1, <1>2, <1>3, <2>1 DEF CalmAt, HeardAt
<1>5. \A q \in Ends : q = e \/ q = p
  BY <1>1, PeerOfPeer
<1> QED
  BY <1>2, <1>3, <1>4, <1>5 DEF Sound

\* The bound that the timeout has to exceed.
LEMMA NotOverdue == ASSUME IInv, Sound, Ample, NEW e \in Ends, e \notin event PROVE ~Overdue(e)
<1>1. PICK p \in Ends : p = Peer(e)
  BY PeerIsOther
<1>2. CalmAt(e) /\ CalmAt(p) /\ lag[e] <= Block /\ lag[p] <= Block
  BY DEF Sound, IInv, Clocks
<1>3. /\ rx[e] \in Nat /\ tx[p] \in Nat /\ lag[e] \in Nat /\ lag[p] \in Nat
      /\ Interval \in Nat /\ Timeout \in Nat /\ Block \in Nat /\ Delay \in Nat
  BY Types
<1>4. Timeout >= Interval + Delay + 2 * Block
  BY DEF Ample
<1>5. CASE inbox[e] = <<>> /\ wire[e] = <<>>
  <2>1. rx[e] <= tx[p] /\ tx[p] <= Interval + lag[p]
    BY <1>1, <1>2, <1>5 DEF CalmAt, HeardAt
  <2> QED
    BY <1>2, <1>3, <1>4, <2>1 DEF Overdue
<1>6. CASE inbox[e] = <<>> /\ wire[e] # <<>>
  <2>1. rx[e] <= Interval + Block + wire[e][1].age
    BY <1>2, <1>6 DEF CalmAt, HeardAt
  <2>2. wire[e][1].age \in Nat /\ wire[e][1].age <= Delay
    BY <1>6, FirstAge
  <2> QED
    BY <1>3, <1>4, <2>1, <2>2 DEF Overdue
<1>7. CASE inbox[e] # <<>>
  <2>1. rx[e] <= Interval + Block + Delay + lag[e]
    BY <1>2, <1>7 DEF CalmAt, HeardAt
  <2> QED
    BY <1>2, <1>3, <1>4, <2>1 DEF Overdue
<1> QED
  BY <1>5, <1>6, <1>7

LEMMA EndBatchCalm == ASSUME IInv, Sound, Ample, NEW e \in Ends, EndBatch(e) PROVE Sound'
<1>1. PICK p \in Ends : p = Peer(e) /\ p # e /\ Peer(p) = e
  BY PeerIsOther, PeerOfPeer
<1>2. ~Overdue(e) /\ e \notin event
  BY NotOverdue DEF EndBatch
<1>3. /\ lag' = [lag EXCEPT ![e] = 0] /\ UNCHANGED <<open, inbox, overdue, rx, cut>>
      /\ event' = IF inbox[e] = <<>> THEN event ELSE event \cup {e}
      /\ IF PingDue(e) THEN SendFrame(e, "PING") ELSE UNCHANGED <<wire, unsent, missed, tx>>
  BY <1>2 DEF EndBatch
<1>4. /\ lag'[e] = 0 /\ lag'[p] = lag[p] /\ (p \in event' <=> p \in event)
      /\ missed' = missed
  BY <1>1, <1>3 DEF IInv, Shape, SendFrame
<1>5. /\ CalmAt(p)'
      /\ wire'[e] = wire[e] /\ unsent'[e] = 0 /\ tx'[p] = tx[p]
      /\ tx'[e] <= Interval
  <2>1. CASE PingDue(e)
    <3>1. /\ CalmAt(p)'
          /\ wire'[e] = wire[e] /\ unsent'[e] = 0 /\ tx'[e] = 0 /\ tx'[p] = tx[p]
      BY <1>1, <1>3, <1>4, <2>1, SentCalm
    <3> QED
      BY <3>1, Types
  <2>2. CASE ~PingDue(e)
    <3>1. CalmAt(p) /\ CalmAt(e) /\ UNCHANGED <<wire, unsent, missed, tx>>
      BY <1>3, <2>2 DEF Sound
    <3>2. tx[e] <= Interval
      BY <2>2, Types DEF PingDue
    <3>3. CalmAt(p)'
      BY <1>3, <1>4, <3>1 DEF CalmAt, HeardAt
    <3> QED
      BY <3>1, <3>2, <3>3 DEF CalmAt
  <2> QED
    BY <2>1, <2>2
<1>6. CalmAt(e)'
  <2>1. CalmAt(e)
    BY DEF Sound
  <2>2. HeardAt(e)'
    BY <1>1, <1>3, <1>5, <2>1 DEF CalmAt, HeardAt
  <2>3. tx'[e] <= Interval + lag'[e]
    <3>1. Interval + lag'[e] = Interval
      BY <1>4, Types
    <3> QED
      BY <1>5, <3>1
  <2> QED
    BY <1>3, <1>5, <2>1, <2>2, <2>3 DEF CalmAt
<1>7. \A q \in Ends : q = e \/ q = p
  BY <1>1, PeerOfPeer
<1> QED
  BY <1>3, <1>4, <1>5, <1>6, <1>7 DEF Sound

LEMMA StepCalm == IInv /\ Calm /\ [Next]_vars => Calm'
<1> SUFFICES ASSUME IInv, Calm, [Next]_vars, Ample, faults' = MaxFaults PROVE Sound'
  BY DEF Calm, Ample
<1>1. \/ UNCHANGED vars \/ Tick
      \/ \E e \in Ends : Arrive(e) \/ Receive(e) \/ ReceiveEnds(e) \/ ReceiveLater(e)
                         \/ StaleEvent(e) \/ SendOther(e) \/ EndBatch(e)
  <2>1. ~(faults > 0 /\ faults' = faults - 1)
    BY ControlAssumption DEF IInv, Shape
  <2> QED
    BY <2>1 DEF Next, RequestFails, SendFails, Cut, AnswerFails, SendOtherFails, PingFails
<1>2. faults' = faults
  BY <1>1 DEF vars, Tick, Arrive, Receive, ReceiveEnds, ReceiveLater, StaleEvent,
              SendOther, EndBatch
<1>3. Sound
  BY <1>2 DEF Calm
<1>4. CASE UNCHANGED vars
  BY <1>3, <1>4 DEF Sound, CalmAt, HeardAt, vars, channel
<1>5. \A e \in Ends : ~StaleEvent(e)
  BY <1>3 DEF Sound, StaleEvent
<1> QED
  BY <1>1, <1>3, <1>4, <1>5, TickCalm, ArriveCalm, ReceiveCalm, NoBadFrame, SendOtherCalm, EndBatchCalm

\* If the timeout allows for the interval, the delay of the path and a
\* blocking batch at either end, the heartbeat never ends a session in which
\* no send failed and the path was not cut: whatever else the two loops do.
THEOREM HeartbeatNotPremature == Spec => []NoFalseTimeout
<1>1. Calm => NoFalseTimeout
  BY DEF Calm, Sound, NoFalseTimeout
<1> QED
  BY <1>1, InitOK, InitCalm, StepOK, StepCalm, PTL DEF Spec
==============================================================================
