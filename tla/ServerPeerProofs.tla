--------------------------- MODULE ServerPeerProofs --------------------------
(***************************************************************************)
(* The streams of a client stay within its limits and a started stream     *)
(* always finds a free relay slot; every open descriptor has one owner and *)
(* is closed once; and no stream waits next to an idle work connection.    *)
(* For all limits, numbers of descriptors and timeouts.                    *)
(***************************************************************************)
EXTENDS ServerPeer, FiniteSetTheorems, NaturalsInduction, SequenceTheorems, TLAPS

\* Every starting stream finds a free relay slot when its STREAM_READY comes,
\* in whatever order they come: start_relay_finish never runs out of slots.
SlotForStarting == Cardinality(starting) <= Cardinality(Slots \ OpenRelays)

\* What the handlers rely on about the shape of the arrays.
Shape ==
    /\ \E S : pending \in Seq(S)
    /\ \E S : work \in Seq(S)
    /\ IsFiniteSet(starting)
    /\ relays = [j \in Slots |-> relays[j]]

Inv == Shape /\ WithinLimits

LEMMA Constants ==
    /\ MAX_STREAMS \in Nat /\ MAX_PENDING \in Nat
    /\ StreamLimit \in Nat /\ StreamLimit <= MAX_STREAMS
    /\ PendingLimit \in Nat
BY PeerAssumption

\* The image of a finite set is finite and not larger.
LEMMA ImageBound ==
    ASSUME NEW S, IsFiniteSet(S), NEW f, f = [x \in S |-> f[x]]
    PROVE  LET T == {f[x] : x \in S}
           IN  IsFiniteSet(T) /\ Cardinality(T) <= Cardinality(S)
<1> DEFINE T == {f[x] : x \in S}
<1>1. f \in Surjection(S, T)
  BY DEF Surjection
<1> QED
  BY <1>1, FS_Surjection

LEMMA IntervalCount ==
    ASSUME NEW n \in Nat
    PROVE  IsFiniteSet(1..n) /\ Cardinality(1..n) = n
BY FS_Interval

\* A function on 1..n is a sequence of length n.
LEMMA FunctionIsSeq ==
    ASSUME NEW n \in Nat, NEW s, s = [i \in 1..n |-> s[i]]
    PROVE  (\E S : s \in Seq(S)) /\ Len(s) = n
<1> DEFINE S == {s[i] : i \in 1..n}
<1>1. s \in [1..n -> S]
  OBVIOUS
<1> HIDE DEF S
<1>2. s \in Seq(S)
  BY <1>1
<1>3. Len(s) = n
  BY <1>1, <1>2
<1> QED
  BY <1>2, <1>3

\* The slots in use are finitely many, and the others are what is left.
LEMMA SlotCount ==
    ASSUME NEW U \in SUBSET Slots
    PROVE  /\ IsFiniteSet(U) /\ Cardinality(U) \in Nat
           /\ Cardinality(Slots \ U) = MAX_STREAMS - Cardinality(U)
<1>1. IsFiniteSet(Slots) /\ Cardinality(Slots) = MAX_STREAMS
  BY Constants, FS_Interval DEF Slots
<1>2. IsFiniteSet(U)
  BY <1>1, FS_Subset
<1>3. Slots \cap U = U
  OBVIOUS
<1>4. Cardinality(Slots \ U) = Cardinality(Slots) - Cardinality(Slots \cap U)
  BY <1>1, FS_Difference
<1> QED
  BY <1>1, <1>2, <1>3, <1>4, FS_CardinalityType

\* The terms of the sum that WithinLimits bounds.
LEMMA Counts ==
    ASSUME Shape
    PROVE  /\ Len(pending) \in Nat /\ Len(work) \in Nat
           /\ Cardinality(starting) \in Nat
           /\ Cardinality(OpenRelays) \in Nat
           /\ IsFiniteSet(OpenRelays)
<1>1. OpenRelays \in SUBSET Slots
  BY DEF OpenRelays
<1>2. IsFiniteSet(OpenRelays) /\ Cardinality(OpenRelays) \in Nat
  BY <1>1, SlotCount
<1>3. Cardinality(starting) \in Nat
  BY FS_CardinalityType DEF Shape
<1> QED
  BY <1>2, <1>3 DEF Shape

\* match_pending moves streams from pending to starting: the number of
\* streams does not grow.
LEMMA MatchBound ==
    ASSUME Shape, NEW p, NEW w, NEW opened, \E S : p \in Seq(S), \E S : w \in Seq(S),
           match_pending(p, w, opened), relays' = relays
    PROVE  /\ Shape'
           /\ Len(pending') <= Len(p)
           /\ Len(pending') + Cardinality(starting') <= Len(p) + Cardinality(starting)
<1>0. PICK k \in 0..Lesser(Len(p), Len(w)) : \E failed \in SUBSET (1..k) :
        /\ pending' = SubSeq(p, k + 1, Len(p))
        /\ work' = SubSeq(w, 1, Len(w) - k)
        /\ starting' = starting \cup
             {[direct |-> p[i].fd, work |-> w[Len(w) - i + 1], left |-> Timeout] :
                i \in (1..k) \ failed}
  BY DEF match_pending
<1>1. PICK failed \in SUBSET (1..k) :
        /\ pending' = SubSeq(p, k + 1, Len(p))
        /\ work' = SubSeq(w, 1, Len(w) - k)
        /\ starting' = starting \cup
             {[direct |-> p[i].fd, work |-> w[Len(w) - i + 1], left |-> Timeout] :
                i \in (1..k) \ failed}
  BY <1>0
<1>2. Len(p) \in Nat /\ Len(w) \in Nat
  OBVIOUS
<1>3. k \in Nat /\ k <= Len(p) /\ k <= Len(w)
  BY <1>0, <1>2 DEF Lesser
<1>4. /\ \E S : pending' \in Seq(S)
      /\ Len(pending') = Len(p) - k
  <2>1. PICK S : p \in Seq(S)
    OBVIOUS
  <2>2. SubSeq(p, k + 1, Len(p)) \in Seq(S)
    BY <1>2, <1>3, <2>1
  <2>3. Len(SubSeq(p, k + 1, Len(p))) = Len(p) - k
    BY <1>2, <1>3, <2>1
  <2> QED
    BY <1>1, <2>2, <2>3
<1>5. \E S : work' \in Seq(S)
  <2>1. PICK S : w \in Seq(S)
    OBVIOUS
  <2>2. SubSeq(w, 1, Len(w) - k) \in Seq(S)
    BY <1>2, <1>3, <2>1
  <2> QED
    BY <1>1, <2>2
<1> DEFINE K  == (1..k) \ failed
           f  == [i \in K |-> [direct |-> p[i].fd, work |-> w[Len(w) - i + 1], left |-> Timeout]]
           T  == {f[i] : i \in K}
<1>6. IsFiniteSet(K) /\ Cardinality(K) \in Nat /\ Cardinality(K) <= k
  <2>1. IsFiniteSet(1..k) /\ Cardinality(1..k) = k
    BY <1>3, FS_Interval
  <2>2. K \in SUBSET (1..k)
    OBVIOUS
  <2> QED
    BY <2>1, <2>2, FS_Subset, FS_CardinalityType
<1>7. IsFiniteSet(T) /\ Cardinality(T) <= k /\ Cardinality(T) \in Nat
  <2>1. f = [x \in K |-> f[x]]
    OBVIOUS
  <2> HIDE DEF f, K
  <2>2. IsFiniteSet(T) /\ Cardinality(T) <= Cardinality(K)
    BY <1>6, <2>1, ImageBound
  <2> QED
    BY <1>3, <1>6, <2>2, FS_CardinalityType
<1>8. starting' = starting \cup T
  BY <1>1
<1> HIDE DEF T
<1>9. /\ IsFiniteSet(starting')
      /\ Cardinality(starting') <= Cardinality(starting) + k
      /\ Cardinality(starting') \in Nat
  <2>1. IsFiniteSet(starting) /\ Cardinality(starting) \in Nat
    BY Counts DEF Shape
  <2>2. /\ IsFiniteSet(starting \cup T)
        /\ Cardinality(starting \cup T)
             = Cardinality(starting) + Cardinality(T) - Cardinality(starting \cap T)
    BY <1>7, <2>1, FS_Union
  <2>3. Cardinality(starting \cap T) \in Nat
    BY <2>1, FS_Intersection, FS_CardinalityType
  <2> QED
    BY <1>3, <1>7, <1>8, <2>1, <2>2, <2>3, FS_CardinalityType
<1>10. Cardinality(starting) \in Nat
  BY Counts
<1> QED
  BY <1>2, <1>3, <1>4, <1>5, <1>9, <1>10 DEF Shape

\* Every stage is left as it is or loses streams.
LEMMA NotMore ==
    ASSUME Inv, Shape',
           Len(pending') <= Len(pending),
           Cardinality(starting') <= Cardinality(starting),
           OpenRelays' \in SUBSET OpenRelays
    PROVE  Inv'
<1>1. Cardinality(OpenRelays') <= Cardinality(OpenRelays) /\ Cardinality(OpenRelays') \in Nat
  BY Counts, FS_Subset, FS_CardinalityType DEF Inv
<1>2. Cardinality(starting') \in Nat /\ Len(pending') \in Nat
  BY FS_CardinalityType DEF Shape
<1> QED
  BY <1>1, <1>2, Counts, Constants DEF Inv, WithinLimits

LEMMA InitInv == Init => Inv
<1> SUFFICES ASSUME Init PROVE Inv
  OBVIOUS
<1>1. pending \in Seq({}) /\ work \in Seq({}) /\ Len(pending) = 0
  BY DEF Init
<1>2. starting = {} /\ OpenRelays = {}
  BY DEF Init, OpenRelays
<1>3. IsFiniteSet({}) /\ Cardinality({}) = 0
  BY FS_EmptySet
<1>4. relays = [j \in Slots |-> relays[j]]
  BY DEF Init
<1> QED
  BY <1>1, <1>2, <1>3, <1>4, Constants DEF Inv, Shape, WithinLimits

\* The arrays of a cleared peer are empty.
LEMMA PeerCloseInv ==
    ASSUME Inv, NEW late, peer_close(late)
    PROVE  Inv'
<1>1. pending' \in Seq({}) /\ work' \in Seq({}) /\ Len(pending') = 0
  BY DEF peer_close
<1>2. starting' = {} /\ OpenRelays' = {}
  BY DEF peer_close, OpenRelays
<1>3. IsFiniteSet({}) /\ Cardinality({}) = 0
  BY FS_EmptySet
<1>4. relays' = [j \in Slots |-> relays'[j]]
  BY DEF peer_close
<1> QED
  BY <1>1, <1>2, <1>3, <1>4, Constants DEF Inv, Shape, WithinLimits

\* A step that leaves the four arrays alone.
LEMMA SameArrays ==
    ASSUME Inv, UNCHANGED <<pending, work, starting, relays>>
    PROVE  Inv'
BY DEF Inv, Shape, WithinLimits, OpenRelays

LEMMA TickInv == ASSUME Inv, Tick PROVE Inv'
<1>1. pending' = [i \in DOMAIN pending |-> [pending[i] EXCEPT !.left = Older(@)]]
  BY DEF Tick
<1>2. work' = work /\ relays' = relays
  BY DEF Tick
<1> DEFINE f == [s \in starting |-> [s EXCEPT !.left = Older(@)]]
           T == {f[s] : s \in starting}
<1>3. starting' = T
  BY DEF Tick
<1>4. IsFiniteSet(T) /\ Cardinality(T) <= Cardinality(starting)
  <2>1. f = [x \in starting |-> f[x]]
    OBVIOUS
  <2> HIDE DEF f
  <2> QED
    BY <2>1, ImageBound DEF Inv, Shape
<1> HIDE DEF T
<1>5. DOMAIN pending = 1..Len(pending) /\ Len(pending) \in Nat
  BY DEF Inv, Shape
<1>6. /\ \E S : pending' \in Seq(S)
      /\ Len(pending') = Len(pending)
  <2>1. pending' = [i \in 1..Len(pending) |-> pending'[i]]
    BY <1>1, <1>5
  <2> QED
    BY <1>5, <2>1, FunctionIsSeq
<1>7. Shape'
  BY <1>2, <1>3, <1>4, <1>6 DEF Inv, Shape
<1>8. OpenRelays' = OpenRelays
  BY <1>2 DEF OpenRelays
<1> QED
  BY <1>3, <1>4, <1>5, <1>6, <1>7, <1>8, NotMore

\* The expiry loops only remove elements.
LEMMA ExpireInv == ASSUME Inv, NEW late, Expire(late) PROVE Inv'
<1>1. DOMAIN pending = 1..Len(pending) /\ Len(pending) \in Nat
  BY DEF Inv, Shape
<1>2. /\ IsFiniteSet(LivePending) /\ Cardinality(LivePending) \in Nat
      /\ Cardinality(LivePending) <= Len(pending)
  <2>1. LivePending \in SUBSET (1..Len(pending))
    BY <1>1 DEF LivePending
  <2>2. IsFiniteSet(1..Len(pending)) /\ Cardinality(1..Len(pending)) = Len(pending)
    BY <1>1, IntervalCount
  <2> QED
    BY <2>1, <2>2, FS_Subset, FS_CardinalityType
<1>3. /\ \E S : pending' \in Seq(S)
      /\ Len(pending') = Cardinality(LivePending)
  <2>1. pending' = [j \in 1..Cardinality(LivePending) |-> pending'[j]]
    BY DEF Expire, SwapRemove
  <2> QED
    BY <1>2, <2>1, FunctionIsSeq
<1>4. IsFiniteSet(starting') /\ Cardinality(starting') <= Cardinality(starting)
  <2>1. starting' \in SUBSET starting
    BY DEF Expire, LiveStarting
  <2> QED
    BY <2>1, FS_Subset DEF Inv, Shape
<1>5. work' = work
  BY DEF Expire
<1>6. relays' = relays /\ OpenRelays' \in SUBSET OpenRelays
  BY DEF Expire, OpenRelays
<1>7. Shape'
  BY <1>3, <1>4, <1>5, <1>6 DEF Inv, Shape
<1> QED
  BY <1>1, <1>2, <1>3, <1>4, <1>6, <1>7, NotMore

LEMMA IncomingBindInv == ASSUME Inv, NEW f \in Fds, IncomingBind(f) PROVE Inv'
<1>1. CASE UNCHANGED <<pending, work, starting>>
  BY <1>1, SameArrays DEF IncomingBind
<1>2. CASE match_pending(pending, Append(work, f), {})
  <2>1. \E S : Append(work, f) \in Seq(S)
    <3>1. PICK S : work \in Seq(S)
      BY DEF Inv, Shape
    <3>2. work \in Seq(S \cup {f})
      BY <3>1
    <3> QED
      BY <3>2
  <2>2. relays' = relays
    BY DEF IncomingBind
  <2>3. /\ Shape' /\ Len(pending') <= Len(pending)
        /\ Len(pending') + Cardinality(starting') <= Len(pending) + Cardinality(starting)
    BY <1>2, <2>1, <2>2, MatchBound DEF Inv, Shape
  <2>4. OpenRelays' = OpenRelays
    BY <2>2 DEF OpenRelays
  <2>5. Cardinality(starting') \in Nat /\ Len(pending') \in Nat
    BY <2>3, FS_CardinalityType DEF Shape
  <2> QED
    BY <2>3, <2>4, <2>5, Counts, Constants DEF Inv, WithinLimits
<1> QED
  BY <1>1, <1>2 DEF IncomingBind

\* The limits are checked with the new connection not yet counted.
LEMMA ServiceAcceptInv == ASSUME Inv, ServiceAccept PROVE Inv'
<1>1. CASE UNCHANGED <<pending, work, starting>>
  BY <1>1, SameArrays DEF ServiceAccept
<1> DEFINE new == [fd |-> NewFd, left |-> Timeout - lag]
<1>2. CASE Admitted /\ match_pending(Append(pending, new), work, {NewFd})
  <2> HIDE DEF new
  <2>1. \E S : Append(pending, new) \in Seq(S)
    <3>1. PICK S : pending \in Seq(S)
      BY DEF Inv, Shape
    <3>2. pending \in Seq(S \cup {new})
      BY <3>1
    <3> QED
      BY <3>2
  <2>2. relays' = relays
    BY DEF ServiceAccept
  <2>3. Len(Append(pending, new)) = Len(pending) + 1
    BY DEF Inv, Shape
  <2>4. /\ Shape' /\ Len(pending') <= Len(pending) + 1
        /\ Len(pending') + Cardinality(starting') <= Len(pending) + 1 + Cardinality(starting)
    BY <1>2, <2>1, <2>2, <2>3, MatchBound DEF Inv, Shape
  <2>5. OpenRelays' = OpenRelays
    BY <2>2 DEF OpenRelays
  <2>6. Cardinality(starting') \in Nat /\ Len(pending') \in Nat
    BY <2>4, FS_CardinalityType DEF Shape
  <2>7. /\ Len(pending) < PendingLimit
        /\ Len(pending) + Cardinality(starting) + Cardinality(OpenRelays) < StreamLimit
    BY <1>2 DEF Admitted, active_streams
  <2> QED
    BY <2>4, <2>5, <2>6, <2>7, Counts, Constants DEF Inv, WithinLimits
<1> QED
  BY <1>1, <1>2 DEF ServiceAccept

\* A stream passes from starting to one relay slot.
LEMMA StartingReadyInv == ASSUME Inv, NEW f \in Fds, StartingReady(f) PROVE Inv'
<1>1. PICK s \in starting : \E j \in Slots :
        /\ starting' = starting \ {s}
        /\ relays' = [relays EXCEPT ![j] = [direct |-> s.direct, work |-> s.work]]
  BY DEF StartingReady
<1>2. PICK j \in Slots :
        relays' = [relays EXCEPT ![j] = [direct |-> s.direct, work |-> s.work]]
  BY <1>1
<1>3. pending' = pending /\ work' = work
  BY DEF StartingReady
<1>4. /\ IsFiniteSet(starting') /\ Cardinality(starting') = Cardinality(starting) - 1
      /\ Cardinality(starting') \in Nat
  BY <1>1, FS_RemoveElement, FS_CardinalityType DEF Inv, Shape
<1>5. relays' = [i \in Slots |-> relays'[i]]
  BY <1>2 DEF Inv, Shape
<1>6. OpenRelays' \in SUBSET (OpenRelays \cup {j})
  BY <1>2 DEF Inv, Shape, OpenRelays
<1>7. /\ Cardinality(OpenRelays') <= Cardinality(OpenRelays) + 1
      /\ Cardinality(OpenRelays') \in Nat
  <2>1. /\ IsFiniteSet(OpenRelays \cup {j})
        /\ Cardinality(OpenRelays \cup {j}) <= Cardinality(OpenRelays) + 1
    <3>1. IsFiniteSet(OpenRelays) /\ Cardinality(OpenRelays) \in Nat
      BY Counts DEF Inv
    <3>2. /\ IsFiniteSet(OpenRelays \cup {j})
          /\ Cardinality(OpenRelays \cup {j})
               = IF j \in OpenRelays THEN Cardinality(OpenRelays) ELSE Cardinality(OpenRelays) + 1
      BY <3>1, FS_AddElement
    <3> QED
      BY <3>1, <3>2
  <2> QED
    BY <1>6, <2>1, Counts, FS_Subset, FS_CardinalityType DEF Inv
<1> QED
  BY <1>3, <1>4, <1>5, <1>7, Counts, Constants DEF Inv, Shape, WithinLimits

\* A stream leaves starting.
LEMMA StartingLeaves ==
    ASSUME Inv, NEW s \in starting, starting' = starting \ {s},
           UNCHANGED <<pending, work, relays>>
    PROVE  Inv'
<1>1. IsFiniteSet(starting') /\ Cardinality(starting') <= Cardinality(starting)
  BY FS_Subset DEF Inv, Shape
<1>2. Shape'
  BY <1>1 DEF Inv, Shape
<1> QED
  BY <1>1, <1>2, NotMore, Counts DEF OpenRelays, Inv

LEMMA RelayClosesInv ==
    ASSUME Inv, NEW side, NEW j \in Slots, RelayCloses(side, j)
    PROVE  Inv'
<1>1. UNCHANGED <<pending, work, starting>> /\ relays' = [relays EXCEPT ![j] = Free]
  BY DEF RelayCloses
<1>2. Shape'
  BY <1>1 DEF Inv, Shape
<1>3. OpenRelays' \in SUBSET OpenRelays
  BY <1>1 DEF OpenRelays, Inv, Shape
<1> QED
  BY <1>1, <1>2, <1>3, NotMore, Counts DEF Inv

LEMMA StepInv == Inv /\ [Next]_vars => Inv'
<1> SUFFICES ASSUME Inv, [Next]_vars PROVE Inv'
  OBVIOUS
<1>1. CASE Poll
  BY <1>1, SameArrays DEF Poll
<1>2. CASE Tick
  BY <1>2, TickInv
<1>3. CASE EndBatch
  BY <1>3, ExpireInv, PeerCloseInv DEF EndBatch
<1>4. CASE AcceptControl
  BY <1>4, SameArrays DEF AcceptControl
<1>5. CASE ServiceRegistered
  BY <1>5, SameArrays DEF ServiceRegistered
<1>6. CASE ControlLost
  BY <1>6, PeerCloseInv DEF ControlLost
<1>7. CASE ServiceAccept
  BY <1>7, ServiceAcceptInv
<1>8. ASSUME NEW f \in Fds, IncomingBind(f) PROVE Inv'
  BY <1>8, IncomingBindInv
<1>9. ASSUME NEW f \in Fds, IncomingRejected(f) \/ IncomingAuthenticated(f) PROVE Inv'
  BY <1>9, SameArrays DEF IncomingRejected, IncomingAuthenticated
<1>10. ASSUME NEW f \in Fds, StartingReady(f) PROVE Inv'
  BY <1>10, StartingReadyInv
<1>11. ASSUME NEW f \in Fds, StartingFails(f) \/ StartingInitFails(f) PROVE Inv'
  BY <1>11, StartingLeaves DEF StartingFails, StartingInitFails
<1>12. ASSUME NEW side \in {"direct", "work"}, NEW j \in Slots, RelayCloses(side, j) PROVE Inv'
  BY <1>12, RelayClosesInv
<1>13. CASE UNCHANGED vars
  BY <1>13, SameArrays DEF vars
<1> QED
  BY <1>1, <1>2, <1>3, <1>4, <1>5, <1>6, <1>7, <1>8, <1>9, <1>10, <1>11, <1>12, <1>13 DEF Next

\* The limits leave a slot for every started stream.
LEMMA LimitsGiveSlots == Inv => SlotForStarting
<1> SUFFICES ASSUME Inv PROVE SlotForStarting
  OBVIOUS
<1>1. OpenRelays \in SUBSET Slots
  BY DEF OpenRelays
<1>2. Cardinality(Slots \ OpenRelays) = MAX_STREAMS - Cardinality(OpenRelays)
  BY <1>1, SlotCount
<1> QED
  BY <1>2, Counts, Constants DEF Inv, WithinLimits, SlotForStarting

\* The streams a client has pending, starting and relayed never exceed its
\* limit, and its pending streams the pending limit, whatever the handlers,
\* failures and timeouts.
THEOREM Limits == Spec => []WithinLimits
<1>1. Spec => []Inv
  BY InitInv, StepInv, PTL DEF Spec
<1>2. Inv => WithinLimits
  BY DEF Inv
<1> QED
  BY <1>1, <1>2, PTL

\* start_relay_finish always finds a free relay slot, for as many starting
\* streams as there are.
THEOREM SlotAvailable == Spec => []SlotForStarting
<1>1. Spec => []Inv
  BY InitInv, StepInv, PTL DEF Spec
<1> QED
  BY <1>1, LimitsGiveSlots, PTL
-----------------------------------------------------------------------------
(***************************************************************************)
(* Who owns a descriptor.                                                  *)
(***************************************************************************)

PendingStreams  == [fd : Fds, left : Int]
StartingStreams == [direct : Fds, work : Fds, left : Int]

FdsOf(p)     == {p[i].fd : i \in DOMAIN p}
Elements(q)  == {q[i] : i \in DOMAIN q}
DirectOf(S)  == {s.direct : s \in S}
WorkOf(S)    == {s.work : s \in S}
RelayDirect  == {relays[j].direct : j \in OpenRelays}
RelayWork    == {relays[j].work : j \in OpenRelays}

OneFd(p)     == \A i, j \in DOMAIN p : p[i].fd = p[j].fd => i = j
Distinct(q)  == \A i, j \in DOMAIN q : q[i] = q[j] => i = j
OneStart(S)  == \A s, t \in S : s.direct = t.direct \/ s.work = t.work => s = t
OneRelay     == \A i, j \in OpenRelays :
                  relays[i].direct = relays[j].direct \/ relays[i].work = relays[j].work => i = j

\* The descriptors o are the control channels C, listeners L, incoming I,
\* pending P and work connections W, those of starting streams D and K and of
\* relays A and B, each in one of these sets.
Owned(C, L, I, P, W, D, K, A, B, o) ==
    \A f : /\ f \in C => f \notin L \cup I \cup P \cup W \cup D \cup K \cup A \cup B
           /\ f \in L => f \notin I \cup P \cup W \cup D \cup K \cup A \cup B
           /\ f \in I => f \notin P \cup W \cup D \cup K \cup A \cup B
           /\ f \in P => f \notin W \cup D \cup K \cup A \cup B
           /\ f \in W => f \notin D \cup K \cup A \cup B
           /\ f \in D => f \notin K \cup A \cup B
           /\ f \in K => f \notin A \cup B
           /\ f \in A => f \notin B
           /\ f \in o <=> f \in C \cup L \cup I \cup P \cup W \cup D \cup K \cup A \cup B

Typed ==
    /\ ctl \in 0..MaxFd /\ listener \in 0..MaxFd /\ incoming \subseteq Fds /\ open \subseteq Fds
    /\ pending \in Seq(PendingStreams) /\ work \in Seq(Fds) /\ Len(work) <= MAX_STREAMS
    /\ starting \subseteq StartingStreams /\ IsFiniteSet(starting)
    /\ Cardinality(starting) <= MAX_PENDING
    /\ relays \in [Slots -> [direct : Fds, work : Fds] \cup {Free}]

Single ==
    /\ OneFd(pending) /\ Distinct(work) /\ OneStart(starting) /\ OneRelay
    /\ Owned({ctl} \ {0}, {listener} \ {0}, incoming, FdsOf(pending), Elements(work),
             DirectOf(starting), WorkOf(starting), RelayDirect, RelayWork, open)

Loop == misclosed \in BOOLEAN /\ phase \in {"poll", "dispatch"} /\ lag \in Nat

LEMMA Limited ==
    /\ MAX_STREAMS \in Nat /\ MAX_PENDING \in Nat /\ MAX_PENDING >= 1
    /\ PendingLimit \in Nat /\ PendingLimit <= MAX_PENDING
    /\ StreamLimit \in Nat /\ Timeout \in Nat /\ MaxFd \in Nat
BY PeerAssumption

LEMMA CountOne ==
    ASSUME NEW T, \A x, y \in T : x = y
    PROVE  Cardinality(T) = IF T = {} THEN 0 ELSE 1
<1>1. CASE T = {}
  BY <1>1, FS_EmptySet
<1>2. CASE T # {}
  <2>1. PICK x \in T : TRUE
    BY <1>2
  <2>2. T = {x}
    BY <2>1
  <2> QED BY <1>2, <2>2, FS_Singleton
<1> QED BY <1>1, <1>2

\* Single says what OneOwner counts.
LEMMA SingleOwner == Single => OneOwner
<1> SUFFICES ASSUME Single, NEW f \in Fds PROVE Held(f) = IF f \in open THEN 1 ELSE 0
  BY DEF OneOwner
<1>1. f # 0
  BY Limited DEF Fds
<1> DEFINE P == {i \in DOMAIN pending : pending[i].fd = f}
           W == {i \in DOMAIN work : work[i] = f}
           D == {s \in starting : s.direct = f}
           K == {s \in starting : s.work = f}
           A == {j \in OpenRelays : relays[j].direct = f}
           B == {j \in OpenRelays : relays[j].work = f}
<1>2. Cardinality(P) = IF f \in FdsOf(pending) THEN 1 ELSE 0
  <2>1. (\A i, j \in P : i = j) /\ (P = {} <=> f \notin FdsOf(pending))
    BY DEF Single, OneFd, FdsOf
  <2> QED BY <2>1, CountOne
<1>3. Cardinality(W) = IF f \in Elements(work) THEN 1 ELSE 0
  <2>1. (\A i, j \in W : i = j) /\ (W = {} <=> f \notin Elements(work))
    BY DEF Single, Distinct, Elements
  <2> QED BY <2>1, CountOne
<1>4. Cardinality(D) = IF f \in DirectOf(starting) THEN 1 ELSE 0
  <2>1. (\A s, t \in D : s = t) /\ (D = {} <=> f \notin DirectOf(starting))
    BY DEF Single, OneStart, DirectOf
  <2> QED BY <2>1, CountOne
<1>5. Cardinality(K) = IF f \in WorkOf(starting) THEN 1 ELSE 0
  <2>1. (\A s, t \in K : s = t) /\ (K = {} <=> f \notin WorkOf(starting))
    BY DEF Single, OneStart, WorkOf
  <2> QED BY <2>1, CountOne
<1>6. Cardinality(A) = IF f \in RelayDirect THEN 1 ELSE 0
  <2>1. (\A i, j \in A : i = j) /\ (A = {} <=> f \notin RelayDirect)
    BY DEF Single, OneRelay, RelayDirect
  <2> QED BY <2>1, CountOne
<1>7. Cardinality(B) = IF f \in RelayWork THEN 1 ELSE 0
  <2>1. (\A i, j \in B : i = j) /\ (B = {} <=> f \notin RelayWork)
    BY DEF Single, OneRelay, RelayWork
  <2> QED BY <2>1, CountOne
<1>8. Held(f) = (IF f = ctl THEN 1 ELSE 0) + (IF f = listener THEN 1 ELSE 0)
                + (IF f \in incoming THEN 1 ELSE 0)
                + (IF f \in FdsOf(pending) THEN 1 ELSE 0) + (IF f \in Elements(work) THEN 1 ELSE 0)
                + (IF f \in DirectOf(starting) THEN 1 ELSE 0)
                + (IF f \in WorkOf(starting) THEN 1 ELSE 0)
                + (IF f \in RelayDirect THEN 1 ELSE 0) + (IF f \in RelayWork THEN 1 ELSE 0)
  BY <1>2, <1>3, <1>4, <1>5, <1>6, <1>7 DEF Held
<1>9. (f = ctl <=> f \in {ctl} \ {0}) /\ (f = listener <=> f \in {listener} \ {0})
  BY <1>1
<1> QED BY <1>8, <1>9 DEF Single, Owned

LEMMA Least ==
    ASSUME NEW S \in SUBSET Nat, S # {}
    PROVE  \E x \in S : \A y \in S : x <= y
<1> DEFINE R == {p \in Nat \X Nat : p[1] < p[2]}
<1>1. IsWellFoundedOn(R, Nat)
  BY NatLessThanWellFounded, Zenon DEF OpToRel
<1>2. PICK x \in S : \A y \in S : <<y, x>> \notin R
  <2> HIDE DEF R
  <2> QED BY <1>1, WFMin
<1>3. ASSUME NEW y \in S PROVE x <= y
  <2>1. x \in Nat /\ y \in Nat /\ <<y, x>> \in Nat \X Nat
    OBVIOUS
  <2>2. ~(<<y, x>>[1] < <<y, x>>[2])
    BY <1>2, <2>1
  <2> QED BY <2>1, <2>2
<1> QED BY <1>2, <1>3

\* accept returns a descriptor that is not in use.
LEMMA NewFdFree ==
    ASSUME open \subseteq Fds, open # Fds
    PROVE  NewFd \in Fds /\ NewFd \notin open
<1>1. \E f \in Fds \ open : \A g \in Fds \ open : f <= g
  <2>1. Fds \subseteq Nat
    BY Limited DEF Fds
  <2>2. Fds \ open \in SUBSET Nat /\ Fds \ open # {}
    BY <2>1
  <2> QED BY <2>2, Least
<1> QED BY <1>1 DEF NewFd

\* The k-th element of keep from the back exists and is the only one.
LEMMA Ranks ==
    ASSUME NEW n \in Nat, NEW keep \in SUBSET (1..n),
           NEW rank, rank = [q \in keep |-> Cardinality({r \in keep : r >= q})]
    PROVE  /\ IsFiniteSet(keep) /\ Cardinality(keep) \in Nat
           /\ rank \in Bijection(keep, 1..Cardinality(keep))
<1> DEFINE c == Cardinality(keep)
           above(q) == {r \in keep : r >= q}
<1>1. IsFiniteSet(keep) /\ c \in Nat
  BY IntervalCount, FS_Subset, FS_CardinalityType
<1>2. ASSUME NEW q \in keep
      PROVE  /\ IsFiniteSet(above(q)) /\ Cardinality(above(q)) \in 1..c /\ q \in above(q)
             /\ Cardinality(above(q)) \in Nat
  <2>1. q \in above(q) /\ above(q) \in SUBSET keep
    OBVIOUS
  <2>2. IsFiniteSet(above(q)) /\ Cardinality(above(q)) <= c /\ Cardinality(above(q)) \in Nat
    BY <1>1, <2>1, FS_Subset, FS_CardinalityType
  <2>3. Cardinality(above(q)) # 0
    BY <2>1, <2>2, FS_EmptySet
  <2> HIDE DEF above, c
  <2> QED BY <1>1, <2>1, <2>2, <2>3
<1>3. ASSUME NEW p \in keep, NEW q \in keep, q < p
      PROVE  Cardinality(above(p)) < Cardinality(above(q))
  <2>1. above(p) \in SUBSET above(q) /\ q \notin above(p)
    <3>1. keep \subseteq Int
      OBVIOUS
    <3>2. \A r \in keep : r >= p => r >= q
      BY <1>3, <3>1
    <3>3. ~(q >= p)
      BY <1>3, <3>1
    <3> QED BY <3>2, <3>3
  <2>2. above(p) # above(q)
    BY <1>2, <2>1
  <2> HIDE DEF above
  <2>3. Cardinality(above(p)) <= Cardinality(above(q)) /\ Cardinality(above(p)) # Cardinality(above(q))
    BY <1>2, <2>1, <2>2, FS_Subset
  <2> QED BY <1>2, <2>3
<1>4. \A q \in keep : rank[q] = Cardinality(above(q))
  OBVIOUS
<1>5. rank \in [keep -> 1..c]
  <2> HIDE DEF above, c
  <2> QED BY <1>2, <1>4
<1>6. ASSUME NEW p \in keep, NEW q \in keep, rank[p] = rank[q] PROVE p = q
  <2>1. p \in Int /\ q \in Int
    OBVIOUS
  <2>2. ~(Cardinality(above(p)) < Cardinality(above(q))) /\ ~(Cardinality(above(q)) < Cardinality(above(p)))
    <3> HIDE DEF above
    <3> QED BY <1>2, <1>4, <1>6
  <2>3. ~(q < p) /\ ~(p < q)
    <3> HIDE DEF above
    <3> QED BY <1>3, <2>2
  <2> QED BY <2>1, <2>3
<1>7. rank \in Injection(keep, 1..c)
  BY <1>5, <1>6 DEF Injection, IsInjective
<1>8. IsFiniteSet(1..c) /\ Cardinality(1..c) = c
  BY <1>1, IntervalCount
<1>9. rank \in Surjection(keep, 1..c)
  <2> HIDE DEF above
  <2> QED BY <1>7, <1>8, FS_Injection
<1> QED BY <1>1, <1>7, <1>9 DEF Bijection

\* The expiry loop keeps the elements of keep, each once, in some order.
LEMMA Swapped ==
    ASSUME NEW S, NEW q \in Seq(S), NEW keep \in SUBSET (1..Len(q))
    PROVE  /\ Cardinality(keep) \in Nat
           /\ \E f \in Bijection(1..Cardinality(keep), keep) :
                SwapRemove(q, keep) = [j \in 1..Cardinality(keep) |-> q[f[j]]]
<1> DEFINE c == Cardinality(keep)
           rank == [x \in keep |-> Cardinality({r \in keep : r >= x})]
           kth(k) == CHOOSE x \in keep : Cardinality({r \in keep : r >= x}) = k
           holes(j) == {h \in 1..j : h \notin keep}
           high == {r \in keep : r > c}
           low == (1..c) \cap keep
           f == [j \in 1..c |-> IF j \in keep THEN j ELSE kth(Cardinality(holes(j)))]
<1>1. Len(q) \in Nat
  BY LenProperties
<1>2. IsFiniteSet(keep) /\ c \in Nat /\ rank \in Bijection(keep, 1..c)
  BY <1>1, Ranks
<1>3. keep \subseteq Int /\ IsFiniteSet(1..c) /\ Cardinality(1..c) = c
  BY <1>1, <1>2, IntervalCount
<1>4. ASSUME NEW k \in 1..c PROVE kth(k) \in keep /\ rank[kth(k)] = k
  <2>1. \E x \in keep : rank[x] = k
    <3> HIDE DEF rank, c
    <3> QED BY <1>2 DEF Bijection, Surjection
  <2>2. \E x \in keep : Cardinality({r \in keep : r >= x}) = k
    BY <2>1
  <2> QED BY <2>2
<1>5. /\ IsFiniteSet(high) /\ IsFiniteSet(low) /\ Cardinality(high) \in Nat
      /\ Cardinality(low) \in Nat /\ Cardinality(low) + Cardinality(high) = c
  <2>1. keep = low \cup high /\ low \cap high = {}
    <3>1. \A x \in keep : x \in 1..c \/ x > c
      BY <1>1, <1>2, <1>3
    <3>2. \A x \in 1..c : ~(x > c)
      BY <1>2
    <3> HIDE DEF c
    <3> QED BY <3>1, <3>2
  <2>2. low \in SUBSET keep /\ high \in SUBSET keep
    OBVIOUS
  <2> HIDE DEF low, high
  <2>3. IsFiniteSet(low) /\ IsFiniteSet(high) /\ Cardinality(low) \in Nat /\ Cardinality(high) \in Nat
    BY <1>2, <2>2, FS_Subset, FS_CardinalityType
  <2>4. Cardinality(low \cup high)
          = Cardinality(low) + Cardinality(high) - Cardinality(low \cap high)
    BY <2>3, FS_Union
  <2>5. Cardinality(low \cap high) = 0
    BY <2>1, FS_EmptySet
  <2>6. c = Cardinality(low \cup high)
    BY <2>1
  <2> QED BY <2>3, <2>4, <2>5, <2>6
<1>6. ASSUME NEW j \in 1..c
      PROVE  /\ IsFiniteSet(holes(j)) /\ Cardinality(holes(j)) \in Nat
             /\ Cardinality(holes(j)) <= Cardinality(high)
             /\ j \notin keep => Cardinality(holes(j)) \in 1..c
  <2>1. (1..c) \ keep = holes(c) /\ holes(j) \in SUBSET holes(c)
    BY <1>2
  <2>2. IsFiniteSet((1..c) \ keep) /\ Cardinality((1..c) \ keep) = c - Cardinality(low)
    BY <1>3, FS_Difference
  <2>3. j \notin keep => j \in holes(j)
    BY <1>2
  <2> HIDE DEF holes, c, low, high
  <2>4. IsFiniteSet(holes(j)) /\ Cardinality(holes(j)) <= Cardinality(holes(c))
        /\ Cardinality(holes(j)) \in Nat
    BY <2>1, <2>2, FS_Subset, FS_CardinalityType
  <2>5. j \notin keep => Cardinality(holes(j)) # 0
    BY <2>3, <2>4, FS_EmptySet
  <2>6. Cardinality(holes(c)) = Cardinality(high)
    <3>1. Cardinality(holes(c)) = c - Cardinality(low)
      BY <2>1, <2>2
    <3>2. c \in Nat /\ Cardinality(low) \in Nat /\ Cardinality(high) \in Nat
          /\ Cardinality(low) + Cardinality(high) = c
      BY <1>2, <1>5
    <3> QED BY <3>1, <3>2
  <2>7. Cardinality(high) <= c
    BY <1>2, <1>5
  <2> QED BY <1>2, <1>5, <2>4, <2>5, <2>6, <2>7
<1>7. ASSUME NEW x \in keep, rank[x] <= Cardinality(high) PROVE x > c
  <2>1. SUFFICES ASSUME ~(x > c) PROVE FALSE
    OBVIOUS
  <2> DEFINE above == {r \in keep : r >= x}
  <2>2. high \cup {x} \in SUBSET above /\ x \notin high
    <3>1. \A r \in keep : r > c => r >= x
      <4>1. c \in Int /\ x \in Int /\ \A r \in keep : r \in Int
        BY <1>2, <1>3
      <4> HIDE DEF c
      <4> QED BY <2>1, <4>1
    <3>2. x >= x
      BY <1>3
    <3> HIDE DEF c
    <3> QED BY <2>1, <3>1, <3>2
  <2>3. rank[x] = Cardinality(above)
    OBVIOUS
  <2>4. above \in SUBSET keep
    OBVIOUS
  <2> HIDE DEF high, above, rank, c
  <2>5. IsFiniteSet(above) /\ Cardinality(above) \in Nat
    BY <1>2, <2>4, FS_Subset, FS_CardinalityType
  <2>6. Cardinality(high \cup {x}) = Cardinality(high) + 1
    BY <1>5, <2>2, FS_AddElement
  <2>7. Cardinality(high \cup {x}) <= Cardinality(above)
    BY <2>2, <2>5, FS_Subset
  <2> QED BY <1>5, <1>7, <2>3, <2>5, <2>6, <2>7
<1>8. ASSUME NEW j \in 1..c, j \notin keep
      PROVE  f[j] \in keep /\ rank[f[j]] = Cardinality(holes(j)) /\ f[j] > c
  <2>1. f[j] = kth(Cardinality(holes(j))) /\ Cardinality(holes(j)) \in 1..c
    BY <1>6, <1>8
  <2>2. f[j] \in keep /\ rank[f[j]] = Cardinality(holes(j))
    <3> HIDE DEF f, kth, rank, holes, c
    <3> QED BY <1>4, <2>1
  <2>3. Cardinality(holes(j)) <= Cardinality(high)
    BY <1>6
  <2> HIDE DEF f, rank, holes, high, c
  <2> QED BY <1>7, <2>2, <2>3
<1>9. ASSUME NEW j \in 1..c, j \in keep PROVE f[j] = j /\ ~(j > c)
  BY <1>2, <1>9
<1>10. ASSUME NEW i \in 1..c, NEW j \in 1..c, i \notin keep, j \notin keep, i < j
       PROVE  Cardinality(holes(i)) # Cardinality(holes(j))
  <2>1. holes(i) \in SUBSET holes(j) /\ j \in holes(j) /\ j \notin holes(i)
    BY <1>2, <1>10
  <2>2. holes(i) # holes(j)
    BY <2>1
  <2> HIDE DEF holes
  <2> QED BY <1>6, <2>1, <2>2, FS_Subset
<1>11. f \in Injection(1..c, keep)
  <2>1. ASSUME NEW j \in 1..c PROVE f[j] \in keep
    BY <1>8, <1>9, <2>1
  <2>2. ASSUME NEW i \in 1..c, NEW j \in 1..c, f[i] = f[j] PROVE i = j
    <3>1. CASE i \in keep \/ j \in keep
      <4> HIDE DEF f, holes, rank, c
      <4> QED BY <1>8, <1>9, <2>2, <3>1
    <3>2. CASE i \notin keep /\ j \notin keep
      <4>1. Cardinality(holes(i)) = Cardinality(holes(j))
        <5> HIDE DEF f, holes, rank, c
        <5> QED BY <1>8, <2>2, <3>2
      <4>2. ~(i < j) /\ ~(j < i)
        <5> HIDE DEF f, holes, rank, c
        <5> QED BY <1>10, <3>2, <4>1
      <4>3. i \in Int /\ j \in Int
        OBVIOUS
      <4> QED BY <4>2, <4>3
    <3> QED BY <3>1, <3>2
  <2>3. f = [j \in 1..c |-> f[j]]
    OBVIOUS
  <2> HIDE DEF f
  <2>4. f \in [1..c -> keep]
    BY <2>1, <2>3
  <2> QED BY <2>2, <2>4 DEF Injection, IsInjective
<1>12. f \in Bijection(1..c, keep)
  <2> HIDE DEF f
  <2>1. f \in Surjection(1..c, keep)
    BY <1>2, <1>3, <1>11, FS_Injection
  <2> QED BY <1>11, <2>1 DEF Bijection
<1>13. SwapRemove(q, keep) = [j \in 1..c |-> q[f[j]]]
  <2>1. SwapRemove(q, keep)
          = [j \in 1..c |-> IF j \in keep THEN q[j] ELSE q[kth(Cardinality(holes(j)))]]
    BY DEF SwapRemove
  <2>2. \A j \in 1..c : (IF j \in keep THEN q[j] ELSE q[kth(Cardinality(holes(j)))]) = q[f[j]]
    <3> HIDE DEF holes, kth, c
    <3> QED OBVIOUS
  <2> HIDE DEF f, holes, kth, c
  <2> QED BY <2>1, <2>2
<1> HIDE DEF f
<1> QED BY <1>2, <1>12, <1>13
-----------------------------------------------------------------------------
(***************************************************************************)
(* What match_pending does to the owners.                                  *)
(***************************************************************************)

LEMMA Suffix ==
    ASSUME NEW S, NEW q \in Seq(S), NEW n, n = Len(q), NEW k \in 0..n, NEW r, r = SubSeq(q, k + 1, n)
    PROVE  /\ r \in Seq(S) /\ Len(r) = n - k /\ DOMAIN r = 1..(n - k)
           /\ \A i \in 1..(n - k) : r[i] = q[k + i] /\ k + i \in 1..n /\ k + i \notin 1..k
           /\ \A j \in 1..n : j \notin 1..k => j - k \in 1..(n - k) /\ r[j - k] = q[j]
<1>1. n \in Nat /\ DOMAIN q = 1..n /\ k \in Int /\ 0 <= k /\ k <= n /\ \A i \in 1..n : q[i] \in S
  BY LenProperties, ElementOfSeq
<1>2. r \in Seq(S) /\ Len(r) = n - k /\ \A i \in 1..(n - k) : r[i] = q[k + i]
  <2>1. \A i \in (k + 1)..n : q[i] \in S
    BY <1>1
  <2>2. /\ r \in Seq(S) /\ Len(r) = (IF k + 1 <= n THEN n - (k + 1) + 1 ELSE 0)
        /\ \A i \in 1..n - (k + 1) + 1 : r[i] = q[(k + 1) + i - 1]
    BY <1>1, <2>1, SubSeqProperties
  <2>3. \A i \in 1..(n - k) : i \in 1..n - (k + 1) + 1 /\ (k + 1) + i - 1 = k + i
    BY <1>1
  <2>4. Len(r) = n - k
    BY <1>1, <2>2
  <2> QED BY <2>2, <2>3, <2>4
<1>3. DOMAIN r = 1..(n - k)
  BY <1>2, LenProperties
<1>4. \A i \in 1..(n - k) : k + i \in 1..n /\ k + i \notin 1..k
  BY <1>1
<1>5. \A j \in 1..n : j \notin 1..k => j - k \in 1..(n - k) /\ k + (j - k) = j
  BY <1>1
<1> QED BY <1>1, <1>2, <1>3, <1>4, <1>5

LEMMA Prefix ==
    ASSUME NEW S, NEW q \in Seq(S), NEW n, n = Len(q), NEW k \in 0..n, NEW r, r = SubSeq(q, 1, n - k)
    PROVE  /\ r \in Seq(S) /\ Len(r) = n - k /\ DOMAIN r = 1..(n - k)
           /\ \A i \in 1..(n - k) : r[i] = q[i] /\ i \in 1..n
<1> DEFINE m == n - k
<1>1. n \in Nat /\ DOMAIN q = 1..n /\ k \in Int /\ 0 <= k /\ k <= n /\ \A i \in 1..n : q[i] \in S
  BY LenProperties, ElementOfSeq
<1>2. m \in Nat /\ m <= n /\ \A i \in 1..m : i \in 1..n
  BY <1>1
<1>0. r = SubSeq(q, 1, m)
  OBVIOUS
<1> HIDE DEF m
<1>3. r \in Seq(S) /\ Len(r) = m /\ \A i \in 1..m : r[i] = q[i]
  <2>1. \A i \in 1..m : q[i] \in S
    BY <1>1, <1>2
  <2>2. /\ r \in Seq(S) /\ Len(r) = (IF 1 <= m THEN m - 1 + 1 ELSE 0)
        /\ \A i \in 1..m - 1 + 1 : r[i] = q[1 + i - 1]
    BY <1>2, <1>0, <2>1, SubSeqProperties
  <2>3. \A i \in 1..m : i \in 1..m - 1 + 1 /\ 1 + i - 1 = i
    BY <1>2
  <2>4. Len(r) = m
    BY <1>2, <2>2
  <2> QED BY <2>2, <2>3, <2>4
<1>4. DOMAIN r = 1..m
  BY <1>3, LenProperties
<1> QED BY <1>1, <1>2, <1>3, <1>4 DEF m

\* Of the pending descriptors of p, A are started and X closed; of the work
\* connections of w, B and Y.
Matched(p, w, opened, A, X, B, Y) ==
    /\ pending' \in Seq(PendingStreams) /\ OneFd(pending')
    /\ \A f : f \in FdsOf(pending') <=> f \in FdsOf(p) /\ f \notin A /\ f \notin X
    /\ \A f : (f \in A => f \in FdsOf(p) /\ f \notin X) /\ (f \in X => f \in FdsOf(p))
    /\ work' \in Seq(Fds) /\ Len(work') <= Len(w) /\ Distinct(work')
    /\ \A f : f \in Elements(work') <=> f \in Elements(w) /\ f \notin B /\ f \notin Y
    /\ \A f : (f \in B => f \in Elements(w) /\ f \notin Y) /\ (f \in Y => f \in Elements(w))
    /\ starting' \subseteq StartingStreams /\ IsFiniteSet(starting')
    /\ Cardinality(starting') <= MAX_PENDING /\ OneStart(starting')
    /\ \A f : f \in DirectOf(starting') <=> f \in DirectOf(starting) \/ f \in A
    /\ \A f : f \in WorkOf(starting') <=> f \in WorkOf(starting) \/ f \in B
    /\ CloseAll(opened, X \cup Y)
    /\ Len(pending') = 0 \/ Len(work') = 0 \/ Cardinality(starting') >= MAX_PENDING

LEMMA PairFields ==
    \A a, b \in Fds : LET s == [direct |-> a, work |-> b, left |-> Timeout]
                      IN  s \in StartingStreams /\ s.direct = a /\ s.work = b
<1>1. Timeout \in Int
  BY Limited
<1> QED BY <1>1 DEF StartingStreams

LEMMA Matches ==
    ASSUME NEW p \in Seq(PendingStreams), OneFd(p), NEW w \in Seq(Fds), Distinct(w), NEW opened,
           starting \subseteq StartingStreams, IsFiniteSet(starting),
           Cardinality(starting) <= MAX_PENDING, OneStart(starting),
           \A f \in FdsOf(p) : f \notin DirectOf(starting),
           \A f \in Elements(w) : f \notin WorkOf(starting),
           match_pending(p, w, opened)
    PROVE  \E A, X, B, Y : Matched(p, w, opened, A, X, B, Y)
<1> DEFINE n == Len(p)
           l == Len(w)
           pair(i) == [direct |-> p[i].fd, work |-> w[l - i + 1], left |-> Timeout]
<1>1. /\ n \in Nat /\ DOMAIN p = 1..n /\ \A i \in 1..n : p[i] \in PendingStreams
      /\ l \in Nat /\ DOMAIN w = 1..l /\ \A i \in 1..l : w[i] \in Fds
  BY LenProperties, ElementOfSeq
<1>2. PICK k \in 0..Lesser(n, l) : \E failed \in SUBSET (1..k) :
        LET full(j) == Cardinality(starting) + Cardinality((1..j) \ failed) >= MAX_PENDING
            top(i)  == w[l - i + 1]
        IN
        /\ \A j \in 0..(k - 1) : ~full(j)
        /\ k = n \/ k = l \/ full(k)
        /\ pending' = SubSeq(p, k + 1, n)
        /\ work' = SubSeq(w, 1, l - k)
        /\ starting' = starting \cup {pair(i) : i \in (1..k) \ failed}
        /\ CloseAll(opened, {p[i].fd : i \in failed} \cup {top(i) : i \in failed})
  BY DEF match_pending
<1>3. PICK failed \in SUBSET (1..k) :
        LET full(j) == Cardinality(starting) + Cardinality((1..j) \ failed) >= MAX_PENDING
            top(i)  == w[l - i + 1]
        IN
        /\ \A j \in 0..(k - 1) : ~full(j)
        /\ k = n \/ k = l \/ full(k)
        /\ pending' = SubSeq(p, k + 1, n)
        /\ work' = SubSeq(w, 1, l - k)
        /\ starting' = starting \cup {pair(i) : i \in (1..k) \ failed}
        /\ CloseAll(opened, {p[i].fd : i \in failed} \cup {top(i) : i \in failed})
  BY <1>2
<1> DEFINE good == (1..k) \ failed
           started == {pair(i) : i \in good}
           A == {p[i].fd : i \in good}
           X == {p[i].fd : i \in failed}
           B == {w[l - i + 1] : i \in good}
           Y == {w[l - i + 1] : i \in failed}
<1>4. k \in Nat /\ k <= n /\ k <= l /\ k \in 0..n /\ k \in 0..l
  BY <1>1 DEF Lesser
<1>5. \A i \in 1..k : /\ i \in 1..n /\ l - i + 1 \in 1..l
                      /\ p[i].fd \in Fds /\ w[l - i + 1] \in Fds
  BY <1>1, <1>4 DEF PendingStreams
<1>6. \A i \in 1..k : /\ pair(i) \in StartingStreams /\ pair(i).direct = p[i].fd
                      /\ pair(i).work = w[l - i + 1]
  BY <1>5, PairFields
<1>7. \A i, j \in 1..k : p[i].fd = p[j].fd => i = j
  BY <1>1, <1>5 DEF OneFd
<1>8. \A i, j \in 1..k : w[l - i + 1] = w[l - j + 1] => i = j
  <2> SUFFICES ASSUME NEW i \in 1..k, NEW j \in 1..k, w[l - i + 1] = w[l - j + 1] PROVE i = j
    OBVIOUS
  <2>1. l - i + 1 = l - j + 1
    BY <1>1, <1>5 DEF Distinct
  <2> QED BY <1>1, <2>1
<1>9. /\ good \subseteq 1..k /\ failed \subseteq 1..k
      /\ \A i \in 1..k : i \in good <=> i \notin failed
  OBVIOUS
<1> HIDE DEF good
<1>10. /\ pending' \in Seq(PendingStreams) /\ OneFd(pending') /\ Len(pending') = n - k
       /\ \A f : f \in FdsOf(pending') <=> f \in FdsOf(p) /\ f \notin A /\ f \notin X
       /\ \A f : (f \in A => f \in FdsOf(p) /\ f \notin X) /\ (f \in X => f \in FdsOf(p))
  <2>1. PICK r : r = pending'
    OBVIOUS
  <2>2. /\ r \in Seq(PendingStreams) /\ Len(r) = n - k /\ DOMAIN r = 1..(n - k)
        /\ \A i \in 1..(n - k) : r[i] = p[k + i] /\ k + i \in 1..n /\ k + i \notin 1..k
        /\ \A j \in 1..n : j \notin 1..k => j - k \in 1..(n - k) /\ r[j - k] = p[j]
    <3>1. r = SubSeq(p, k + 1, n) /\ k \in 0..n /\ n = Len(p)
      BY <1>3, <1>4, <2>1
    <3> HIDE DEF n
    <3> QED BY <3>1, Suffix
  <2>3. OneFd(r)
    <3> SUFFICES ASSUME NEW i \in 1..(n - k), NEW j \in 1..(n - k), r[i].fd = r[j].fd PROVE i = j
      BY <2>2 DEF OneFd
    <3>1. k + i \in DOMAIN p /\ k + j \in DOMAIN p /\ p[k + i].fd = p[k + j].fd
      <4> HIDE DEF n
      <4> QED BY <1>1, <2>2
    <3>2. k + i = k + j
      BY <3>1 DEF OneFd
    <3> QED BY <1>4, <3>2
  <2> HIDE DEF n
  <2>4. ASSUME NEW f \in FdsOf(r) PROVE f \in FdsOf(p) /\ f \notin A /\ f \notin X
    <3>1. PICK i \in 1..(n - k) : f = r[i].fd
      BY <2>2 DEF FdsOf
    <3>2. f = p[k + i].fd /\ k + i \in 1..n /\ k + i \notin 1..k
      BY <2>2, <3>1
    <3>3. f \in FdsOf(p)
      BY <1>1, <3>2 DEF FdsOf
    <3>4. ASSUME NEW j \in 1..k PROVE f # p[j].fd
      BY <1>1, <1>5, <3>2 DEF OneFd
    <3> QED BY <1>9, <3>3, <3>4
  <2>5. ASSUME NEW f \in FdsOf(p), f \notin A, f \notin X PROVE f \in FdsOf(r)
    <3>1. PICK j \in 1..n : f = p[j].fd
      BY <1>1 DEF FdsOf
    <3>2. j \notin 1..k
      BY <1>9, <2>5, <3>1
    <3> QED BY <2>2, <3>1, <3>2 DEF FdsOf
  <2>6. \A f : (f \in A => f \in FdsOf(p) /\ f \notin X) /\ (f \in X => f \in FdsOf(p))
    <3>1. \A i \in 1..k : p[i].fd \in FdsOf(p)
      BY <1>1, <1>5 DEF FdsOf
    <3>2. ASSUME NEW f \in A, f \in X PROVE FALSE
      <4>1. PICK i \in good : f = p[i].fd
        OBVIOUS
      <4>2. PICK j \in failed : f = p[j].fd
        BY <3>2
      <4> QED BY <1>7, <1>9, <4>1, <4>2
    <3> QED BY <1>9, <3>1, <3>2
  <2> HIDE DEF A, X
  <2> QED BY <2>1, <2>2, <2>3, <2>4, <2>5, <2>6
<1>11. /\ work' \in Seq(Fds) /\ Distinct(work') /\ Len(work') = l - k
       /\ \A f : f \in Elements(work') <=> f \in Elements(w) /\ f \notin B /\ f \notin Y
       /\ \A f : (f \in B => f \in Elements(w) /\ f \notin Y) /\ (f \in Y => f \in Elements(w))
  <2>1. PICK r : r = work'
    OBVIOUS
  <2>2. /\ r \in Seq(Fds) /\ Len(r) = l - k /\ DOMAIN r = 1..(l - k)
        /\ \A i \in 1..(l - k) : r[i] = w[i] /\ i \in 1..l
    <3>1. r = SubSeq(w, 1, l - k) /\ k \in 0..l /\ l = Len(w)
      BY <1>3, <1>4, <2>1
    <3> HIDE DEF l
    <3> QED BY <3>1, Prefix
  <2>3. Distinct(r)
    BY <1>1, <2>2 DEF Distinct
  <2>4. \A j \in 1..l : j \in 1..(l - k) \/ (l - j + 1 \in 1..k /\ l - (l - j + 1) + 1 = j)
    BY <1>1, <1>4
  <2>5. \A i \in 1..k : l - i + 1 \notin 1..(l - k)
    BY <1>1, <1>4
  <2> HIDE DEF l
  <2>6. ASSUME NEW f \in Elements(r) PROVE f \in Elements(w) /\ f \notin B /\ f \notin Y
    <3>1. PICK i \in 1..(l - k) : f = w[i] /\ i \in 1..l
      BY <2>2 DEF Elements
    <3>2. f \in Elements(w)
      BY <1>1, <3>1 DEF Elements
    <3>3. ASSUME NEW j \in 1..k PROVE f # w[l - j + 1]
      BY <1>1, <1>5, <2>5, <3>1 DEF Distinct
    <3> QED BY <1>9, <3>2, <3>3
  <2>7. ASSUME NEW f \in Elements(w), f \notin B, f \notin Y PROVE f \in Elements(r)
    <3>1. PICK j \in 1..l : f = w[j]
      BY <1>1 DEF Elements
    <3>2. CASE j \in 1..(l - k)
      BY <2>2, <3>1, <3>2 DEF Elements
    <3>3. CASE l - j + 1 \in 1..k /\ l - (l - j + 1) + 1 = j
      <4>1. PICK i \in 1..k : l - i + 1 = j
        BY <3>3
      <4>2. f = w[l - i + 1]
        BY <3>1, <4>1
      <4> QED BY <1>9, <2>7, <4>2
    <3> QED BY <2>4, <3>2, <3>3
  <2>8. \A f : (f \in B => f \in Elements(w) /\ f \notin Y) /\ (f \in Y => f \in Elements(w))
    <3>1. \A i \in 1..k : w[l - i + 1] \in Elements(w)
      BY <1>1, <1>5 DEF Elements
    <3>2. ASSUME NEW f \in B, f \in Y PROVE FALSE
      <4>1. PICK i \in good : f = w[l - i + 1]
        OBVIOUS
      <4>2. PICK j \in failed : f = w[l - j + 1]
        BY <3>2
      <4> QED BY <1>8, <1>9, <4>1, <4>2
    <3> QED BY <1>9, <3>1, <3>2
  <2> HIDE DEF B, Y
  <2> QED BY <2>1, <2>2, <2>3, <2>6, <2>7, <2>8
<1>12. starting' = starting \cup started /\ CloseAll(opened, X \cup Y)
  BY <1>3 DEF good
<1> HIDE DEF pair
<1>13. /\ \A f : f \in DirectOf(started) <=> f \in A
       /\ \A f : f \in WorkOf(started) <=> f \in B
       /\ started \subseteq StartingStreams /\ OneStart(started)
  <2>1. \A f : f \in DirectOf(started) <=> f \in A
    <3>1. ASSUME NEW f \in A PROVE f \in DirectOf(started)
      <4>1. PICK i \in good : f = p[i].fd
        OBVIOUS
      <4>2. f = pair(i).direct /\ pair(i) \in started
        BY <1>6, <1>9, <4>1
      <4> HIDE DEF started
      <4> QED BY <4>2 DEF DirectOf
    <3>2. ASSUME NEW i \in good PROVE pair(i).direct \in A
      BY <1>6, <1>9
    <3> QED BY <3>1, <3>2 DEF DirectOf
  <2>2. \A f : f \in WorkOf(started) <=> f \in B
    <3>1. ASSUME NEW f \in B PROVE f \in WorkOf(started)
      <4>1. PICK i \in good : f = w[l - i + 1]
        OBVIOUS
      <4>2. f = pair(i).work /\ pair(i) \in started
        BY <1>6, <1>9, <4>1
      <4> HIDE DEF started
      <4> QED BY <4>2 DEF WorkOf
    <3>2. ASSUME NEW i \in good PROVE pair(i).work \in B
      BY <1>6, <1>9
    <3> QED BY <3>1, <3>2 DEF WorkOf
  <2>3. started \subseteq StartingStreams
    BY <1>6, <1>9
  <2>4. ASSUME NEW i \in good, NEW j \in good,
               pair(i).direct = pair(j).direct \/ pair(i).work = pair(j).work
        PROVE  i = j
    <3>1. CASE pair(i).direct = pair(j).direct
      BY <1>6, <1>7, <1>9, <3>1
    <3>2. CASE pair(i).work = pair(j).work
      BY <1>6, <1>8, <1>9, <3>2
    <3> QED BY <2>4, <3>1, <3>2
  <2>5. OneStart(started)
    BY <2>4 DEF OneStart
  <2> QED BY <2>1, <2>2, <2>3, <2>5
<1>14. /\ IsFiniteSet(started) /\ Cardinality(started) = Cardinality(good)
       /\ IsFiniteSet(good) /\ Cardinality(good) \in Nat
  <2>1. IsFiniteSet(1..k)
    BY <1>4, FS_Interval
  <2>2. IsFiniteSet(good)
    BY <2>1, <1>9, FS_Subset
  <2> DEFINE f == [i \in good |-> pair(i)]
  <2>3. f \in Bijection(good, started)
    <3>1. f \in [good -> started]
      OBVIOUS
    <3>2. \A i, j \in good : f[i] = f[j] => i = j
      <4>1. ASSUME NEW i \in good, NEW j \in good, pair(i) = pair(j) PROVE i = j
        BY <1>6, <1>7, <1>9, <4>1
      <4> QED BY <4>1
    <3>3. \A s \in started : \E i \in good : f[i] = s
      OBVIOUS
    <3> QED BY <3>1, <3>2, <3>3 DEF Bijection, Injection, Surjection, IsInjective
  <2>4. ExistsBijection(good, started)
    BY <2>3 DEF ExistsBijection
  <2> HIDE DEF started
  <2> QED BY <2>2, <2>4, FS_Bijection, FS_CardinalityType
<1> HIDE DEF started, A, B
<1>15. /\ OneStart(starting') /\ starting' \subseteq StartingStreams
       /\ \A f : f \in DirectOf(starting') <=> f \in DirectOf(starting) \/ f \in A
       /\ \A f : f \in WorkOf(starting') <=> f \in WorkOf(starting) \/ f \in B
       /\ starting \cap started = {}
  <2>1. /\ \A f : f \in DirectOf(starting \cup started) <=> f \in DirectOf(starting) \/ f \in DirectOf(started)
        /\ \A f : f \in WorkOf(starting \cup started) <=> f \in WorkOf(starting) \/ f \in WorkOf(started)
    BY DEF DirectOf, WorkOf
  <2>2. ASSUME NEW s \in starting, NEW t \in started PROVE s.direct # t.direct /\ s.work # t.work
    <3>1. t.direct \in A /\ s.direct \in DirectOf(starting) /\ t.work \in B /\ s.work \in WorkOf(starting)
      BY <1>13 DEF DirectOf, WorkOf
    <3> QED BY <1>10, <1>11, <3>1
  <2>3. OneStart(starting \cup started)
    BY <1>13, <2>2 DEF OneStart
  <2>4. starting \cap started = {}
    BY <2>2
  <2> QED BY <1>12, <1>13, <2>1, <2>3, <2>4
<1>16. /\ IsFiniteSet(starting') /\ Cardinality(starting) \in Nat
       /\ Cardinality(starting') = Cardinality(starting) + Cardinality(good)
  <2>1. PICK e : e = starting'
    OBVIOUS
  <2>2. /\ IsFiniteSet(starting \cup started)
        /\ Cardinality(starting \cup started)
             = Cardinality(starting) + Cardinality(started) - Cardinality(starting \cap started)
    BY <1>14, FS_Union
  <2>3. Cardinality(starting) \in Nat /\ Cardinality(starting \cap started) = 0
    BY <1>15, FS_CardinalityType, FS_EmptySet
  <2>4. e = starting \cup started
    BY <1>12, <2>1
  <2>5. IsFiniteSet(e) /\ Cardinality(e) = Cardinality(starting) + Cardinality(good)
    BY <1>14, <2>2, <2>3, <2>4
  <2> QED BY <2>1, <2>3, <2>5
<1>17. Cardinality(starting) + Cardinality(good) <= MAX_PENDING
  <2>1. Cardinality(1..k) = k /\ IsFiniteSet(1..k)
    BY <1>4, FS_Interval
  <2>2. Cardinality(good) <= k
    BY <1>9, <2>1, FS_Subset
  <2>3. CASE k = 0
    BY <1>4, <1>14, <1>16, <2>2, <2>3, Limited
  <2>4. CASE k > 0
    <3> DEFINE most == (1..(k - 1)) \ failed
    <3>1. IsFiniteSet(most) /\ Cardinality(most) \in Nat
      <4>1. k - 1 \in Nat
        BY <1>4, <2>4
      <4>2. IsFiniteSet(1..(k - 1))
        BY <4>1, FS_Interval
      <4> QED BY <4>2, FS_Difference, FS_CardinalityType
    <3>2. ~(Cardinality(starting) + Cardinality(most) >= MAX_PENDING)
      <4>1. k - 1 \in 0..(k - 1)
        BY <1>4, <2>4
      <4> QED BY <1>3, <4>1
    <3>3. good \subseteq most \cup {k}
      BY <1>4, <1>9
    <3>4. /\ IsFiniteSet(most \cup {k})
          /\ Cardinality(most \cup {k}) = IF k \in most THEN Cardinality(most) ELSE Cardinality(most) + 1
      BY <3>1, FS_AddElement
    <3>5. Cardinality(good) <= Cardinality(most \cup {k})
      BY <3>3, <3>4, FS_Subset
    <3> HIDE DEF most
    <3> QED BY <1>14, <1>16, <3>1, <3>2, <3>4, <3>5, Limited
  <2> QED BY <1>4, <2>3, <2>4
<1>18. k = n \/ k = l \/ Cardinality(starting') >= MAX_PENDING
  <2>1. k = n \/ k = l \/ Cardinality(starting) + Cardinality(good) >= MAX_PENDING
    BY <1>3 DEF good
  <2> QED BY <1>16, <2>1
<1>19. Len(work') <= Len(w)
       /\ (Len(pending') = 0 \/ Len(work') = 0 \/ Cardinality(starting') >= MAX_PENDING)
  <2>1. n \in Nat /\ l \in Nat /\ k \in Nat /\ Len(pending') = n - k /\ Len(work') = l - k
    BY <1>1, <1>4, <1>10, <1>11
  <2>2. k = n => Len(pending') = 0
    BY <2>1
  <2>3. (k = l => Len(work') = 0) /\ Len(work') <= l
    BY <2>1
  <2> QED BY <1>18, <2>2, <2>3
<1>20. Cardinality(starting') <= MAX_PENDING
  BY <1>16, <1>17
<1> HIDE DEF X, Y
<1> QED BY <1>10, <1>11, <1>12, <1>15, <1>16, <1>19, <1>20 DEF Matched
-----------------------------------------------------------------------------
(***************************************************************************)
(* Every handler keeps one owner per descriptor and closes only what is    *)
(* open.                                                                   *)
(***************************************************************************)

Kept == Typed /\ Single

Owners ==
    Owned({ctl} \ {0}, {listener} \ {0}, incoming, FdsOf(pending), Elements(work),
          DirectOf(starting), WorkOf(starting), RelayDirect, RelayWork, open)

LEMMA KeptSame ==
    ASSUME Kept, UNCHANGED <<ctl, listener, incoming, pending, work, starting, relays, open>>
    PROVE  Kept'
BY DEF Kept, Typed, Single, OneRelay, RelayDirect, RelayWork, OpenRelays

\* The arrays of the streams are as they were.
LEMMA StreamsSame ==
    ASSUME Kept, UNCHANGED <<pending, work, starting, relays>>
    PROVE  /\ OneFd(pending') /\ Distinct(work') /\ OneStart(starting') /\ OneRelay'
           /\ pending' \in Seq(PendingStreams) /\ work' \in Seq(Fds) /\ Len(work') <= MAX_STREAMS
           /\ starting' \subseteq StartingStreams /\ IsFiniteSet(starting')
           /\ Cardinality(starting') <= MAX_PENDING
           /\ relays' \in [Slots -> [direct : Fds, work : Fds] \cup {Free}]
           /\ FdsOf(pending') = FdsOf(pending) /\ Elements(work') = Elements(work)
           /\ DirectOf(starting') = DirectOf(starting) /\ WorkOf(starting') = WorkOf(starting)
           /\ RelayDirect' = RelayDirect /\ RelayWork' = RelayWork
BY DEF Kept, Typed, Single, OneRelay, RelayDirect, RelayWork, OpenRelays

LEMMA RelaysSame ==
    ASSUME UNCHANGED relays
    PROVE  RelayDirect' = RelayDirect /\ RelayWork' = RelayWork /\ (OneRelay => OneRelay')
BY DEF OneRelay, RelayDirect, RelayWork, OpenRelays

LEMMA AcceptControlKept ==
    ASSUME Kept, AcceptControl
    PROVE  Kept' /\ misclosed' = FALSE
<1>1. open # Fds /\ UNCHANGED <<ctl, listener, pending, work, starting, relays>>
  BY DEF AcceptControl
<1>2. CASE UNCHANGED incoming /\ NoneClosed
  <2>1. open' = open /\ misclosed' = FALSE
    BY <1>2 DEF NoneClosed
  <2> QED BY <1>1, <1>2, <2>1, KeptSame
<1>3. CASE incoming' = incoming \cup {NewFd} /\ CloseAll({NewFd}, {})
  <2>1. NewFd \in Fds /\ NewFd \notin open
    BY <1>1, NewFdFree DEF Kept, Typed
  <2>2. open' = open \cup {NewFd} /\ misclosed' = FALSE
    BY <1>3 DEF CloseAll
  <2>3. Owners'
    <3>1. Owners
      BY DEF Kept, Single, Owners
    <3> QED BY <1>1, <1>3, <2>1, <2>2, <3>1, StreamsSame DEF Owners, Owned
  <2>4. incoming' \subseteq Fds /\ open' \subseteq Fds /\ ctl' \in 0..MaxFd /\ listener' \in 0..MaxFd
    BY <1>1, <1>3, <2>1, <2>2 DEF Kept, Typed
  <2> QED BY <1>1, <2>2, <2>3, <2>4, StreamsSame DEF Kept, Typed, Single, Owners
<1> QED BY <1>2, <1>3 DEF AcceptControl

LEMMA ServiceRegisteredKept ==
    ASSUME Kept, ServiceRegistered
    PROVE  Kept' /\ misclosed' = FALSE
<1>1. /\ listener = 0 /\ open # Fds /\ listener' = NewFd /\ CloseAll({NewFd}, {})
      /\ UNCHANGED <<ctl, incoming, pending, work, starting, relays>>
  BY DEF ServiceRegistered
<1>2. NewFd \in Fds /\ NewFd \notin open /\ NewFd \in 0..MaxFd /\ NewFd # 0
  <2>1. NewFd \in Fds /\ NewFd \notin open
    BY <1>1, NewFdFree DEF Kept, Typed
  <2> QED BY <2>1, Limited DEF Fds
<1>3. open' = open \cup {NewFd} /\ misclosed' = FALSE
  BY <1>1 DEF CloseAll
<1>4. Owners'
  <2>1. Owners
    BY DEF Kept, Single, Owners
  <2>2. {listener} \ {0} = {} /\ ({listener} \ {0})' = {NewFd} /\ ({ctl} \ {0})' = {ctl} \ {0}
    BY <1>1, <1>2
  <2> QED BY <1>1, <1>2, <1>3, <2>1, <2>2, StreamsSame DEF Owners, Owned
<1>5. incoming' \subseteq Fds /\ open' \subseteq Fds /\ ctl' \in 0..MaxFd /\ listener' \in 0..MaxFd
  BY <1>1, <1>2, <1>3 DEF Kept, Typed
<1> QED BY <1>1, <1>3, <1>4, <1>5, StreamsSame DEF Kept, Typed, Single, Owners

LEMMA IncomingRejectedKept ==
    ASSUME Kept, NEW g \in Fds, IncomingRejected(g)
    PROVE  Kept' /\ misclosed' = FALSE
<1>1. /\ g \in incoming /\ incoming' = incoming \ {g} /\ CloseAll({}, {g})
      /\ UNCHANGED <<ctl, listener, pending, work, starting, relays>>
  BY DEF IncomingRejected
<1>2. Owners
  BY DEF Kept, Single, Owners
<1>3. g \in open
  BY <1>1, <1>2 DEF Owners, Owned
<1>4. open' = open \ {g} /\ misclosed' = FALSE
  BY <1>1, <1>3 DEF CloseAll
<1>5. Owners'
  BY <1>1, <1>2, <1>4, StreamsSame DEF Owners, Owned
<1>6. incoming' \subseteq Fds /\ open' \subseteq Fds /\ ctl' \in 0..MaxFd /\ listener' \in 0..MaxFd
  BY <1>1, <1>4 DEF Kept, Typed
<1> QED BY <1>1, <1>4, <1>5, <1>6, StreamsSame DEF Kept, Typed, Single, Owners

LEMMA IncomingAuthenticatedKept ==
    ASSUME Kept, NEW g \in Fds, IncomingAuthenticated(g)
    PROVE  Kept' /\ misclosed' = FALSE
<1>1. /\ g \in incoming /\ ctl = 0 /\ incoming' = incoming \ {g} /\ ctl' = g
      /\ open' = open /\ misclosed' = FALSE
      /\ UNCHANGED <<listener, pending, work, starting, relays>>
  BY DEF IncomingAuthenticated, NoneClosed, active
<1>2. Owners
  BY DEF Kept, Single, Owners
<1>3. g # 0 /\ g \in 0..MaxFd
  BY Limited DEF Fds
<1>4. {ctl} \ {0} = {} /\ ({ctl} \ {0})' = {g} /\ ({listener} \ {0})' = {listener} \ {0}
  BY <1>1, <1>3
<1>5. Owners'
  BY <1>1, <1>2, <1>4, StreamsSame DEF Owners, Owned
<1>6. incoming' \subseteq Fds /\ open' \subseteq Fds /\ ctl' \in 0..MaxFd /\ listener' \in 0..MaxFd
  BY <1>1, <1>3 DEF Kept, Typed
<1> QED BY <1>1, <1>5, <1>6, StreamsSame DEF Kept, Typed, Single, Owners

LEMMA StartingDropped ==
    ASSUME Kept, NEW s \in starting, starting' = starting \ {s},
           open' = open \ {s.direct, s.work},
           UNCHANGED <<ctl, listener, incoming, pending, work, relays>>
    PROVE  Kept' /\ s.direct \in open /\ s.work \in open
<1>1. /\ \A f : f \in DirectOf(starting') <=> f \in DirectOf(starting) /\ f # s.direct
      /\ \A f : f \in WorkOf(starting') <=> f \in WorkOf(starting) /\ f # s.work
      /\ OneStart(starting') /\ s.direct \in DirectOf(starting) /\ s.work \in WorkOf(starting)
  BY DEF Kept, Single, OneStart, DirectOf, WorkOf
<1>2. Owners
  BY DEF Kept, Single, Owners
<1>3. s.direct \in open /\ s.work \in open
  BY <1>1, <1>2 DEF Owners, Owned
<1>4. Owners'
  BY <1>1, <1>2, RelaysSame DEF Owners, Owned
<1>5. IsFiniteSet(starting') /\ Cardinality(starting') <= MAX_PENDING
  <2>1. IsFiniteSet(starting) /\ Cardinality(starting) <= MAX_PENDING /\ starting \ {s} \in SUBSET starting
    BY DEF Kept, Typed
  <2>2. /\ IsFiniteSet(starting \ {s}) /\ Cardinality(starting \ {s}) <= Cardinality(starting)
        /\ Cardinality(starting) \in Nat /\ Cardinality(starting \ {s}) \in Nat
    BY <2>1, FS_Subset, FS_CardinalityType
  <2> QED BY <2>1, <2>2, Limited
<1>6. Typed'
  BY <1>5 DEF Kept, Typed
<1> QED BY <1>1, <1>3, <1>4, <1>6, RelaysSame DEF Kept, Single, Owners

LEMMA StartingFailsKept ==
    ASSUME Kept, NEW g \in Fds, StartingFails(g)
    PROVE  Kept' /\ misclosed' = FALSE
<1>1. PICK s \in starting : starting' = starting \ {s} /\ CloseAll({}, Dropped({s}))
  BY DEF StartingFails
<1>2. Dropped({s}) = {s.direct, s.work}
  BY DEF Dropped
<1>3. open' = open \ {s.direct, s.work} /\ misclosed' = ~({s.direct, s.work} \subseteq open)
  BY <1>1, <1>2 DEF CloseAll
<1>4. Kept' /\ s.direct \in open /\ s.work \in open
  BY <1>1, <1>3, StartingDropped DEF StartingFails
<1> QED BY <1>3, <1>4

LEMMA StartingInitFailsKept ==
    ASSUME Kept, NEW g \in Fds, StartingInitFails(g)
    PROVE  Kept'
BY StartingDropped DEF StartingInitFails

\* The slots of the relays after slot j took the value v.
LEMMA SlotSet ==
    ASSUME Kept, NEW j \in Slots, NEW v \in [direct : Fds, work : Fds] \cup {Free},
           relays' = [relays EXCEPT ![j] = v]
    PROVE  /\ relays' \in [Slots -> [direct : Fds, work : Fds] \cup {Free}]
           /\ relays'[j] = v /\ \A i \in Slots : i # j => relays'[i] = relays[i]
           /\ \A i \in Slots : i # j => (i \in OpenRelays' <=> i \in OpenRelays)
           /\ j \in OpenRelays' <=> v # Free
           /\ OpenRelays \subseteq Slots /\ OpenRelays' \subseteq Slots
<1>1. relays \in [Slots -> [direct : Fds, work : Fds] \cup {Free}]
  BY DEF Kept, Typed
<1>2. /\ relays' \in [Slots -> [direct : Fds, work : Fds] \cup {Free}]
      /\ relays'[j] = v /\ \A i \in Slots : i # j => relays'[i] = relays[i]
  BY <1>1
<1>3. OpenRelays = {i \in Slots : relays[i] # Free} /\ OpenRelays' = {i \in Slots : relays'[i] # Free}
  BY DEF OpenRelays
<1> QED BY <1>2, <1>3

LEMMA RelayClosesKept ==
    ASSUME Kept, NEW side, NEW j \in Slots, RelayCloses(side, j)
    PROVE  Kept' /\ misclosed' = FALSE
<1>1. /\ j \in OpenRelays /\ relays' = [relays EXCEPT ![j] = Free]
      /\ CloseAll({}, {relays[j].direct, relays[j].work})
      /\ UNCHANGED <<ctl, listener, incoming, pending, work, starting>>
  BY DEF RelayCloses
<1>2. /\ relays' \in [Slots -> [direct : Fds, work : Fds] \cup {Free}]
      /\ \A i \in OpenRelays' : i \in OpenRelays /\ i # j /\ relays'[i] = relays[i]
      /\ \A i \in OpenRelays : i # j => i \in OpenRelays' /\ relays'[i] = relays[i]
  <2>1. Free \in [direct : Fds, work : Fds] \cup {Free}
    OBVIOUS
  <2> QED BY <1>1, <2>1, SlotSet
<1>3. OneRelay
  BY DEF Kept, Single
<1>4. OneRelay'
  BY <1>2, <1>3 DEF OneRelay
<1>5. /\ \A f : f \in RelayDirect' <=> f \in RelayDirect /\ f # relays[j].direct
      /\ \A f : f \in RelayWork' <=> f \in RelayWork /\ f # relays[j].work
      /\ relays[j].direct \in RelayDirect /\ relays[j].work \in RelayWork
  <2>1. \A i \in OpenRelays : i # j => relays[i].direct # relays[j].direct /\ relays[i].work # relays[j].work
    BY <1>1, <1>3 DEF OneRelay
  <2>2. /\ \A f : f \in RelayDirect' <=> \E i \in OpenRelays' : f = relays'[i].direct
        /\ \A f : f \in RelayWork' <=> \E i \in OpenRelays' : f = relays'[i].work
        /\ \A f : f \in RelayDirect <=> \E i \in OpenRelays : f = relays[i].direct
        /\ \A f : f \in RelayWork <=> \E i \in OpenRelays : f = relays[i].work
    BY DEF RelayDirect, RelayWork
  <2> QED BY <1>1, <1>2, <2>1, <2>2
<1>6. Owners
  BY DEF Kept, Single, Owners
<1>7. relays[j].direct \in open /\ relays[j].work \in open
  BY <1>5, <1>6 DEF Owners, Owned
<1>8. open' = open \ {relays[j].direct, relays[j].work} /\ misclosed' = FALSE
  BY <1>1, <1>7 DEF CloseAll
<1>9. Owners'
  BY <1>1, <1>5, <1>6, <1>8 DEF Owners, Owned
<1>10. Typed'
  BY <1>1, <1>2, <1>8 DEF Kept, Typed
<1> QED BY <1>1, <1>4, <1>8, <1>9, <1>10 DEF Kept, Single, Owners

LEMMA StartingReadyKept ==
    ASSUME Kept, NEW g \in Fds, StartingReady(g)
    PROVE  Kept' /\ misclosed' = FALSE
<1>1. PICK s \in starting, j \in Slots \ OpenRelays :
        /\ relays' = [relays EXCEPT ![j] = [direct |-> s.direct, work |-> s.work]]
        /\ starting' = starting \ {s}
  BY DEF StartingReady
<1>2. /\ open' = open /\ misclosed' = FALSE
      /\ UNCHANGED <<ctl, listener, incoming, pending, work>>
  BY DEF StartingReady, NoneClosed
<1> DEFINE v == [direct |-> s.direct, work |-> s.work]
<1>3. /\ v \in [direct : Fds, work : Fds] /\ v.direct = s.direct /\ v.work = s.work /\ v # Free
  <2>1. s.direct \in Fds /\ s.work \in Fds /\ s.direct # 0
    <3>1. s.direct \in Fds /\ s.work \in Fds
      BY DEF Kept, Typed, StartingStreams
    <3> QED BY <3>1, Limited DEF Fds
  <2>2. v.direct # Free.direct
    BY <2>1 DEF Free
  <2> QED BY <2>1, <2>2
<1> HIDE DEF v
<1>4. /\ relays' \in [Slots -> [direct : Fds, work : Fds] \cup {Free}]
      /\ relays'[j] = v /\ j \in OpenRelays' /\ j \notin OpenRelays
      /\ \A i \in OpenRelays' : i # j => i \in OpenRelays /\ relays'[i] = relays[i]
      /\ \A i \in OpenRelays : i \in OpenRelays' /\ relays'[i] = relays[i]
  <2>1. relays' = [relays EXCEPT ![j] = v] /\ v \in [direct : Fds, work : Fds] \cup {Free}
    BY <1>1, <1>3 DEF v
  <2> QED BY <1>1, <1>3, <2>1, SlotSet
<1>5. /\ \A f : f \in RelayDirect' <=> f \in RelayDirect \/ f = s.direct
      /\ \A f : f \in RelayWork' <=> f \in RelayWork \/ f = s.work
  <2>1. /\ \A f : f \in RelayDirect' <=> \E i \in OpenRelays' : f = relays'[i].direct
        /\ \A f : f \in RelayWork' <=> \E i \in OpenRelays' : f = relays'[i].work
        /\ \A f : f \in RelayDirect <=> \E i \in OpenRelays : f = relays[i].direct
        /\ \A f : f \in RelayWork <=> \E i \in OpenRelays : f = relays[i].work
    BY DEF RelayDirect, RelayWork
  <2> QED BY <1>3, <1>4, <2>1
<1>6. /\ \A f : f \in DirectOf(starting') <=> f \in DirectOf(starting) /\ f # s.direct
      /\ \A f : f \in WorkOf(starting') <=> f \in WorkOf(starting) /\ f # s.work
      /\ OneStart(starting') /\ s.direct \in DirectOf(starting) /\ s.work \in WorkOf(starting)
  BY <1>1 DEF Kept, Single, OneStart, DirectOf, WorkOf
<1>7. Owners
  BY DEF Kept, Single, Owners
<1>8. Owners'
  BY <1>2, <1>5, <1>6, <1>7 DEF Owners, Owned
<1>9. OneRelay'
  <2>1. s.direct \notin RelayDirect /\ s.work \notin RelayWork
    BY <1>6, <1>7 DEF Owners, Owned
  <2>2. \A i \in OpenRelays : relays[i].direct # s.direct /\ relays[i].work # s.work
    BY <2>1 DEF RelayDirect, RelayWork
  <2>3. OneRelay
    BY DEF Kept, Single
  <2> QED BY <1>3, <1>4, <2>2, <2>3 DEF OneRelay
<1>10. IsFiniteSet(starting') /\ Cardinality(starting') <= MAX_PENDING
  <2>1. IsFiniteSet(starting) /\ Cardinality(starting) <= MAX_PENDING /\ starting \ {s} \in SUBSET starting
    BY DEF Kept, Typed
  <2>2. /\ IsFiniteSet(starting \ {s}) /\ Cardinality(starting \ {s}) <= Cardinality(starting)
        /\ Cardinality(starting) \in Nat /\ Cardinality(starting \ {s}) \in Nat
    BY <2>1, FS_Subset, FS_CardinalityType
  <2> QED BY <1>1, <2>1, <2>2, Limited
<1>11. Typed'
  BY <1>1, <1>2, <1>4, <1>10 DEF Kept, Typed
<1> QED BY <1>2, <1>6, <1>8, <1>9, <1>11 DEF Kept, Single, Owners

LEMMA TickKept ==
    ASSUME Kept, Tick
    PROVE  Kept' /\ misclosed' = FALSE
<1>1. /\ pending' = [i \in DOMAIN pending |-> [pending[i] EXCEPT !.left = Older(@)]]
      /\ starting' = {[s EXCEPT !.left = Older(@)] : s \in starting}
      /\ open' = open /\ misclosed' = FALSE
      /\ UNCHANGED <<ctl, listener, incoming, work, relays>>
  BY DEF Tick, NoneClosed
<1>2. /\ pending \in Seq(PendingStreams) /\ starting \subseteq StartingStreams
      /\ IsFiniteSet(starting) /\ Cardinality(starting) <= MAX_PENDING
      /\ OneFd(pending) /\ OneStart(starting)
  BY DEF Kept, Typed, Single
<1>3. \A x \in Int : Older(x) \in Int
  BY DEF Older
<1>4. /\ DOMAIN pending = 1..Len(pending) /\ Len(pending) \in Nat
      /\ \A i \in DOMAIN pending : pending[i] \in PendingStreams
  BY <1>2, LenProperties, ElementOfSeq
<1>5. /\ DOMAIN pending' = DOMAIN pending
      /\ \A i \in DOMAIN pending : pending'[i].fd = pending[i].fd /\ pending'[i] \in PendingStreams
  BY <1>1, <1>3, <1>4 DEF PendingStreams
<1>6. pending' \in Seq(PendingStreams)
  <2>1. pending' \in [1..Len(pending) -> PendingStreams]
    BY <1>1, <1>4, <1>5
  <2> QED BY <1>4, <2>1
<1>7. OneFd(pending') /\ FdsOf(pending') = FdsOf(pending)
  BY <1>2, <1>5 DEF OneFd, FdsOf
<1>8. \A s \in starting : /\ [s EXCEPT !.left = Older(@)] \in StartingStreams
                          /\ [s EXCEPT !.left = Older(@)].direct = s.direct
                          /\ [s EXCEPT !.left = Older(@)].work = s.work
  BY <1>2, <1>3 DEF StartingStreams
<1> DEFINE f == [s \in starting |-> [s EXCEPT !.left = Older(@)]]
<1>9. starting' = {f[s] : s \in starting}
  BY <1>1
<1>10. \A s \in starting : f[s] \in StartingStreams /\ f[s].direct = s.direct /\ f[s].work = s.work
  BY <1>8
<1>11. f = [s \in starting |-> f[s]]
  OBVIOUS
<1> HIDE DEF f
<1>12. IsFiniteSet(starting') /\ Cardinality(starting') <= MAX_PENDING
  <2>1. PICK T : T = {f[s] : s \in starting}
    OBVIOUS
  <2>2. IsFiniteSet(T) /\ Cardinality(T) <= Cardinality(starting)
    BY <1>2, <1>11, <2>1, ImageBound
  <2>3. Cardinality(T) \in Nat /\ Cardinality(starting) \in Nat
    BY <1>2, <2>2, FS_CardinalityType
  <2> QED BY <1>2, <1>9, <2>1, <2>2, <2>3, Limited
<1>13. /\ starting' \subseteq StartingStreams /\ OneStart(starting')
       /\ \A x : x \in DirectOf(starting') <=> x \in DirectOf(starting)
       /\ \A x : x \in WorkOf(starting') <=> x \in WorkOf(starting)
  <2>1. starting' \subseteq StartingStreams
    BY <1>9, <1>10
  <2>2. \A t \in starting' : \E s \in starting : t = f[s] /\ t.direct = s.direct /\ t.work = s.work
    BY <1>9, <1>10
  <2>3. \A s \in starting : f[s] \in starting' /\ f[s].direct = s.direct /\ f[s].work = s.work
    BY <1>9, <1>10
  <2>4. OneStart(starting')
    BY <1>2, <2>2 DEF OneStart
  <2>5. \A x : x \in DirectOf(starting') <=> x \in DirectOf(starting)
    BY <2>2, <2>3 DEF DirectOf
  <2>6. \A x : x \in WorkOf(starting') <=> x \in WorkOf(starting)
    BY <2>2, <2>3 DEF WorkOf
  <2> QED BY <2>1, <2>4, <2>5, <2>6
<1>14. Owners
  BY DEF Kept, Single, Owners
<1>15. Owners'
  BY <1>1, <1>7, <1>13, <1>14, RelaysSame DEF Owners, Owned
<1>16. Typed'
  BY <1>1, <1>6, <1>12, <1>13 DEF Kept, Typed
<1> QED BY <1>1, <1>7, <1>13, <1>15, <1>16, RelaysSame DEF Kept, Single, Owners

\* What Append adds.
LEMMA AppendFds ==
    ASSUME NEW p \in Seq(PendingStreams), NEW x \in PendingStreams
    PROVE  /\ Append(p, x) \in Seq(PendingStreams) /\ Len(Append(p, x)) = Len(p) + 1
           /\ \A f : f \in FdsOf(Append(p, x)) <=> f \in FdsOf(p) \/ f = x.fd
           /\ OneFd(p) /\ x.fd \notin FdsOf(p) => OneFd(Append(p, x))
<1>1. PICK r : r = Append(p, x)
  OBVIOUS
<1>2. /\ r \in Seq(PendingStreams) /\ Len(r) = Len(p) + 1 /\ Len(p) \in Nat
      /\ \A i \in 1..Len(p) : r[i] = p[i]
      /\ r[Len(p) + 1] = x
  BY <1>1, AppendProperties
<1>3. DOMAIN p = 1..Len(p) /\ DOMAIN r = 1..(Len(p) + 1)
  BY <1>2, LenProperties
<1>4. \A i \in 1..(Len(p) + 1) : i \in 1..Len(p) \/ i = Len(p) + 1
  BY <1>2
<1>5. /\ \A i \in 1..Len(p) : i \in 1..(Len(p) + 1)
      /\ Len(p) + 1 \in 1..(Len(p) + 1)
  BY <1>2
<1>6. \A f : f \in FdsOf(r) <=> f \in FdsOf(p) \/ f = x.fd
  BY <1>2, <1>3, <1>4, <1>5 DEF FdsOf
<1>7. ASSUME OneFd(p), x.fd \notin FdsOf(p) PROVE OneFd(r)
  <2>1. \A k \in 1..Len(p) : p[k].fd # x.fd
    BY <1>3, <1>7 DEF FdsOf
  <2> QED BY <1>2, <1>3, <1>4, <1>7, <2>1 DEF OneFd
<1> QED BY <1>1, <1>2, <1>6, <1>7

LEMMA AppendElements ==
    ASSUME NEW q \in Seq(Fds), NEW x \in Fds
    PROVE  /\ Append(q, x) \in Seq(Fds) /\ Len(Append(q, x)) = Len(q) + 1 /\ Len(q) \in Nat
           /\ \A f : f \in Elements(Append(q, x)) <=> f \in Elements(q) \/ f = x
           /\ Distinct(q) /\ x \notin Elements(q) => Distinct(Append(q, x))
<1>1. PICK r : r = Append(q, x)
  OBVIOUS
<1>2. /\ r \in Seq(Fds) /\ Len(r) = Len(q) + 1 /\ Len(q) \in Nat
      /\ \A i \in 1..Len(q) : r[i] = q[i]
      /\ r[Len(q) + 1] = x
  BY <1>1, AppendProperties
<1>3. DOMAIN q = 1..Len(q) /\ DOMAIN r = 1..(Len(q) + 1)
  BY <1>2, LenProperties
<1>4. \A i \in 1..(Len(q) + 1) : i \in 1..Len(q) \/ i = Len(q) + 1
  BY <1>2
<1>5. /\ \A i \in 1..Len(q) : i \in 1..(Len(q) + 1)
      /\ Len(q) + 1 \in 1..(Len(q) + 1)
  BY <1>2
<1>6. \A f : f \in Elements(r) <=> f \in Elements(q) \/ f = x
  BY <1>2, <1>3, <1>4, <1>5 DEF Elements
<1>7. ASSUME Distinct(q), x \notin Elements(q) PROVE Distinct(r)
  <2>1. \A k \in 1..Len(q) : q[k] # x
    BY <1>3, <1>7 DEF Elements
  <2> QED BY <1>2, <1>3, <1>4, <1>7, <2>1 DEF Distinct
<1> QED BY <1>1, <1>2, <1>6, <1>7

\* What match_pending leaves: no pair, or starting[] is full.
Paired == pending = <<>> \/ work = <<>> \/ Cardinality(starting) >= MAX_PENDING

LEMMA IncomingBindKept ==
    ASSUME Kept, NEW g \in Fds, IncomingBind(g)
    PROVE  Kept' /\ misclosed' = FALSE /\ (UNCHANGED <<pending, work, starting>> \/ Paired')
<1>1. /\ g \in incoming /\ incoming' = incoming \ {g} /\ UNCHANGED <<ctl, listener, relays>>
  BY DEF IncomingBind
<1>2. Owners /\ Typed /\ OneFd(pending) /\ Distinct(work) /\ OneStart(starting) /\ OneRelay
  BY DEF Kept, Single, Owners
<1>3. g \in open /\ g \notin Elements(work) /\ g \notin WorkOf(starting)
  BY <1>1, <1>2 DEF Owners, Owned
<1>4. CASE Len(work) = MAX_STREAMS
  <2>1. CloseAll({}, {g}) /\ UNCHANGED <<pending, work, starting>>
    BY <1>4 DEF IncomingBind
  <2>2. open' = open \ {g} /\ misclosed' = FALSE
    BY <1>3, <2>1 DEF CloseAll
  <2>3. Owners'
    BY <1>1, <1>2, <2>1, <2>2, StreamsSame DEF Owners, Owned
  <2>4. incoming' \subseteq Fds /\ open' \subseteq Fds /\ ctl' \in 0..MaxFd /\ listener' \in 0..MaxFd
    BY <1>1, <2>2 DEF Kept, Typed
  <2> QED BY <1>1, <2>1, <2>2, <2>3, <2>4, StreamsSame DEF Kept, Typed, Single, Owners
<1>5. CASE Len(work) # MAX_STREAMS
  <2>1. PICK w : w = Append(work, g)
    OBVIOUS
  <2>2. match_pending(pending, w, {})
    BY <1>5, <2>1 DEF IncomingBind
  <2>3. /\ w \in Seq(Fds) /\ Len(w) = Len(work) + 1 /\ Len(work) \in Nat
        /\ \A f : f \in Elements(w) <=> f \in Elements(work) \/ f = g
        /\ Distinct(w)
    BY <1>2, <1>3, <2>1, AppendElements DEF Typed
  <2>4. /\ \A f \in FdsOf(pending) : f \notin DirectOf(starting)
        /\ \A f \in Elements(w) : f \notin WorkOf(starting)
    BY <1>2, <1>3, <2>3 DEF Owners, Owned
  <2>5. /\ pending \in Seq(PendingStreams) /\ starting \subseteq StartingStreams
        /\ IsFiniteSet(starting) /\ Cardinality(starting) <= MAX_PENDING
    BY <1>2 DEF Typed
  <2>6. PICK A, X, B, Y : Matched(pending, w, {}, A, X, B, Y)
    BY <1>2, <2>2, <2>3, <2>4, <2>5, Matches
  <2>7. \A f \in X \cup Y : f \in open
    BY <1>2, <1>3, <2>3, <2>6 DEF Matched, Owners, Owned
  <2>8. open' = open \ (X \cup Y) /\ misclosed' = FALSE
    BY <2>6, <2>7 DEF Matched, CloseAll
  <2>9. /\ \A f : f \in FdsOf(pending') <=> f \in FdsOf(pending) /\ f \notin A /\ f \notin X
        /\ \A f : (f \in A => f \in FdsOf(pending) /\ f \notin X) /\ (f \in X => f \in FdsOf(pending))
        /\ \A f : f \in Elements(work') <=> (f \in Elements(work) \/ f = g) /\ f \notin B /\ f \notin Y
        /\ \A f : /\ f \in B => (f \in Elements(work) \/ f = g) /\ f \notin Y
                  /\ f \in Y => f \in Elements(work) \/ f = g
        /\ \A f : f \in DirectOf(starting') <=> f \in DirectOf(starting) \/ f \in A
        /\ \A f : f \in WorkOf(starting') <=> f \in WorkOf(starting) \/ f \in B
    BY <2>3, <2>6 DEF Matched
  <2>10. Owners'
    BY <1>1, <1>2, <1>3, <2>8, <2>9, RelaysSame DEF Owners, Owned
  <2>11. Len(work') <= MAX_STREAMS
    <3>1. /\ work' \in Seq(Fds) /\ Len(work') <= Len(w) /\ Len(work) <= MAX_STREAMS
      BY <1>2, <2>6 DEF Matched, Typed
    <3>2. Len(work') \in Nat
      BY <3>1, LenProperties
    <3> QED BY <1>5, <2>3, <3>1, <3>2, Limited
  <2>12. Typed'
    BY <1>1, <1>2, <2>6, <2>8, <2>11 DEF Matched, Typed
  <2>13. Paired'
    BY <2>6, EmptySeq DEF Matched, Paired
  <2> QED BY <1>1, <1>2, <2>6, <2>8, <2>10, <2>12, <2>13, RelaysSame DEF Matched, Kept, Single, Owners
<1> QED BY <1>4, <1>5

LEMMA ServiceAcceptKept ==
    ASSUME Kept, lag \in Nat, ServiceAccept
    PROVE  Kept' /\ misclosed' = FALSE /\ (UNCHANGED <<pending, work, starting>> \/ Paired')
<1>1. /\ open # Fds /\ UNCHANGED <<ctl, listener, incoming, relays>>
  BY DEF ServiceAccept
<1>2. CASE UNCHANGED <<pending, work, starting>> /\ NoneClosed
  <2>1. open' = open /\ misclosed' = FALSE
    BY <1>2 DEF NoneClosed
  <2> QED BY <1>1, <1>2, <2>1, KeptSame
<1>3. CASE match_pending(Append(pending, [fd |-> NewFd, left |-> Timeout - lag]), work, {NewFd})
  <2>1. Owners /\ Typed /\ OneFd(pending) /\ Distinct(work) /\ OneStart(starting) /\ OneRelay
    BY DEF Kept, Single, Owners
  <2>2. PICK g : g = NewFd
    OBVIOUS
  <2>3. g \in Fds /\ g \notin open
    BY <1>1, <2>1, <2>2, NewFdFree DEF Typed
  <2>4. PICK x : x = [fd |-> g, left |-> Timeout - lag]
    OBVIOUS
  <2>5. x \in PendingStreams /\ x.fd = g
    BY <2>3, <2>4, Limited DEF PendingStreams
  <2>6. PICK p : p = Append(pending, x)
    OBVIOUS
  <2>7. match_pending(p, work, {g})
    BY <1>3, <2>2, <2>4, <2>6
  <2>8. g \notin FdsOf(pending) /\ g \notin DirectOf(starting)
    BY <2>1, <2>3 DEF Owners, Owned
  <2>9. /\ p \in Seq(PendingStreams) /\ OneFd(p)
        /\ \A f : f \in FdsOf(p) <=> f \in FdsOf(pending) \/ f = g
    BY <2>1, <2>5, <2>6, <2>8, AppendFds DEF Typed
  <2>10. /\ \A f \in FdsOf(p) : f \notin DirectOf(starting)
         /\ \A f \in Elements(work) : f \notin WorkOf(starting)
    BY <2>1, <2>8, <2>9 DEF Owners, Owned
  <2>11. /\ work \in Seq(Fds) /\ starting \subseteq StartingStreams
         /\ IsFiniteSet(starting) /\ Cardinality(starting) <= MAX_PENDING
    BY <2>1 DEF Typed
  <2>12. PICK A, X, B, Y : Matched(p, work, {g}, A, X, B, Y)
    BY <2>1, <2>7, <2>9, <2>10, <2>11, Matches
  <2>13. \A f \in X \cup Y : f \in open \cup {g}
    BY <2>1, <2>9, <2>12 DEF Matched, Owners, Owned
  <2>14. open' = (open \cup {g}) \ (X \cup Y) /\ misclosed' = FALSE
    BY <2>12, <2>13 DEF Matched, CloseAll
  <2>15. /\ \A f : f \in FdsOf(pending') <=> (f \in FdsOf(pending) \/ f = g) /\ f \notin A /\ f \notin X
         /\ \A f : /\ f \in A => (f \in FdsOf(pending) \/ f = g) /\ f \notin X
                   /\ f \in X => f \in FdsOf(pending) \/ f = g
         /\ \A f : f \in Elements(work') <=> f \in Elements(work) /\ f \notin B /\ f \notin Y
         /\ \A f : (f \in B => f \in Elements(work) /\ f \notin Y) /\ (f \in Y => f \in Elements(work))
         /\ \A f : f \in DirectOf(starting') <=> f \in DirectOf(starting) \/ f \in A
         /\ \A f : f \in WorkOf(starting') <=> f \in WorkOf(starting) \/ f \in B
    BY <2>9, <2>12 DEF Matched
  <2>16. Owners'
    BY <1>1, <2>1, <2>3, <2>14, <2>15, RelaysSame DEF Owners, Owned
  <2>17. Len(work') <= MAX_STREAMS
    <3>1. /\ work' \in Seq(Fds) /\ Len(work') <= Len(work) /\ Len(work) <= MAX_STREAMS
      BY <2>1, <2>12 DEF Matched, Typed
    <3>2. Len(work') \in Nat /\ Len(work) \in Nat
      BY <2>11, <3>1, LenProperties
    <3> QED BY <3>1, <3>2, Limited
  <2>18. Typed'
    BY <1>1, <2>1, <2>3, <2>12, <2>14, <2>17 DEF Matched, Typed
  <2>19. Paired'
    BY <2>12, EmptySeq DEF Matched, Paired
  <2> QED BY <1>1, <2>1, <2>12, <2>14, <2>16, <2>18, <2>19, RelaysSame DEF Matched, Kept, Single, Owners
<1> QED BY <1>2, <1>3 DEF ServiceAccept

LEMMA PeerCloseKept ==
    ASSUME Kept, active, NEW late \in SUBSET incoming, peer_close(late), incoming' = incoming \ late
    PROVE  Kept' /\ misclosed' = FALSE
<1>1. /\ ctl' = 0 /\ listener' = 0 /\ pending' = <<>> /\ work' = <<>> /\ starting' = {}
      /\ relays' = [j \in Slots |-> Free] /\ CloseAll({}, late \cup Sockets)
  BY DEF peer_close
<1>2. Owners
  BY DEF Kept, Single, Owners
<1>3. ctl # 0
  BY DEF active
<1>4. \A f : f \in Sockets <=> \/ f \in {ctl} \ {0} \/ f \in {listener} \ {0} \/ f \in FdsOf(pending)
                               \/ f \in Elements(work) \/ f \in DirectOf(starting)
                               \/ f \in WorkOf(starting) \/ f \in RelayDirect \/ f \in RelayWork
  BY <1>3 DEF Sockets, Dropped, FdsOf, Elements, DirectOf, WorkOf, RelayDirect, RelayWork
<1>5. \A f : f \in late \cup Sockets => f \in open
  BY <1>2, <1>4 DEF Owners, Owned
<1>6. open' = open \ (late \cup Sockets) /\ misclosed' = FALSE
  BY <1>1, <1>5 DEF CloseAll
<1>7. \A f : f \in open' <=> f \in incoming'
  BY <1>2, <1>4, <1>6 DEF Owners, Owned
<1>8. OpenRelays' = {}
  BY <1>1 DEF OpenRelays
<1>9. RelayDirect' = {} /\ RelayWork' = {} /\ OneRelay'
  BY <1>8 DEF RelayDirect, RelayWork, OneRelay
<1>10. /\ FdsOf(pending') = {} /\ Elements(work') = {} /\ DirectOf(starting') = {}
       /\ WorkOf(starting') = {} /\ OneFd(pending') /\ Distinct(work') /\ OneStart(starting')
  BY <1>1 DEF FdsOf, Elements, DirectOf, WorkOf, OneFd, Distinct, OneStart
<1>11. ({ctl} \ {0})' = {} /\ ({listener} \ {0})' = {}
  BY <1>1
<1>12. Owners'
  BY <1>7, <1>9, <1>10, <1>11 DEF Owners, Owned
<1>13. Typed'
  <2>1. IsFiniteSet({}) /\ Cardinality({}) = 0
    BY FS_EmptySet
  <2>2. pending' \in Seq(PendingStreams) /\ work' \in Seq(Fds) /\ Len(work') <= MAX_STREAMS
    BY <1>1, Limited
  <2>3. relays' \in [Slots -> [direct : Fds, work : Fds] \cup {Free}]
    BY <1>1
  <2>4. ctl' \in 0..MaxFd /\ listener' \in 0..MaxFd
    BY <1>1, Limited
  <2>5. incoming' \subseteq Fds /\ open' \subseteq Fds
    BY <1>6 DEF Kept, Typed
  <2>6. starting' \subseteq StartingStreams /\ IsFiniteSet(starting') /\ Cardinality(starting') <= MAX_PENDING
    BY <1>1, <2>1, Limited
  <2> QED BY <2>2, <2>3, <2>4, <2>5, <2>6 DEF Typed
<1> QED BY <1>6, <1>9, <1>10, <1>12, <1>13 DEF Kept, Single, Owners

\* The expiry loops close what they remove.
LEMMA ExpireKept ==
    ASSUME Kept, NEW late \in SUBSET incoming, Expire(late)
    PROVE  Kept' /\ misclosed' = FALSE
<1> DEFINE gone == {pending[i].fd : i \in DOMAIN pending \ LivePending}
           dead == starting \ LiveStarting
<1>1. /\ incoming' = incoming \ late
      /\ pending' = SwapRemove(pending, LivePending)
      /\ starting' = LiveStarting
      /\ CloseAll({}, late \cup gone \cup Dropped(dead))
      /\ UNCHANGED <<ctl, listener, work, relays>>
  BY DEF Expire
<1>2. Owners /\ Typed /\ OneFd(pending) /\ Distinct(work) /\ OneStart(starting) /\ OneRelay
  BY DEF Kept, Single, Owners
<1>3. /\ pending \in Seq(PendingStreams) /\ DOMAIN pending = 1..Len(pending) /\ Len(pending) \in Nat
      /\ \A i \in DOMAIN pending : pending[i] \in PendingStreams
  BY <1>2, LenProperties, ElementOfSeq DEF Typed
<1>4. LivePending \in SUBSET (1..Len(pending))
  BY <1>3 DEF LivePending
<1>5. PICK c, keep : c = Cardinality(keep) /\ keep = LivePending
  OBVIOUS
<1>6. c \in Nat /\ \E f \in Bijection(1..c, keep) :
                     SwapRemove(pending, keep) = [j \in 1..c |-> pending[f[j]]]
  BY <1>3, <1>4, <1>5, Swapped
<1>7. PICK f \in Bijection(1..c, keep) : pending' = [j \in 1..c |-> pending[f[j]]]
  BY <1>1, <1>5, <1>6
<1>8. /\ \A j \in 1..c : f[j] \in keep /\ pending'[j] = pending[f[j]]
      /\ \A i, j \in 1..c : f[i] = f[j] => i = j
      /\ \A i \in keep : \E j \in 1..c : f[j] = i
      /\ DOMAIN pending' = 1..c
  BY <1>7 DEF Bijection, Injection, Surjection, IsInjective
<1>9. keep \subseteq DOMAIN pending
  BY <1>3, <1>4, <1>5
<1>10. pending' \in Seq(PendingStreams)
  <2>1. pending' \in [1..c -> PendingStreams]
    BY <1>3, <1>7, <1>8, <1>9
  <2> QED BY <1>6, <2>1
<1>11. OneFd(pending')
  BY <1>2, <1>8, <1>9 DEF OneFd
<1>12. \A x : x \in FdsOf(pending') <=> x \in FdsOf(pending) /\ x \notin gone
  <2>1. \A x : x \in gone <=> \E i \in DOMAIN pending : i \notin keep /\ x = pending[i].fd
    BY <1>5
  <2>2. \A x : x \in FdsOf(pending') <=> \E j \in 1..c : x = pending[f[j]].fd
    BY <1>8 DEF FdsOf
  <2>3. \A x : x \in FdsOf(pending) <=> \E i \in DOMAIN pending : x = pending[i].fd
    BY DEF FdsOf
  <2> HIDE DEF gone
  <2>4. ASSUME NEW x, x \in FdsOf(pending') PROVE x \in FdsOf(pending) /\ x \notin gone
    <3>1. PICK i \in keep : x = pending[i].fd
      BY <1>8, <2>2, <2>4
    <3> QED BY <1>2, <1>9, <2>1, <2>3, <3>1 DEF OneFd
  <2>5. ASSUME NEW x, x \in FdsOf(pending), x \notin gone PROVE x \in FdsOf(pending')
    <3>1. PICK i \in keep : x = pending[i].fd
      BY <2>1, <2>3, <2>5
    <3> QED BY <1>8, <2>2, <3>1
  <2> QED BY <2>4, <2>5
<1>13. gone \subseteq FdsOf(pending)
  BY DEF FdsOf
<1>14. /\ \A x : x \in DirectOf(starting') <=> x \in DirectOf(starting) /\ x \notin DirectOf(dead)
       /\ \A x : x \in WorkOf(starting') <=> x \in WorkOf(starting) /\ x \notin WorkOf(dead)
       /\ OneStart(starting') /\ starting' \in SUBSET starting
       /\ \A x : x \in Dropped(dead) <=> x \in DirectOf(dead) \/ x \in WorkOf(dead)
       /\ DirectOf(dead) \subseteq DirectOf(starting) /\ WorkOf(dead) \subseteq WorkOf(starting)
  <2>1. starting' \in SUBSET starting /\ dead = starting \ starting'
    BY <1>1 DEF LiveStarting
  <2> HIDE DEF dead
  <2> QED BY <1>2, <2>1 DEF DirectOf, WorkOf, OneStart, Dropped
<1> HIDE DEF gone, dead
<1>15. \A x \in late \cup gone \cup Dropped(dead) : x \in open
  BY <1>2, <1>13, <1>14 DEF Owners, Owned
<1>16. open' = open \ (late \cup gone \cup Dropped(dead)) /\ misclosed' = FALSE
  BY <1>1, <1>15 DEF CloseAll
<1>17. Owners'
  BY <1>1, <1>2, <1>12, <1>13, <1>14, <1>16, RelaysSame DEF Owners, Owned
<1>18. IsFiniteSet(starting') /\ Cardinality(starting') <= MAX_PENDING
  <2>1. IsFiniteSet(starting) /\ Cardinality(starting) <= MAX_PENDING
    BY <1>2 DEF Typed
  <2>2. /\ IsFiniteSet(starting') /\ Cardinality(starting') <= Cardinality(starting)
        /\ Cardinality(starting) \in Nat /\ Cardinality(starting') \in Nat
    BY <1>14, <2>1, FS_Subset, FS_CardinalityType
  <2> QED BY <2>1, <2>2, Limited
<1>19. Typed'
  BY <1>1, <1>2, <1>10, <1>14, <1>16, <1>18 DEF Typed
<1> QED BY <1>1, <1>2, <1>11, <1>14, <1>16, <1>17, <1>19, RelaysSame DEF Kept, Single, Owners

LEMMA InitKept == Init => Kept /\ Loop /\ pending = <<>>
<1> SUFFICES ASSUME Init PROVE Kept /\ Loop
  BY DEF Init
<1>1. /\ ctl = 0 /\ listener = 0 /\ incoming = {} /\ pending = <<>> /\ work = <<>>
      /\ starting = {} /\ relays = [j \in Slots |-> Free] /\ open = {}
  BY DEF Init
<1>2. OpenRelays = {}
  BY <1>1 DEF OpenRelays
<1>3. RelayDirect = {} /\ RelayWork = {} /\ OneRelay
  BY <1>2 DEF RelayDirect, RelayWork, OneRelay
<1>4. /\ FdsOf(pending) = {} /\ Elements(work) = {} /\ DirectOf(starting) = {}
      /\ WorkOf(starting) = {} /\ OneFd(pending) /\ Distinct(work) /\ OneStart(starting)
  BY <1>1 DEF FdsOf, Elements, DirectOf, WorkOf, OneFd, Distinct, OneStart
<1>5. Owners
  BY <1>1, <1>3, <1>4 DEF Owners, Owned
<1>6. Typed
  <2>1. IsFiniteSet({}) /\ Cardinality({}) = 0
    BY FS_EmptySet
  <2>2. pending \in Seq(PendingStreams) /\ work \in Seq(Fds) /\ Len(work) <= MAX_STREAMS
    BY <1>1, Limited
  <2>3. relays \in [Slots -> [direct : Fds, work : Fds] \cup {Free}]
    BY <1>1
  <2>4. ctl \in 0..MaxFd /\ listener \in 0..MaxFd
    BY <1>1, Limited
  <2>5. starting \subseteq StartingStreams /\ IsFiniteSet(starting) /\ Cardinality(starting) <= MAX_PENDING
    BY <1>1, <2>1, Limited
  <2> QED BY <1>1, <2>2, <2>3, <2>4, <2>5 DEF Typed
<1>7. Loop
  BY DEF Init, Loop
<1> QED BY <1>3, <1>4, <1>5, <1>6, <1>7 DEF Kept, Single, Owners

\* The loop's own variables.
LEMMA StepLoop ==
    ASSUME Loop, Next, misclosed' \in BOOLEAN
    PROVE  Loop'
<1>1. phase \in {"poll", "dispatch"} /\ lag \in Nat
  BY DEF Loop
<1>2. ASSUME NEW r, Take(r) PROVE phase' = phase /\ lag' = lag
  BY <1>2 DEF Take
<1>3. CASE Poll
  BY <1>3 DEF Poll, Loop
<1>4. CASE Tick
  BY <1>1, <1>4 DEF Tick, Loop
<1>5. CASE EndBatch
  BY <1>5 DEF EndBatch, Loop
<1>6. CASE \E r : Take(r)
  BY <1>1, <1>2, <1>6 DEF Loop
<1>7. Poll \/ Tick \/ EndBatch \/ \E r : Take(r)
  <2>1. ASSUME AcceptControl \/ ServiceRegistered \/ ControlLost \/ ServiceAccept PROVE \E r : Take(r)
    BY <2>1 DEF AcceptControl, ServiceRegistered, ControlLost, ServiceAccept
  <2>2. ASSUME NEW f \in Fds, IncomingBind(f) \/ IncomingRejected(f) \/ IncomingAuthenticated(f)
        PROVE  \E r : Take(r)
    BY <2>2 DEF IncomingBind, IncomingRejected, IncomingAuthenticated
  <2>3. ASSUME NEW f \in Fds, StartingReady(f) \/ StartingFails(f) \/ StartingInitFails(f)
        PROVE  \E r : Take(r)
    BY <2>3 DEF StartingReady, StartingFails, StartingInitFails
  <2>4. ASSUME NEW side, NEW j \in Slots, RelayCloses(side, j) PROVE \E r : Take(r)
    BY <2>4 DEF RelayCloses
  <2> QED BY <2>1, <2>2, <2>3, <2>4 DEF Next
<1> QED BY <1>3, <1>4, <1>5, <1>6, <1>7

\* An empty queue stays empty when it expires.
LEMMA ExpireEmpty ==
    ASSUME NEW late, Expire(late), pending = <<>>
    PROVE  pending' = <<>>
<1>1. LivePending = {}
  BY DEF LivePending
<1>2. Cardinality({}) = 0
  BY FS_EmptySet
<1>3. pending' = SwapRemove(pending, {})
  BY <1>1 DEF Expire
<1>4. PICK h : pending' = [j \in 1..0 |-> h[j]]
  <2> DEFINE kth(k)  == CHOOSE q \in {} : Cardinality({r \in {} : r >= q}) = k
             hole(j) == Cardinality({i \in 1..j : i \notin {}})
             h == [j \in 1..0 |-> IF j \in {} THEN pending[j] ELSE pending[kth(hole(j))]]
  <2>1. pending' = h
    BY <1>2, <1>3 DEF SwapRemove
  <2>2. h = [j \in 1..0 |-> h[j]]
    OBVIOUS
  <2> QED BY <2>1, <2>2
<1>5. 1..0 = {}
  OBVIOUS
<1> QED BY <1>4, <1>5

\* A pending stream and an idle work connection never wait together.
NoPair == pending = <<>> \/ work = <<>>

\* With StreamLimit at most MAX_PENDING, a full starting[] leaves no pending
\* stream.
LEMMA FullLeavesNone == Typed /\ Inv /\ Paired => NoIdlePair
<1> SUFFICES ASSUME StreamLimit <= MAX_PENDING, Typed, Inv, Paired PROVE NoPair
  BY DEF NoIdlePair, NoPair
<1>1. CASE Cardinality(starting) >= MAX_PENDING
  <2>1. /\ Len(pending) \in Nat /\ Cardinality(starting) \in Nat /\ Cardinality(OpenRelays) \in Nat
        /\ Len(pending) + Cardinality(starting) + Cardinality(OpenRelays) <= StreamLimit
    BY Counts DEF Inv, WithinLimits
  <2>2. Len(pending) = 0
    BY <1>1, <2>1, Limited
  <2> QED BY <2>2, EmptySeq DEF Typed, NoPair
<1> QED BY <1>1 DEF Paired, NoPair

\* What every step but the failure of ct_relay_init keeps.
LEMMA StepKept ==
    ASSUME Kept, Loop, Next
    PROVE  /\ Kept' /\ misclosed' \in BOOLEAN
           /\ misclosed' => \E f \in Fds : StartingInitFails(f)
           /\ NoPair => NoPair' \/ Paired'
<1> DEFINE Goal == /\ Kept' /\ misclosed' \in BOOLEAN
                   /\ misclosed' => \E f \in Fds : StartingInitFails(f)
                   /\ NoPair => NoPair' \/ Paired'
<1> SUFFICES Goal
  OBVIOUS
<1>1. ASSUME UNCHANGED <<pending, work>> PROVE NoPair => NoPair'
  BY <1>1 DEF NoPair
<1>2. CASE Poll
  <2>1. /\ UNCHANGED <<ctl, listener, incoming, pending, work, starting, relays, open>>
        /\ misclosed' = FALSE
    BY <1>2 DEF Poll, NoneClosed
  <2>2. Kept'
    BY <2>1, KeptSame
  <2> QED BY <1>1, <2>1, <2>2
<1>3. CASE Tick
  <2>1. Kept' /\ misclosed' = FALSE
    BY <1>3, TickKept
  <2>2. work' = work /\ pending' = [i \in DOMAIN pending |-> [pending[i] EXCEPT !.left = Older(@)]]
    BY <1>3 DEF Tick
  <2>3. NoPair => NoPair'
    BY <2>2 DEF NoPair
  <2> QED BY <2>1, <2>3
<1>4. CASE EndBatch
  <2>1. PICK late \in SUBSET incoming :
          Expire(late) \/ (active /\ peer_close(late) /\ incoming' = incoming \ late)
    BY <1>4 DEF EndBatch
  <2>2. CASE Expire(late)
    <3>1. Kept' /\ misclosed' = FALSE
      BY <2>2, ExpireKept
    <3>2. work' = work
      BY <2>2 DEF Expire
    <3>3. NoPair => NoPair'
      BY <2>2, <3>2, ExpireEmpty DEF NoPair
    <3> QED BY <3>1, <3>3
  <2>3. CASE active /\ peer_close(late) /\ incoming' = incoming \ late
    <3>1. Kept' /\ misclosed' = FALSE
      BY <2>3, PeerCloseKept
    <3>2. NoPair'
      BY <2>3 DEF peer_close, NoPair
    <3> QED BY <3>1, <3>2
  <2> QED BY <2>1, <2>2, <2>3
<1>5. CASE AcceptControl
  <2>1. Kept' /\ misclosed' = FALSE /\ UNCHANGED <<pending, work>>
    BY <1>5, AcceptControlKept DEF AcceptControl
  <2> QED BY <1>1, <2>1
<1>6. CASE ServiceRegistered
  <2>1. Kept' /\ misclosed' = FALSE /\ UNCHANGED <<pending, work>>
    BY <1>6, ServiceRegisteredKept DEF ServiceRegistered
  <2> QED BY <1>1, <2>1
<1>7. CASE ControlLost
  <2>1. active /\ peer_close({}) /\ incoming' = incoming \ {} /\ {} \in SUBSET incoming
    BY <1>7 DEF ControlLost
  <2>2. Kept' /\ misclosed' = FALSE
    BY <2>1, PeerCloseKept
  <2>3. NoPair'
    BY <2>1 DEF peer_close, NoPair
  <2> QED BY <2>2, <2>3
<1>8. CASE ServiceAccept
  <2>1. Kept' /\ misclosed' = FALSE /\ (UNCHANGED <<pending, work, starting>> \/ Paired')
    BY <1>8, ServiceAcceptKept DEF Loop
  <2> QED BY <1>1, <2>1
<1>9. ASSUME NEW f \in Fds, IncomingBind(f) PROVE Goal
  <2>1. Kept' /\ misclosed' = FALSE /\ (UNCHANGED <<pending, work, starting>> \/ Paired')
    BY <1>9, IncomingBindKept
  <2> QED BY <1>1, <2>1
<1>10. ASSUME NEW f \in Fds, IncomingRejected(f) PROVE Goal
  <2>1. Kept' /\ misclosed' = FALSE /\ UNCHANGED <<pending, work>>
    BY <1>10, IncomingRejectedKept DEF IncomingRejected
  <2> QED BY <1>1, <2>1
<1>11. ASSUME NEW f \in Fds, IncomingAuthenticated(f) PROVE Goal
  <2>1. Kept' /\ misclosed' = FALSE /\ UNCHANGED <<pending, work>>
    BY <1>11, IncomingAuthenticatedKept DEF IncomingAuthenticated
  <2> QED BY <1>1, <2>1
<1>12. ASSUME NEW f \in Fds, StartingReady(f) PROVE Goal
  <2>1. Kept' /\ misclosed' = FALSE /\ UNCHANGED <<pending, work>>
    BY <1>12, StartingReadyKept DEF StartingReady
  <2> QED BY <1>1, <2>1
<1>13. ASSUME NEW f \in Fds, StartingFails(f) PROVE Goal
  <2>1. Kept' /\ misclosed' = FALSE /\ UNCHANGED <<pending, work>>
    BY <1>13, StartingFailsKept DEF StartingFails
  <2> QED BY <1>1, <2>1
<1>14. ASSUME NEW f \in Fds, StartingInitFails(f) PROVE Goal
  <2>1. Kept' /\ misclosed' = TRUE /\ UNCHANGED <<pending, work>>
    BY <1>14, StartingInitFailsKept DEF StartingInitFails
  <2> QED BY <1>1, <1>14, <2>1
<1>15. ASSUME NEW side, NEW j \in Slots, RelayCloses(side, j) PROVE Goal
  <2>1. Kept' /\ misclosed' = FALSE /\ UNCHANGED <<pending, work>>
    BY <1>15, RelayClosesKept DEF RelayCloses
  <2> QED BY <1>1, <2>1
<1> HIDE DEF Goal
<1> QED
  BY <1>2, <1>3, <1>4, <1>5, <1>6, <1>7, <1>8, <1>9, <1>10, <1>11, <1>12, <1>13, <1>14, <1>15
  DEF Next

\* The invariant of the descriptors.
Descriptors == Kept /\ Loop

LEMMA StepDescriptors == Descriptors /\ [Next]_vars => Descriptors'
<1>1. ASSUME Descriptors, Next PROVE Descriptors'
  BY <1>1, StepKept, StepLoop DEF Descriptors
<1>2. ASSUME Descriptors, UNCHANGED vars PROVE Descriptors'
  <2>1. Kept'
    BY <1>2, KeptSame DEF vars, Descriptors
  <2> QED BY <1>2, <2>1 DEF vars, Descriptors, Loop
<1> QED BY <1>1, <1>2

LEMMA AlwaysDescriptors == Spec => []Descriptors
BY InitKept, StepDescriptors, PTL DEF Spec, Descriptors

LEMMA AlwaysInv == Spec => []Inv
BY InitInv, StepInv, PTL DEF Spec

\* Every descriptor the process has open belongs to exactly one place of the
\* server's arrays, and no place names a closed one, after any sequence of
\* handlers, failures, expiries and closed sessions and whatever numbers
\* accept reuses.
THEOREM DescriptorsOwned == Spec => []OneOwner
<1>1. Descriptors => OneOwner
  BY SingleOwner DEF Descriptors, Kept
<1> QED BY <1>1, AlwaysDescriptors, PTL

\* No handler closes a descriptor that is not open, but for the failure of
\* ct_relay_init, which closes both sockets of the stream twice.
THEOREM ClosedOnce == Spec => ClosedTwiceByInit
<1>1. Descriptors /\ [Next]_vars => [misclosed' => \E f \in Fds : StartingInitFails(f)]_vars
  BY StepKept DEF Descriptors
<1>2. Spec => [][misclosed' => \E f \in Fds : StartingInitFails(f)]_vars
  BY <1>1, AlwaysDescriptors, PTL DEF Spec
<1> QED BY <1>2 DEF ClosedTwiceByInit

\* No array of the peer is written past its end: pending[] and starting[] hold
\* at most MAX_PENDING entries, work[] at most MAX_STREAMS, whatever the
\* configured limits.
THEOREM PeerTypes == Spec => []TypeOK
<1>1. ASSUME Descriptors, Inv PROVE TypeOK
  <2>1. Len(pending) <= MAX_PENDING
    BY <1>1, Counts, Limited DEF Inv, WithinLimits
  <2>2. relays \in [Slots -> [direct : 0..MaxFd, work : 0..MaxFd]]
    <3>1. [direct : Fds, work : Fds] \cup {Free} \subseteq [direct : 0..MaxFd, work : 0..MaxFd]
      BY Limited DEF Free, Fds
    <3> QED BY <1>1, <3>1 DEF Descriptors, Kept, Typed
  <2> QED BY <1>1, <2>1, <2>2 DEF Descriptors, Kept, Typed, Loop, TypeOK, PendingStreams, StartingStreams
<1>2. Descriptors /\ Inv => TypeOK
  BY <1>1
<1> QED BY <1>2, AlwaysDescriptors, AlwaysInv, PTL

\* While starting[] cannot fill up, an external connection never waits next
\* to an idle work connection: every handler that adds one of either calls
\* match_pending.
THEOREM PairedPromptly == Spec => []NoIdlePair
<1>0. (Typed /\ Inv /\ Paired)' => NoIdlePair'
  BY FullLeavesNone, PTL
<1>1. ASSUME Descriptors, Inv', NoIdlePair, [Next]_vars PROVE NoIdlePair'
  <2> SUFFICES ASSUME StreamLimit <= MAX_PENDING PROVE NoPair'
    BY DEF NoIdlePair, NoPair
  <2>1. NoPair
    BY <1>1 DEF NoIdlePair, NoPair
  <2>2. CASE Next
    <3>1. Kept' /\ (NoPair' \/ Paired')
      BY <1>1, <2>1, <2>2, StepKept DEF Descriptors
    <3>2. CASE Paired'
      <4>1. NoIdlePair'
        BY <1>0, <1>1, <3>1, <3>2 DEF Kept
      <4> QED BY <4>1 DEF NoIdlePair, NoPair
    <3> QED BY <3>1, <3>2
  <2>3. CASE UNCHANGED vars
    BY <2>1, <2>3 DEF vars, NoPair
  <2> QED BY <1>1, <2>2, <2>3
<1>2. Descriptors /\ Inv' /\ NoIdlePair /\ [Next]_vars => NoIdlePair'
  BY <1>1
<1>3. Init => NoIdlePair
  BY DEF Init, NoIdlePair
<1> QED BY <1>2, <1>3, AlwaysDescriptors, AlwaysInv, PTL DEF Spec
==============================================================================
