----------------------------- MODULE TunnelProofs ----------------------------
(***************************************************************************)
(* Proofs about Tunnel for all users, limits, pool sizes and numbers of    *)
(* connections and faults: no array overflows, every open end of a work    *)
(* connection is held once, the two programs agree about every connection  *)
(* they share, no wakeup is lost, and users are served as StreamService    *)
(* says, step by step.                                                     *)
(***************************************************************************)
EXTENDS Tunnel, FiniteSetTheorems, SequenceTheorems, TLAPS

Distinct(q)    == \A i, j \in DOMAIN q : q[i] = q[j] => i = j
OneWork(S)     == \A s, t \in S : s.work = t.work => s = t
Apart(A, B)    == \A x \in A : x \notin B

\* The open ends o of the server's connections are those it holds, each in
\* one place: B in the backlog, I incoming, D idle, T of a starting stream or
\* R of a relay; the open ends of the client's are P in its pool, D of the
\* stream it dials for, or R of a relay.
AtServer(B, I, D, T, R, o) ==
    /\ Apart(B, I) /\ Apart(B, D) /\ Apart(B, T) /\ Apart(B, R)
    /\ Apart(I, D) /\ Apart(I, T) /\ Apart(I, R)
    /\ Apart(D, T) /\ Apart(D, R) /\ Apart(T, R)
    /\ o = B \cup I \cup D \cup T \cup R

AtClient(P, D, R, o) ==
    /\ Apart(P, D) /\ Apart(P, R) /\ Apart(D, R)
    /\ o = P \cup D \cup R
-----------------------------------------------------------------------------
(***************************************************************************)
(* Sequences without repetition.                                           *)
(***************************************************************************)

LEMMA EmptyElements == Elements(<<>>) = {} /\ Distinct(<<>>)
BY DEF Elements, Distinct

LEMMA HeadTail ==
    ASSUME NEW S, NEW q \in Seq(S), q # <<>>
    PROVE  /\ Head(q) \in S /\ Tail(q) \in Seq(S) /\ Len(Tail(q)) = Len(q) - 1
           /\ Len(q) \in Nat /\ Len(q) >= 1
           /\ Head(q) \in Elements(q)
           /\ Distinct(q) => /\ Elements(Tail(q)) = Elements(q) \ {Head(q)}
                             /\ Distinct(Tail(q))
<1>1. /\ Len(q) \in Nat /\ Len(q) >= 1 /\ Head(q) = q[1] /\ Head(q) \in S
      /\ Tail(q) \in Seq(S) /\ Len(Tail(q)) = Len(q) - 1
      /\ \A i \in 1..(Len(q) - 1) : Tail(q)[i] = q[i + 1]
  BY EmptySeq, HeadTailProperties
<1>2. DOMAIN q = 1..Len(q) /\ DOMAIN Tail(q) = 1..(Len(q) - 1) /\ 1 \in 1..Len(q)
  BY <1>1
<1>3. Head(q) \in Elements(q)
  BY <1>1, <1>2 DEF Elements
<1>4. ASSUME Distinct(q)
      PROVE  Elements(Tail(q)) = Elements(q) \ {Head(q)} /\ Distinct(Tail(q))
  <2>1. ASSUME NEW x \in Elements(Tail(q)) PROVE x \in Elements(q) /\ x # Head(q)
    <3>1. PICK i \in 1..(Len(q) - 1) : x = Tail(q)[i]
      BY <1>2 DEF Elements
    <3>2. x = q[i + 1] /\ i + 1 \in 1..Len(q) /\ i + 1 # 1
      BY <1>1, <3>1
    <3>3. x # q[1]
      BY <1>2, <1>4, <3>2 DEF Distinct
    <3> QED BY <1>1, <1>2, <3>2, <3>3 DEF Elements
  <2>2. ASSUME NEW x \in Elements(q), x # Head(q) PROVE x \in Elements(Tail(q))
    <3>1. PICK i \in 1..Len(q) : x = q[i]
      BY <1>2 DEF Elements
    <3>2. i # 1 /\ i - 1 \in 1..(Len(q) - 1) /\ (i - 1) + 1 = i
      BY <1>1, <2>2, <3>1
    <3>3. x = Tail(q)[i - 1]
      BY <1>1, <3>1, <3>2
    <3> QED BY <1>2, <3>2, <3>3 DEF Elements
  <2>3. ASSUME NEW i \in 1..(Len(q) - 1), NEW j \in 1..(Len(q) - 1), Tail(q)[i] = Tail(q)[j]
        PROVE  i = j
    <3>1. q[i + 1] = q[j + 1] /\ i + 1 \in 1..Len(q) /\ j + 1 \in 1..Len(q)
      BY <1>1, <2>3
    <3>2. i + 1 = j + 1
      BY <1>2, <1>4, <3>1 DEF Distinct
    <3> QED BY <3>2
  <2>4. Distinct(Tail(q))
    BY <1>2, <2>3 DEF Distinct
  <2> QED BY <2>1, <2>2, <2>4
<1> QED BY <1>1, <1>3, <1>4

LEMMA AppendElements ==
    ASSUME NEW S, NEW q \in Seq(S), NEW x \in S
    PROVE  /\ Append(q, x) \in Seq(S) /\ Len(Append(q, x)) = Len(q) + 1 /\ Len(q) \in Nat
           /\ Elements(Append(q, x)) = Elements(q) \cup {x}
           /\ Distinct(q) /\ x \notin Elements(q) => Distinct(Append(q, x))
<1>1. /\ Append(q, x) \in Seq(S) /\ Len(Append(q, x)) = Len(q) + 1 /\ Len(q) \in Nat
      /\ \A i \in 1..Len(q) : Append(q, x)[i] = q[i]
      /\ Append(q, x)[Len(q) + 1] = x
  BY AppendProperties
<1>2. DOMAIN q = 1..Len(q) /\ DOMAIN Append(q, x) = 1..(Len(q) + 1)
  BY <1>1
<1>3. \A i \in 1..(Len(q) + 1) : i \in 1..Len(q) \/ i = Len(q) + 1
  BY <1>1
<1>4. \A i \in 1..Len(q) : i \in 1..(Len(q) + 1)
  BY <1>1
<1>5. Len(q) + 1 \in 1..(Len(q) + 1)
  BY <1>1
<1> HIDE DEF Elements
<1>6. Elements(Append(q, x)) = Elements(q) \cup {x}
  <2>1. ASSUME NEW y \in Elements(Append(q, x)) PROVE y \in Elements(q) \cup {x}
    BY <1>1, <1>2, <1>3, <2>1 DEF Elements
  <2>2. ASSUME NEW y \in Elements(q) PROVE y \in Elements(Append(q, x))
    BY <1>1, <1>2, <1>4, <2>2 DEF Elements
  <2>3. x \in Elements(Append(q, x))
    BY <1>1, <1>2, <1>5 DEF Elements
  <2> QED BY <2>1, <2>2, <2>3
<1>7. ASSUME Distinct(q), x \notin Elements(q),
             NEW i \in 1..(Len(q) + 1), NEW j \in 1..(Len(q) + 1), Append(q, x)[i] = Append(q, x)[j]
      PROVE  i = j
  <2>1. \A k \in 1..Len(q) : q[k] # x
    BY <1>2, <1>7 DEF Elements
  <2> QED BY <1>1, <1>2, <1>3, <1>7, <2>1 DEF Distinct
<1> QED BY <1>1, <1>2, <1>6, <1>7 DEF Distinct

\* The connections added to the backlog by add_work.
LEMMA NewElements ==
    ASSUME NEW q \in Seq(Conns), NEW m \in Nat, NEW k \in Nat, m + k <= MaxConns,
           \A x \in Elements(q) : x <= m,
           NEW a \in [1..k -> Conns], \A i \in 1..k : a[i] = m + i
    PROVE  /\ q \o a \in Seq(Conns) /\ Len(q \o a) = Len(q) + k
           /\ \A x : x \in Elements(q \o a) <=> x \in Elements(q) \/ x \in (m + 1)..(m + k)
           /\ Distinct(q) => Distinct(q \o a)
<1> DEFINE r == q \o a
           new == (m + 1)..(m + k)
<1>1. a \in Seq(Conns) /\ Len(a) = k /\ \A i \in 1..k : a[i] = m + i
  <2>1. a \in Seq(Conns)
    OBVIOUS
  <2>2. Len(a) = k
    BY <2>1, LenProperties
  <2> QED BY <2>1, <2>2
<1>2. /\ r \in Seq(Conns) /\ Len(r) = Len(q) + k /\ Len(q) \in Nat
      /\ \A i \in 1..(Len(q) + k) : r[i] = IF i <= Len(q) THEN q[i] ELSE a[i - Len(q)]
  <2>1. Len(q) \in Nat
    BY LenProperties
  <2>2. /\ r \in Seq(Conns) /\ Len(r) = Len(q) + Len(a)
        /\ \A i \in 1..Len(q) + Len(a) : r[i] = IF i <= Len(q) THEN q[i] ELSE a[i - Len(q)]
    BY <1>1, ConcatProperties
  <2> QED BY <1>1, <2>1, <2>2
<1> HIDE DEF r
<1>3. DOMAIN q = 1..Len(q) /\ DOMAIN r = 1..(Len(q) + k)
  BY <1>2
<1>4. \A i \in 1..Len(q) : i \in 1..(Len(q) + k) /\ r[i] = q[i]
  BY <1>2
<1>5. \A i \in 1..(Len(q) + k) :
        i > Len(q) => /\ r[i] = m + (i - Len(q)) /\ r[i] \in new
                      /\ r[i] \in Nat /\ r[i] > m
  <2> SUFFICES ASSUME NEW i \in 1..(Len(q) + k), i > Len(q)
               PROVE  r[i] = m + (i - Len(q)) /\ m + (i - Len(q)) \in new
                      /\ m + (i - Len(q)) \in Nat /\ m + (i - Len(q)) > m
    OBVIOUS
  <2>1. i - Len(q) \in 1..k /\ ~(i <= Len(q))
    BY <1>2
  <2>2. r[i] = a[i - Len(q)]
    BY <1>2, <2>1
  <2> QED BY <1>1, <2>1, <2>2
<1>6. \A i \in 1..Len(q) : q[i] \in Elements(q) /\ q[i] \in Nat /\ q[i] <= m
  <2> SUFFICES ASSUME NEW i \in 1..Len(q)
               PROVE  q[i] \in Elements(q) /\ q[i] \in Nat /\ q[i] <= m
    OBVIOUS
  <2>1. q[i] \in Conns
    BY ElementOfSeq
  <2>2. q[i] \in Elements(q)
    BY <1>3 DEF Elements
  <2> QED BY <2>1, <2>2, TunnelAssumption DEF Conns
<1>7. Elements(r) = Elements(q) \cup new
  <2>1. ASSUME NEW x \in Elements(r) PROVE x \in Elements(q) \cup new
    <3>1. PICK i \in 1..(Len(q) + k) : x = r[i]
      BY <1>3 DEF Elements
    <3>2. CASE i <= Len(q)
      <4>1. i \in 1..Len(q)
        BY <1>2, <3>2
      <4> QED BY <1>4, <1>6, <3>1, <4>1
    <3>3. CASE i > Len(q)
      BY <1>5, <3>1, <3>3
    <3> QED BY <1>2, <3>2, <3>3
  <2>2. ASSUME NEW x \in Elements(q) PROVE x \in Elements(r)
    BY <1>3, <1>4 DEF Elements
  <2>3. ASSUME NEW x \in new PROVE x \in Elements(r)
    <3>1. /\ Len(q) + (x - m) \in 1..(Len(q) + k) /\ Len(q) + (x - m) > Len(q)
          /\ m + ((Len(q) + (x - m)) - Len(q)) = x
      BY <1>2
    <3>2. r[Len(q) + (x - m)] = x
      BY <1>5, <3>1
    <3> QED BY <1>3, <3>1, <3>2 DEF Elements
  <2> QED BY <2>1, <2>2, <2>3
<1>8. ASSUME Distinct(q), NEW i \in 1..(Len(q) + k), NEW j \in 1..(Len(q) + k), r[i] = r[j]
      PROVE  i = j
  <2>1. CASE i <= Len(q) /\ j <= Len(q)
    <3>1. i \in 1..Len(q) /\ j \in 1..Len(q)
      BY <1>2, <2>1
    <3> QED BY <1>3, <1>4, <1>8, <3>1 DEF Distinct
  <2>2. CASE i > Len(q) /\ j > Len(q)
    <3>1. m + (i - Len(q)) = m + (j - Len(q))
      BY <1>5, <1>8, <2>2
    <3> QED BY <1>2, <3>1
  <2>3. ASSUME NEW v \in 1..(Len(q) + k), NEW z \in 1..(Len(q) + k), v <= Len(q), z > Len(q), r[v] = r[z]
        PROVE  FALSE
    <3>1. v \in 1..Len(q)
      BY <1>2, <2>3
    <3>2. r[v] <= m /\ r[v] \in Nat /\ r[z] > m
      BY <1>4, <1>5, <1>6, <2>3, <3>1
    <3> QED BY <2>3, <3>2
  <2> QED BY <1>2, <1>8, <2>1, <2>2, <2>3
<1>9. Distinct(q) => Distinct(r)
  BY <1>3, <1>8 DEF Distinct
<1> QED BY <1>2, <1>7, <1>9 DEF r

\* p->pending[i] = p->pending[--p->pending_n].
LEMMA RemoveElement ==
    ASSUME NEW S, NEW q \in Seq(S), NEW i \in DOMAIN q
    PROVE  LET r == SubSeq([q EXCEPT ![i] = q[Len(q)]], 1, Len(q) - 1)
           IN  /\ r \in Seq(S) /\ Len(r) = Len(q) - 1 /\ Len(q) \in Nat /\ Len(q) >= 1
               /\ Distinct(q) => Distinct(r) /\ Elements(r) = Elements(q) \ {q[i]}
<1> DEFINE n == Len(q)
           e == [q EXCEPT ![i] = q[n]]
           r == SubSeq(e, 1, n - 1)
<1>1. n \in Nat /\ DOMAIN q = 1..n /\ n \in 1..n /\ n >= 1 /\ \A j \in 1..n : q[j] \in S
  BY LenProperties, ElementOfSeq
<1> HIDE DEF n
<1>2. e \in Seq(S) /\ Len(e) = n /\ \A j \in 1..n : e[j] = IF j = i THEN q[n] ELSE q[j]
  <2>1. e \in [1..n -> S] /\ \A j \in 1..n : e[j] = IF j = i THEN q[n] ELSE q[j]
    BY <1>1
  <2> HIDE DEF e
  <2>2. e \in Seq(S)
    BY <1>1, <2>1
  <2>3. Len(e) = n
    BY <1>1, <2>1, <2>2, LenProperties
  <2> QED BY <2>1, <2>2, <2>3
<1> HIDE DEF e
<1>3. r \in Seq(S) /\ Len(r) = n - 1 /\ \A j \in 1..(n - 1) : r[j] = e[j]
  <2>1. 1 \in 1..(n + 1) /\ n - 1 \in (1 - 1)..n
    BY <1>1
  <2>2. /\ r \in Seq(S)
        /\ Len(r) = IF 1 <= n - 1 THEN (n - 1) - 1 + 1 ELSE 0
        /\ \A j \in 1..((n - 1) - 1 + 1) : r[j] = e[1 + j - 1]
    BY <1>1, <1>2, <2>1, SubSeqProperties
  <2> QED BY <1>1, <2>2
<1> HIDE DEF r
<1>4. DOMAIN r = 1..(n - 1)
  BY <1>3, LenProperties
<1>5. ASSUME NEW j \in 1..(n - 1) PROVE j \in 1..n /\ r[j] = IF j = i THEN q[n] ELSE q[j]
  BY <1>1, <1>2, <1>3
<1>6. ASSUME Distinct(q), NEW j \in 1..(n - 1), NEW k \in 1..(n - 1), r[j] = r[k] PROVE j = k
  BY <1>1, <1>5, <1>6 DEF Distinct
<1>7. ASSUME Distinct(q) PROVE Elements(r) = Elements(q) \ {q[i]}
  <2>1. ASSUME NEW x \in Elements(r) PROVE x \in Elements(q) /\ x # q[i]
    <3>1. PICK j \in 1..(n - 1) : x = r[j]
      BY <1>4 DEF Elements
    <3>2. j \in 1..n /\ x = (IF j = i THEN q[n] ELSE q[j]) /\ j # n
      BY <1>1, <1>5, <3>1
    <3>3. x # q[i]
      BY <1>1, <1>7, <3>2 DEF Distinct
    <3> QED BY <1>1, <3>2, <3>3 DEF Elements
  <2>2. ASSUME NEW x \in Elements(q), x # q[i] PROVE x \in Elements(r)
    <3>1. PICK j \in 1..n : x = q[j]
      BY <1>1 DEF Elements
    <3>2. j # i
      BY <2>2, <3>1
    <3>3. CASE j = n
      <4>1. i \in 1..(n - 1)
        BY <1>1, <3>2, <3>3
      <4>2. r[i] = x
        BY <1>5, <3>1, <3>3, <4>1
      <4> QED BY <1>4, <4>1, <4>2 DEF Elements
    <3>4. CASE j # n
      <4>1. j \in 1..(n - 1)
        BY <1>1, <3>4
      <4>2. r[j] = x
        BY <1>5, <3>1, <3>2, <4>1
      <4> QED BY <1>4, <4>1, <4>2 DEF Elements
    <3> QED BY <3>3, <3>4
  <2> QED BY <2>1, <2>2
<1>8. Distinct(q) => Distinct(r)
  BY <1>4, <1>6 DEF Distinct
<1> QED BY <1>1, <1>3, <1>7, <1>8 DEF n, e, r
-----------------------------------------------------------------------------
(***************************************************************************)
(* Sets of streams, and places.                                            *)
(***************************************************************************)

LEMMA StreamFields ==
    /\ \A u, w : Stream(u, w).user = u /\ Stream(u, w).work = w
    /\ \A u \in Users, w \in Conns : Stream(u, w) \in Streams
    /\ \A s \in Streams : s.user \in Users /\ s.work \in Conns /\ s = Stream(s.user, s.work)
BY DEF Stream, Streams

LEMMA WorkAdded == \A S, s : WorkOf(S \cup {s}) = WorkOf(S) \cup {s.work}
BY DEF WorkOf

LEMMA WorkJoined == \A S, T : WorkOf(S \cup T) = WorkOf(S) \cup WorkOf(T)
BY DEF WorkOf

LEMMA WorkRemoved ==
    ASSUME NEW S, NEW s \in S, OneWork(S)
    PROVE  /\ WorkOf(S \ {s}) = WorkOf(S) \ {s.work} /\ OneWork(S \ {s})
           /\ s.work \in WorkOf(S)
BY DEF WorkOf, OneWork

LEMMA WorkOfNone == WorkOf({}) = {} /\ OneWork({})
BY DEF WorkOf, OneWork

LEMMA WorkOfOne == \A s : WorkOf({s}) = {s.work} /\ OneWork({s})
BY DEF WorkOf, OneWork

LEMMA OneWorkJoined ==
    ASSUME NEW S, NEW T, OneWork(S), OneWork(T), Apart(WorkOf(S), WorkOf(T))
    PROVE  OneWork(S \cup T)
BY DEF WorkOf, OneWork, Apart

LEMMA CountWork ==
    ASSUME NEW S, NEW w, OneWork(S)
    PROVE  Cardinality({s \in S : s.work = w}) = IF w \in WorkOf(S) THEN 1 ELSE 0
<1>1. CASE w \in WorkOf(S)
  <2>1. PICK s \in S : s.work = w
    BY <1>1 DEF WorkOf
  <2>2. {t \in S : t.work = w} = {s}
    BY <2>1 DEF OneWork
  <2> QED BY <1>1, <2>2, FS_Singleton
<1>2. CASE w \notin WorkOf(S)
  <2>1. {t \in S : t.work = w} = {}
    BY <1>2 DEF WorkOf
  <2> QED BY <1>2, <2>1, FS_EmptySet
<1> QED BY <1>1, <1>2

LEMMA CountElement ==
    ASSUME NEW q, NEW w, Distinct(q)
    PROVE  Cardinality({i \in DOMAIN q : q[i] = w}) = IF w \in Elements(q) THEN 1 ELSE 0
<1>1. CASE w \in Elements(q)
  <2>1. PICK i \in DOMAIN q : q[i] = w
    BY <1>1 DEF Elements
  <2>2. {j \in DOMAIN q : q[j] = w} = {i}
    BY <2>1 DEF Distinct
  <2> QED BY <1>1, <2>2, FS_Singleton
<1>2. CASE w \notin Elements(q)
  <2>1. {j \in DOMAIN q : q[j] = w} = {}
    BY <1>2 DEF Elements
  <2> QED BY <1>2, <2>1, FS_EmptySet
<1> QED BY <1>1, <1>2

LEMMA CountPlace ==
    ASSUME NEW S, NEW w
    PROVE  Cardinality({w} \cap S) = IF w \in S THEN 1 ELSE 0
<1>1. CASE w \in S
  <2>1. {w} \cap S = {w}
    BY <1>1
  <2> QED BY <1>1, <2>1, FS_Singleton
<1>2. CASE w \notin S
  <2>1. {w} \cap S = {}
    BY <1>2
  <2> QED BY <1>2, <2>1, FS_EmptySet
<1> QED BY <1>1, <1>2
-----------------------------------------------------------------------------
(***************************************************************************)
(* The inductive invariant.                                                *)
(***************************************************************************)

\* Every open end of the server's is held in one place.
ServerSide ==
    /\ Distinct(backlog) /\ Distinct(idle) /\ OneWork(starting) /\ OneWork(srelays)
    /\ AtServer(Elements(backlog), incoming, Elements(idle), WorkOf(starting),
                WorkOf(srelays), openS)

\* So is every open end of the client's, which dials for one stream at most
\* and only while it runs.
ClientSide ==
    /\ OneWork(dialing) /\ OneWork(crelays)
    /\ AtClient(pool, WorkOf(dialing), WorkOf(crelays), openC)
    /\ \A s, t \in dialing : s = t
    /\ client = "registering" => pool = {} /\ dialing = {}

\* Connections are numbered in the order they are made, and one that is not
\* made has carried nothing.
Numbered ==
    /\ \A w \in openC \cup openS : w <= made
    /\ \A w \in Conns : w > made => toClient[w] = <<>> /\ toServer[w] = <<>>

\* Nothing was sent over a connection the server has not paired.
Fresh ==
    \A w \in Elements(backlog) \cup incoming \cup Elements(idle) :
      /\ toClient[w] = <<>> /\ toServer[w] = <<>>
      /\ w \notin WorkOf(dialing) /\ w \notin WorkOf(crelays)

\* Where START_STREAM or its answer for the starting stream s is.
Started(s) ==
    \/ s.work \notin openC
    \/ toClient[s.work] = <<s.user>> /\ toServer[s.work] = <<>> /\ s.work \in pool
    \/ toClient[s.work] = <<>> /\ toServer[s.work] = <<>> /\ s \in dialing
    \/ toClient[s.work] = <<>> /\ toServer[s.work] = Message("STREAM_READY", s) /\ s \in crelays

AllStarted == \A s \in starting : Started(s)

\* The client relays what the server relays.
Relayed == \A s \in srelays : s.work \in openC => s \in crelays

\* The sets of streams are finite, and a peer that is closed holds nothing.
Bounded ==
    /\ IsFiniteSet(starting) /\ IsFiniteSet(srelays) /\ IsFiniteSet(crelays)
    /\ Len(pending) <= PendingLimit
    /\ server = "ended" => pending = <<>> /\ idle = <<>> /\ starting = {} /\ srelays = {}

Ends == ServerSide /\ ClientSide /\ Numbered /\ Fresh /\ AllStarted /\ Relayed

Inv == TypeOK /\ Bounded /\ Ends

LEMMA InvEndsHeld == Inv => EndsHeld
<1> SUFFICES ASSUME Inv PROVE EndsHeld
  OBVIOUS
<1> USE DEF Inv, Ends
<1> DEFINE held(w) == Cardinality({s \in starting : s.work = w})
                      + Cardinality({s \in srelays : s.work = w})
                      + Cardinality({i \in DOMAIN idle : idle[i] = w})
                      + Cardinality({i \in DOMAIN backlog : backlog[i] = w})
                      + Cardinality({w} \cap incoming)
           ours(w) == Cardinality({s \in dialing \cup crelays : s.work = w})
                      + Cardinality({w} \cap pool)
<1>1. ASSUME NEW w \in Conns PROVE held(w) = Cardinality({w} \cap openS)
  <2>1. Cardinality({s \in starting : s.work = w}) = IF w \in WorkOf(starting) THEN 1 ELSE 0
    BY CountWork DEF ServerSide
  <2>2. Cardinality({s \in srelays : s.work = w}) = IF w \in WorkOf(srelays) THEN 1 ELSE 0
    BY CountWork DEF ServerSide
  <2>3. Cardinality({i \in DOMAIN idle : idle[i] = w}) = IF w \in Elements(idle) THEN 1 ELSE 0
    BY CountElement DEF ServerSide
  <2>4. Cardinality({i \in DOMAIN backlog : backlog[i] = w})
          = IF w \in Elements(backlog) THEN 1 ELSE 0
    BY CountElement DEF ServerSide
  <2>5. /\ Cardinality({w} \cap incoming) = IF w \in incoming THEN 1 ELSE 0
        /\ Cardinality({w} \cap openS) = IF w \in openS THEN 1 ELSE 0
    BY CountPlace
  <2>6. AtServer(Elements(backlog), incoming, Elements(idle), WorkOf(starting),
                 WorkOf(srelays), openS)
    BY DEF ServerSide
  <2> QED BY <2>1, <2>2, <2>3, <2>4, <2>5, <2>6 DEF AtServer, Apart
<1>2. ASSUME NEW w \in Conns PROVE ours(w) = Cardinality({w} \cap openC)
  <2>1. AtClient(pool, WorkOf(dialing), WorkOf(crelays), openC)
    BY DEF ClientSide
  <2>2. OneWork(dialing \cup crelays)
    BY <2>1, OneWorkJoined DEF ClientSide, AtClient
  <2>3. WorkOf(dialing \cup crelays) = WorkOf(dialing) \cup WorkOf(crelays)
    BY WorkJoined
  <2>4. Cardinality({s \in dialing \cup crelays : s.work = w})
          = IF w \in WorkOf(dialing) \cup WorkOf(crelays) THEN 1 ELSE 0
    BY <2>2, <2>3, CountWork
  <2>5. /\ Cardinality({w} \cap pool) = IF w \in pool THEN 1 ELSE 0
        /\ Cardinality({w} \cap openC) = IF w \in openC THEN 1 ELSE 0
    BY CountPlace
  <2> QED BY <2>1, <2>4, <2>5 DEF AtClient, Apart
<1> QED BY <1>1, <1>2 DEF EndsHeld

LEMMA InvEndsAgree == Inv => EndsAgree
<1> SUFFICES ASSUME Inv PROVE EndsAgree
  OBVIOUS
<1> USE DEF Inv, Ends
<1> DEFINE live(w) == w \in openC /\ w \notin broken
<1>1. AtClient(pool, WorkOf(dialing), WorkOf(crelays), openC)
  BY DEF ClientSide
<1>2. ASSUME NEW i \in DOMAIN idle, live(idle[i])
      PROVE  idle[i] \in pool /\ toClient[idle[i]] = <<>>
  <2>1. idle[i] \in Elements(idle)
    BY DEF Elements
  <2> QED BY <1>1, <1>2, <2>1 DEF Fresh, AtClient
<1>3. ASSUME NEW s \in starting, live(s.work)
      PROVE  \/ s.work \in pool /\ toClient[s.work] = <<s.user>>
             \/ s \in dialing
             \/ s \in crelays /\ toServer[s.work] = Message("STREAM_READY", s)
  BY <1>3 DEF AllStarted, Started
<1>4. ASSUME NEW s \in srelays, live(s.work) PROVE s \in crelays
  BY <1>4 DEF Relayed
<1>5. ASSUME NEW s \in starting \cup srelays, NEW c \in dialing \cup crelays, s.work = c.work
      PROVE  s.user = c.user
  <2>1. c.work \in WorkOf(dialing) \cup WorkOf(crelays)
    BY DEF WorkOf
  <2>2. s.work \in openC /\ s.work \notin pool
    BY <1>1, <1>5, <2>1 DEF AtClient, Apart
  <2>3. s \in dialing \cup crelays
    BY <2>2 DEF AllStarted, Started, Relayed
  <2>4. OneWork(dialing \cup crelays)
    BY <1>1, OneWorkJoined DEF ClientSide, AtClient
  <2> QED BY <1>5, <2>3, <2>4 DEF OneWork
<1> QED BY <1>2, <1>3, <1>4, <1>5 DEF EndsAgree
-----------------------------------------------------------------------------
(***************************************************************************)
(* match_pending.                                                          *)
(***************************************************************************)

LEMMA Suffix ==
    ASSUME NEW S, NEW q \in Seq(S), NEW k \in 0..Len(q)
    PROVE  LET r == SubSeq(q, k + 1, Len(q))
           IN  /\ r \in Seq(S) /\ Len(r) = Len(q) - k
               /\ Distinct(q) => /\ Distinct(r)
                                 /\ Elements(r) = Elements(q) \ {q[i] : i \in 1..k}
<1> DEFINE n == Len(q)
           r == SubSeq(q, k + 1, n)
<1>1. n \in Nat /\ DOMAIN q = 1..n /\ k \in Int /\ 0 <= k /\ k <= n /\ \A i \in 1..n : q[i] \in S
  BY LenProperties, ElementOfSeq
<1>2. r \in Seq(S) /\ Len(r) = n - k /\ \A i \in 1..(n - k) : r[i] = q[k + i]
  <2>1. \A i \in (k + 1)..n : q[i] \in S
    BY <1>1
  <2> HIDE DEF n
  <2>2. /\ r \in Seq(S) /\ Len(r) = (IF k + 1 <= n THEN n - (k + 1) + 1 ELSE 0)
        /\ \A i \in 1..n - (k + 1) + 1 : r[i] = q[(k + 1) + i - 1]
    BY <1>1, <2>1, SubSeqProperties
  <2> HIDE DEF r
  <2>3. \A i \in 1..(n - k) : i \in 1..n - (k + 1) + 1 /\ (k + 1) + i - 1 = k + i
    BY <1>1
  <2>4. Len(r) = n - k
    BY <1>1, <2>2
  <2> QED BY <2>2, <2>3, <2>4
<1> HIDE DEF n, r
<1>3. DOMAIN r = 1..(n - k)
  BY <1>2, LenProperties
<1>4. \A i \in 1..(n - k) : k + i \in 1..n /\ ~(k + i <= k)
  BY <1>1
<1>5. ASSUME Distinct(q), NEW x \in Elements(r) PROVE x \in Elements(q) /\ x \notin {q[i] : i \in 1..k}
  <2>1. PICK i \in 1..(n - k) : x = q[k + i]
    BY <1>2, <1>3 DEF Elements
  <2>2. x \in Elements(q)
    BY <1>1, <1>4, <2>1 DEF Elements
  <2>3. ASSUME NEW j \in 1..k, x = q[j] PROVE FALSE
    <3>1. j \in 1..n /\ j # k + i
      BY <1>1, <2>1
    <3> QED BY <1>1, <1>4, <1>5, <2>1, <2>3, <3>1 DEF Distinct
  <2> QED BY <2>2, <2>3
<1>6. ASSUME NEW x \in Elements(q), x \notin {q[i] : i \in 1..k} PROVE x \in Elements(r)
  <2>1. PICK j \in 1..n : x = q[j]
    BY <1>1 DEF Elements
  <2>2. j \notin 1..k
    BY <1>6, <2>1
  <2>3. j - k \in 1..(n - k) /\ k + (j - k) = j
    BY <1>1, <2>1, <2>2
  <2> QED BY <1>2, <1>3, <2>1, <2>3 DEF Elements
<1>7. ASSUME Distinct(q), NEW i \in 1..(n - k), NEW j \in 1..(n - k), r[i] = r[j] PROVE i = j
  <2>1. k + i = k + j
    BY <1>1, <1>2, <1>4, <1>7 DEF Distinct
  <2> QED BY <1>1, <2>1
<1>8. Distinct(q) => Distinct(r)
  BY <1>3, <1>7 DEF Distinct
<1> QED BY <1>2, <1>5, <1>6, <1>8 DEF n, r

LEMMA Prefix ==
    ASSUME NEW S, NEW q \in Seq(S), NEW k \in 0..Len(q), Distinct(q)
    PROVE  LET r == SubSeq(q, 1, Len(q) - k)
           IN  /\ r \in Seq(S) /\ Len(r) = Len(q) - k
               /\ Distinct(r)
               /\ Elements(r) = Elements(q) \ {q[Len(q) - i + 1] : i \in 1..k}
<1> DEFINE n == Len(q)
           r == SubSeq(q, 1, n - k)
<1>1. n \in Nat /\ DOMAIN q = 1..n /\ k \in Int /\ 0 <= k /\ k <= n /\ \A i \in 1..n : q[i] \in S
  BY LenProperties, ElementOfSeq
<1>2. r \in Seq(S) /\ Len(r) = n - k /\ \A i \in 1..(n - k) : r[i] = q[i]
  <2>1. (\A i \in 1..(n - k) : q[i] \in S) /\ n - k \in Int
    BY <1>1
  <2> HIDE DEF n
  <2>2. /\ r \in Seq(S) /\ Len(r) = (IF 1 <= n - k THEN (n - k) - 1 + 1 ELSE 0)
        /\ \A i \in 1..(n - k) - 1 + 1 : r[i] = q[1 + i - 1]
    BY <1>1, <2>1, SubSeqProperties
  <2> HIDE DEF r
  <2>3. \A i \in 1..(n - k) : i \in 1..(n - k) - 1 + 1 /\ 1 + i - 1 = i
    BY <1>1
  <2>4. Len(r) = n - k
    BY <1>1, <2>2
  <2> QED BY <2>2, <2>3, <2>4
<1> HIDE DEF n, r
<1>3. DOMAIN r = 1..(n - k)
  BY <1>2, LenProperties
<1>4. \A i \in 1..(n - k) : i \in 1..n
  BY <1>1
<1>5. ASSUME NEW x \in Elements(r) PROVE x \in Elements(q) /\ x \notin {q[n - i + 1] : i \in 1..k}
  <2>1. PICK i \in 1..(n - k) : x = q[i]
    BY <1>2, <1>3 DEF Elements
  <2>2. x \in Elements(q)
    BY <1>1, <1>4, <2>1 DEF Elements
  <2>3. ASSUME NEW j \in 1..k, x = q[n - j + 1] PROVE FALSE
    <3>1. n - j + 1 \in 1..n /\ n - j + 1 # i
      BY <1>1, <2>1
    <3> QED BY <1>1, <1>4, <2>1, <2>3, <3>1 DEF Distinct
  <2> QED BY <2>2, <2>3
<1>6. ASSUME NEW x \in Elements(q), x \notin {q[n - i + 1] : i \in 1..k} PROVE x \in Elements(r)
  <2>1. PICK j \in 1..n : x = q[j]
    BY <1>1 DEF Elements
  <2>2. n - (n - j + 1) + 1 = j
    BY <1>1
  <2>3. n - j + 1 \notin 1..k
    BY <1>6, <2>1, <2>2
  <2>4. j \in 1..(n - k)
    BY <1>1, <2>3
  <2> QED BY <1>2, <1>3, <2>1, <2>4 DEF Elements
<1>7. Distinct(r)
  BY <1>1, <1>2, <1>3, <1>4 DEF Distinct
<1> QED BY <1>2, <1>5, <1>6, <1>7 DEF n, r

OneUser(S) == \A s, t \in S : s.user = t.user => s = t

\* What match_pending does with the queues p and w: the streams of started are
\* on their way, the connections F and the users G of the others are closed,
\* k pairs in all.
Pairing(p, w, started, F, G, k) ==
    /\ k \in Nat /\ k <= Len(p) /\ k <= Len(w)
    /\ started \subseteq Streams /\ OneWork(started)
    /\ Apart(WorkOf(started), F) /\ WorkOf(started) \cup F \subseteq Elements(w)
    /\ idle' \in Seq(Conns) /\ Len(idle') = Len(w) - k /\ Distinct(idle')
    /\ Elements(idle') = Elements(w) \ (WorkOf(started) \cup F)
    /\ pending' \in Seq(Users) /\ Len(pending') = Len(p) - k
    /\ Distinct(p) =>
         /\ Distinct(pending') /\ OneUser(started)
         /\ Apart(UsersOf(started), G) /\ UsersOf(started) \cup G \subseteq Elements(p)
         /\ Elements(pending') = Elements(p) \ (UsersOf(started) \cup G)
    /\ starting' = starting \cup started /\ IsFiniteSet(starting')
    /\ Cardinality(starting') <= MAX_PENDING
    /\ Cardinality(starting') <= Cardinality(starting) + k
    /\ k = Len(p) \/ k = Len(w) \/ Cardinality(starting') >= MAX_PENDING
    /\ openS' = openS \ F
    /\ toClient' \in [Conns -> Seq(Users)]
    /\ \A c \in Conns : c \notin WorkOf(started) => toClient'[c] = toClient[c]
    /\ \A s \in started : toClient'[s.work] = toClient[s.work] \o <<s.user>>
    /\ UsersOf(started) \cup G = {p[i] : i \in 1..k}

LEMMA SingletonSeq ==
    ASSUME NEW S, NEW x \in S
    PROVE  <<x>> \in Seq(S) /\ Len(<<x>>) = 1 /\ Head(<<x>>) = x /\ Tail(<<x>>) = <<>>
OBVIOUS

LEMMA Matches ==
    ASSUME NEW p \in Seq(Users), NEW w \in Seq(Conns), Distinct(w),
           Apart(Elements(w), WorkOf(starting)),
           starting \subseteq Streams, IsFiniteSet(starting),
           Cardinality(starting) <= MAX_PENDING,
           toClient \in [Conns -> Seq(Users)], match_pending(p, w)
    PROVE  \E started, F, G, k : Pairing(p, w, started, F, G, k)
<1> DEFINE n == Len(p)
           l == Len(w)
           pair(i) == Stream(p[i], w[l - i + 1])
<1>1. /\ n \in Nat /\ DOMAIN p = 1..n /\ \A i \in 1..n : p[i] \in Users
      /\ l \in Nat /\ DOMAIN w = 1..l /\ \A i \in 1..l : w[i] \in Conns
  BY LenProperties, ElementOfSeq
<1>2. PICK k \in 0..Lesser(n, l) : \E failed \in SUBSET (1..k) :
        LET full(j)   == Cardinality(starting) + Cardinality((1..j) \ failed) >= MAX_PENDING
            started   == {pair(i) : i \in (1..k) \ failed}
        IN
        /\ \A j \in 0..(k - 1) : ~full(j)
        /\ k = n \/ k = l \/ full(k)
        /\ pending' = SubSeq(p, k + 1, n)
        /\ idle' = SubSeq(w, 1, l - k)
        /\ starting' = starting \cup started
        /\ toClient' = [c \in Conns |->
              toClient[c] \o (IF c \in WorkOf(started)
                              THEN <<(CHOOSE s \in started : s.work = c).user>> ELSE <<>>)]
        /\ openS' = openS \ WorkOf({pair(i) : i \in failed})
  BY DEF match_pending, ct_start_stream_send
<1>3. PICK failed \in SUBSET (1..k) :
        LET full(j)   == Cardinality(starting) + Cardinality((1..j) \ failed) >= MAX_PENDING
            started   == {pair(i) : i \in (1..k) \ failed}
        IN
        /\ \A j \in 0..(k - 1) : ~full(j)
        /\ k = n \/ k = l \/ full(k)
        /\ pending' = SubSeq(p, k + 1, n)
        /\ idle' = SubSeq(w, 1, l - k)
        /\ starting' = starting \cup started
        /\ toClient' = [c \in Conns |->
              toClient[c] \o (IF c \in WorkOf(started)
                              THEN <<(CHOOSE s \in started : s.work = c).user>> ELSE <<>>)]
        /\ openS' = openS \ WorkOf({pair(i) : i \in failed})
  BY <1>2
<1> DEFINE good == (1..k) \ failed
           started == {pair(i) : i \in good}
           F == WorkOf({pair(i) : i \in failed})
           G == UsersOf({pair(i) : i \in failed})
<1>4. k \in Nat /\ k <= n /\ k <= l /\ k \in 0..n /\ k \in 0..l
  BY <1>1 DEF Lesser
<1>5. \A i \in 1..k : /\ i \in 1..n /\ l - i + 1 \in 1..l
                      /\ pair(i) \in Streams /\ pair(i).user = p[i]
                      /\ pair(i).work = w[l - i + 1]
  BY <1>1, <1>4, StreamFields
<1>6. \A i, j \in 1..k : pair(i).work = pair(j).work => i = j
  <2> SUFFICES ASSUME NEW i \in 1..k, NEW j \in 1..k, pair(i).work = pair(j).work
               PROVE  i = j
    OBVIOUS
  <2>1. /\ w[l - i + 1] = w[l - j + 1]
        /\ l - i + 1 \in DOMAIN w /\ l - j + 1 \in DOMAIN w
    BY <1>1, <1>5
  <2>2. l - i + 1 = l - j + 1
    BY <2>1 DEF Distinct
  <2> QED BY <1>1, <2>2
<1>7. Distinct(p) => \A i, j \in 1..k : pair(i).user = pair(j).user => i = j
  BY <1>1, <1>5 DEF Distinct
<1> HIDE DEF pair
<1>8. /\ \A x : x \in WorkOf(started) <=> \E i \in good : x = pair(i).work
      /\ \A x : x \in F <=> \E i \in failed : x = pair(i).work
      /\ \A x : x \in UsersOf(started) <=> \E i \in good : x = pair(i).user
      /\ \A x : x \in G <=> \E i \in failed : x = pair(i).user
      /\ good \subseteq 1..k /\ failed \subseteq 1..k /\ 1..k \subseteq good \cup failed
      /\ Apart(good, failed)
  BY DEF WorkOf, UsersOf, Apart
<1>9. /\ started \subseteq Streams /\ OneWork(started)
      /\ Apart(WorkOf(started), F) /\ WorkOf(started) \cup F \subseteq Elements(w)
  <2>1. started \subseteq Streams
    BY <1>5
  <2>2. OneWork(started)
    BY <1>6 DEF OneWork
  <2>3. Apart(WorkOf(started), F)
    <3> SUFFICES ASSUME NEW x \in WorkOf(started), x \in F PROVE FALSE
      BY DEF Apart
    <3> HIDE DEF started, F, good
    <3>1. PICK i \in good : x = pair(i).work
      BY <1>8
    <3>2. PICK j \in failed : x = pair(j).work
      BY <1>8
    <3> QED BY <1>6, <1>8, <3>1, <3>2 DEF Apart
  <2>4. \A i \in 1..k : pair(i).work \in Elements(w)
    BY <1>1, <1>5 DEF Elements
  <2> HIDE DEF started, F, good
  <2>5. WorkOf(started) \cup F \subseteq Elements(w)
    <3>1. ASSUME NEW x \in WorkOf(started) PROVE x \in Elements(w)
      BY <1>8, <2>4, <3>1
    <3>2. ASSUME NEW x \in F PROVE x \in Elements(w)
      BY <1>8, <2>4, <3>2
    <3> QED BY <3>1, <3>2
  <2> QED BY <2>1, <2>2, <2>3, <2>5
<1>10. /\ idle' \in Seq(Conns) /\ Len(idle') = l - k /\ Distinct(idle')
       /\ Elements(idle') = Elements(w) \ (WorkOf(started) \cup F)
  <2>1. PICK e : e = idle'
    OBVIOUS
  <2>2. e = SubSeq(w, 1, l - k)
    BY <1>3, <2>1
  <2>3. /\ e \in Seq(Conns) /\ Len(e) = l - k /\ Distinct(e)
        /\ Elements(e) = Elements(w) \ {w[l - i + 1] : i \in 1..k}
    BY <1>4, <2>2, Prefix
  <2> HIDE DEF started, F, good, l
  <2>4. {w[l - i + 1] : i \in 1..k} = WorkOf(started) \cup F
    <3>1. ASSUME NEW i \in 1..k PROVE w[l - i + 1] \in WorkOf(started) \cup F
      <4>1. w[l - i + 1] = pair(i).work
        BY <1>5
      <4>2. i \in good \/ i \in failed
        BY <1>8
      <4> QED BY <1>8, <4>1, <4>2
    <3>2. ASSUME NEW x, x \in WorkOf(started) \/ x \in F PROVE \E i \in 1..k : x = w[l - i + 1]
      <4>1. PICK i \in 1..k : x = pair(i).work
        BY <1>8, <3>2
      <4>2. x = w[l - i + 1]
        BY <1>5, <4>1
      <4> QED BY <4>2
    <3> QED BY <3>1, <3>2
  <2> QED BY <2>1, <2>3, <2>4
<1>11. UsersOf(started) \cup G = {p[i] : i \in 1..k}
  <2> HIDE DEF started, G, good
  <2>1. ASSUME NEW i \in 1..k PROVE p[i] \in UsersOf(started) \cup G
    <3>1. p[i] = pair(i).user
      BY <1>5
    <3>2. i \in good \/ i \in failed
      BY <1>8
    <3> QED BY <1>8, <3>1, <3>2
  <2>2. ASSUME NEW x, x \in UsersOf(started) \/ x \in G PROVE \E i \in 1..k : x = p[i]
    <3>1. PICK i \in 1..k : x = pair(i).user
      BY <1>8, <2>2
    <3>2. x = p[i]
      BY <1>5, <3>1
    <3> QED BY <3>2
  <2> QED BY <2>1, <2>2
<1>12. /\ pending' \in Seq(Users) /\ Len(pending') = n - k
       /\ Distinct(p) =>
            /\ Distinct(pending') /\ OneUser(started)
            /\ Apart(UsersOf(started), G) /\ UsersOf(started) \cup G \subseteq Elements(p)
            /\ Elements(pending') = Elements(p) \ (UsersOf(started) \cup G)
  <2>1. PICK e : e = pending'
    OBVIOUS
  <2>2. e = SubSeq(p, k + 1, n)
    BY <1>3, <2>1
  <2>3. /\ e \in Seq(Users) /\ Len(e) = n - k
        /\ Distinct(p) => Distinct(e) /\ Elements(e) = Elements(p) \ {p[i] : i \in 1..k}
    BY <1>4, <2>2, Suffix
  <2>4. {p[i] : i \in 1..k} = UsersOf(started) \cup G
    BY <1>11
  <2>5. Distinct(p) => OneUser(started)
    BY <1>7 DEF OneUser
  <2>6. Distinct(p) => Apart(UsersOf(started), G)
    <3> SUFFICES ASSUME Distinct(p), NEW x \in UsersOf(started), x \in G PROVE FALSE
      BY DEF Apart
    <3> HIDE DEF started, G, good
    <3>1. PICK i \in good : x = pair(i).user
      BY <1>8
    <3>2. PICK j \in failed : x = pair(j).user
      BY <1>8
    <3> QED BY <1>7, <1>8, <3>1, <3>2 DEF Apart
  <2>7. \A i \in 1..k : p[i] \in Elements(p)
    BY <1>1, <1>5 DEF Elements
  <2>8. \A i \in 1..k : pair(i).user \in Elements(p)
    BY <1>5, <2>7
  <2> HIDE DEF started, G, good, n
  <2>9. UsersOf(started) \cup G \subseteq Elements(p)
    BY <1>8, <2>8
  <2> QED BY <2>1, <2>3, <2>4, <2>5, <2>6, <2>9
<1>13. /\ IsFiniteSet(started) /\ Cardinality(started) = Cardinality(good)
       /\ IsFiniteSet(good) /\ Cardinality(good) \in Nat
  <2>1. IsFiniteSet(1..k)
    BY <1>4, FS_Interval
  <2>2. IsFiniteSet(good)
    BY <2>1, FS_Difference
  <2> DEFINE f == [i \in good |-> pair(i)]
  <2>3. f \in Bijection(good, started)
    <3>1. f \in [good -> started]
      OBVIOUS
    <3>2. \A i, j \in good : f[i] = f[j] => i = j
      BY <1>6
    <3>3. \A s \in started : \E i \in good : f[i] = s
      OBVIOUS
    <3> QED BY <3>1, <3>2, <3>3 DEF Bijection, Injection, Surjection, IsInjective
  <2>4. ExistsBijection(good, started)
    BY <2>3 DEF ExistsBijection
  <2> HIDE DEF started, good
  <2> QED BY <2>2, <2>4, FS_Bijection, FS_CardinalityType
<1>14. /\ starting' = starting \cup started
       /\ IsFiniteSet(starting') /\ Cardinality(starting) \in Nat
       /\ Cardinality(starting') = Cardinality(starting) + Cardinality(good)
  <2>1. starting' = starting \cup started
    BY <1>3
  <2>2. starting \cap started = {}
    BY <1>9 DEF Apart, WorkOf
  <2> HIDE DEF started
  <2>3. PICK e : e = starting'
    OBVIOUS
  <2>4. /\ IsFiniteSet(e) /\ Cardinality(starting) \in Nat
        /\ Cardinality(e) = Cardinality(starting) + Cardinality(started) - Cardinality({})
    <3>1. /\ IsFiniteSet(starting \cup started)
          /\ Cardinality(starting \cup started)
               = Cardinality(starting) + Cardinality(started) - Cardinality(starting \cap started)
      BY <1>13, FS_Union
    <3> QED BY <2>1, <2>2, <2>3, <3>1, FS_CardinalityType
  <2> QED BY <1>13, <2>1, <2>3, <2>4, FS_EmptySet
<1>15. /\ Cardinality(good) <= k
       /\ Cardinality(starting) + Cardinality(good) <= MAX_PENDING
  <2>1. Cardinality(1..k) = k /\ IsFiniteSet(1..k)
    BY <1>4, FS_Interval
  <2>2. Cardinality(good) <= k
    BY <2>1, FS_Subset
  <2>3. CASE k = 0
    BY <1>4, <1>13, <1>14, <2>2, <2>3, TunnelAssumption
  <2>4. CASE k > 0
    <3> DEFINE most == (1..(k - 1)) \ failed
    <3>1. Cardinality(starting) + Cardinality(most) < MAX_PENDING /\ k - 1 \in Nat
      <4>1. k - 1 \in 0..(k - 1)
        BY <1>4, <2>4
      <4>2. ~(Cardinality(starting) + Cardinality(most) >= MAX_PENDING)
        BY <1>3, <4>1
      <4>3. IsFiniteSet(1..(k - 1))
        BY <1>4, FS_Interval
      <4>4. Cardinality(most) \in Nat
        BY <4>3, FS_Difference, FS_CardinalityType
      <4> QED BY <1>4, <1>14, <2>4, <4>2, <4>4, TunnelAssumption
    <3>2. IsFiniteSet(most) /\ Cardinality(most) \in Nat
      <4>1. IsFiniteSet(1..(k - 1))
        BY <1>4, FS_Interval
      <4> QED BY <4>1, FS_Difference, FS_CardinalityType
    <3>3. good \subseteq most \cup {k}
      BY <1>4
    <3>4. /\ IsFiniteSet(most \cup {k})
          /\ Cardinality(most \cup {k}) = IF k \in most THEN Cardinality(most) ELSE Cardinality(most) + 1
      BY <3>2, FS_AddElement
    <3>5. Cardinality(good) <= Cardinality(most \cup {k})
      BY <3>3, <3>4, FS_Subset
    <3> HIDE DEF most
    <3> QED BY <1>13, <1>14, <2>2, <3>1, <3>2, <3>4, <3>5, TunnelAssumption
  <2> QED BY <1>4, <2>3, <2>4
<1>16. k = n \/ k = l \/ Cardinality(starting') >= MAX_PENDING
  BY <1>3, <1>14
<1>17. openS' = openS \ F
  BY <1>3
<1>18. /\ toClient' \in [Conns -> Seq(Users)]
       /\ \A c \in Conns : c \notin WorkOf(started) => toClient'[c] = toClient[c]
       /\ \A s \in started : toClient'[s.work] = toClient[s.work] \o <<s.user>>
  <2> DEFINE add(c) == IF c \in WorkOf(started)
                       THEN <<(CHOOSE s \in started : s.work = c).user>> ELSE <<>>
  <2>1. toClient' = [c \in Conns |-> toClient[c] \o add(c)]
    BY <1>3
  <2>2. ASSUME NEW s \in started PROVE add(s.work) = <<s.user>> /\ s.work \in Conns
    <3>1. \E t \in started : t.work = s.work
      OBVIOUS
    <3>2. (CHOOSE t \in started : t.work = s.work) = s
      BY <1>9, <3>1 DEF OneWork
    <3>3. s.work \in WorkOf(started)
      BY DEF WorkOf
    <3> QED BY <1>9, <3>2, <3>3, StreamFields
  <2>3. ASSUME NEW c \in Conns, c \notin WorkOf(started) PROVE add(c) = <<>>
    BY <2>3
  <2> HIDE DEF add
  <2>4. ASSUME NEW c \in Conns PROVE add(c) \in Seq(Users)
    <3>1. CASE c \in WorkOf(started)
      <4>1. PICK s \in started : c = s.work
        BY <3>1 DEF WorkOf
      <4>2. s.user \in Users
        BY <1>9, StreamFields
      <4>3. <<s.user>> \in Seq(Users)
        BY <4>2, SingletonSeq
      <4> QED BY <2>2, <4>1, <4>3
    <3>2. CASE c \notin WorkOf(started)
      BY <2>3, <3>2, EmptySeq
    <3> QED BY <3>1, <3>2
  <2>5. ASSUME NEW c \in Conns
        PROVE  toClient[c] \o add(c) \in Seq(Users) /\ toClient[c] \o <<>> = toClient[c]
    BY <2>4, ConcatProperties, ConcatEmptySeq
  <2> QED BY <2>1, <2>2, <2>3, <2>5
<1> HIDE DEF started, F, G, good
<1>19. Pairing(p, w, started, F, G, k)
  <2>1. Cardinality(starting') <= MAX_PENDING /\ Cardinality(starting') <= Cardinality(starting) + k
    BY <1>4, <1>13, <1>14, <1>15
  <2> QED BY <1>4, <1>9, <1>10, <1>12, <1>14, <1>16, <1>17, <1>18, <1>11, <2>1 DEF Pairing
<1> QED BY <1>19
-----------------------------------------------------------------------------
(***************************************************************************)
(* add_work.                                                               *)
(***************************************************************************)

Messages == [kind : {"STREAM_READY", "STREAM_FAILED"}, user : Users]

\* The client makes the k connections new, keeps those of idling in its pool
\* and closes its end of closing.
Added(idling, closing, new, k) ==
    /\ k \in Nat /\ new \subseteq Conns
    /\ \A w \in new : w > made /\ w <= made'
    /\ made' \in 0..MaxConns /\ made' = made + k
    /\ pool' = idling \cup new /\ Cardinality(pool') <= MAX_STREAMS
    /\ backlog' \in Seq(Conns) /\ Len(backlog') = Len(backlog) + k
    /\ Distinct(backlog') /\ Elements(backlog') = Elements(backlog) \cup new
    /\ openC' = (openC \ closing) \cup new /\ openS' = openS \cup new
    /\ faults' \in 0..MaxFaults

LEMMA Adds ==
    ASSUME Inv, NEW idling \in SUBSET Conns, NEW k \in 0..MAX_STREAMS, NEW fails \in 0..1,
           NEW closing, add_work(idling, k, fails, closing)
    PROVE  \E new : Added(idling, closing, new, k)
<1> DEFINE new == (made + 1)..(made + k)
           a == [i \in 1..k |-> made + i]
<1>1. /\ Cardinality(idling) + k <= MAX_STREAMS /\ made + k <= MaxConns
      /\ fails <= faults /\ faults' = faults - fails
      /\ made' = made + k
      /\ pool' = idling \cup new
      /\ backlog' = backlog \o a
      /\ openC' = (openC \ closing) \cup new
      /\ openS' = openS \cup new
  BY DEF add_work
<1>2. /\ made \in Nat /\ made \in 0..MaxConns /\ k \in Nat /\ MAX_STREAMS \in Nat /\ MaxConns \in Nat
      /\ faults \in 0..MaxFaults /\ MaxFaults \in Nat /\ backlog \in Seq(Conns)
  BY TunnelAssumption DEF Inv, TypeOK
<1>3. \A x \in Elements(backlog) : x <= made
  BY DEF Inv, Ends, ServerSide, AtServer, Numbered
<1>4. /\ backlog \o a \in Seq(Conns) /\ Len(backlog \o a) = Len(backlog) + k
      /\ Elements(backlog \o a) = Elements(backlog) \cup new
      /\ Distinct(backlog) => Distinct(backlog \o a)
  <2>1. made + k <= MaxConns
    BY <1>1
  <2>2. \A i \in 1..k : made + i \in Conns
    BY <1>2, <2>1 DEF Conns
  <2>3. /\ a \in [1..k -> Conns] /\ \A i \in 1..k : a[i] = made + i
        /\ new = (made + 1)..(made + k)
    BY <2>2
  <2> HIDE DEF a, new
  <2>4. /\ backlog \in Seq(Conns) /\ made \in Nat /\ k \in Nat
    BY <1>2
  <2>5. /\ backlog \o a \in Seq(Conns) /\ Len(backlog \o a) = Len(backlog) + k
        /\ \A x : x \in Elements(backlog \o a) <=> x \in Elements(backlog) \/ x \in new
        /\ Distinct(backlog) => Distinct(backlog \o a)
    BY <1>3, <2>1, <2>3, <2>4, NewElements
  <2> QED BY <2>5
<1>5. Distinct(backlog)
  BY DEF Inv, Ends, ServerSide
<1>6. /\ new \subseteq Conns /\ \A w \in new : w > made /\ w <= made + k
      /\ made + k \in 0..MaxConns /\ faults - fails \in 0..MaxFaults
  BY <1>1, <1>2 DEF Conns
<1>7. Cardinality(pool') <= MAX_STREAMS
  <2>1. IsFiniteSet(Conns)
    BY <1>2, FS_Interval DEF Conns
  <2>2. IsFiniteSet(idling) /\ Cardinality(idling) \in Nat
    BY <2>1, FS_Subset, FS_CardinalityType
  <2>3. /\ IsFiniteSet(new)
        /\ Cardinality(new) = IF made + 1 > made + k THEN 0 ELSE (made + k) - (made + 1) + 1
    <3>1. made + 1 \in Int /\ made + k \in Int
      BY <1>2
    <3> QED BY <3>1, FS_Interval
  <2> HIDE DEF new
  <2>4. Cardinality(new) = k
    BY <1>2, <2>3
  <2>5. /\ Cardinality(idling \cup new)
             = Cardinality(idling) + Cardinality(new) - Cardinality(idling \cap new)
        /\ Cardinality(idling \cap new) \in Nat
    BY <2>2, <2>3, FS_Union, FS_Intersection, FS_CardinalityType
  <2>6. Cardinality(idling \cup new) <= MAX_STREAMS
    BY <1>1, <1>2, <2>2, <2>4, <2>5
  <2> QED BY <1>1, <2>6
<1> HIDE DEF new, a
<1>8. Added(idling, closing, new, k)
  BY <1>1, <1>2, <1>4, <1>5, <1>6, <1>7 DEF Added
<1> QED BY <1>8

\* New connections disturb nothing, as long as the client moves no
\* connection but the one it dials for.
LEMMA NewConnections ==
    ASSUME Inv, NEW idling, NEW closing, NEW new, NEW k, Added(idling, closing, new, k),
           UNCHANGED <<incoming, idle, starting, srelays, toClient>>,
           \A w \in Conns : w \notin WorkOf(dialing) => toServer'[w] = toServer[w],
           WorkOf(dialing') \subseteq WorkOf(dialing),
           WorkOf(crelays') \subseteq WorkOf(dialing) \cup WorkOf(crelays)
    PROVE  /\ ServerSide' /\ Numbered' /\ Fresh'
           /\ \A w \in new : w \notin openC /\ w \notin openS
<1> USE DEF Inv, Ends
<1>1. /\ new \subseteq Conns /\ made' = made + k /\ k \in Nat /\ made \in Nat
      /\ \A w \in new : w > made /\ w <= made'
      /\ openC' = (openC \ closing) \cup new /\ openS' = openS \cup new
      /\ Distinct(backlog') /\ Elements(backlog') = Elements(backlog) \cup new
  BY DEF Added, TypeOK
<1>2. \A w \in Conns : w \in Nat
  BY TunnelAssumption DEF Conns
<1>3. openC \subseteq Conns /\ openS \subseteq Conns
  BY DEF TypeOK
<1>4. \A w \in new : w \notin openC /\ w \notin openS
  BY <1>1, <1>2, <1>3 DEF Numbered
<1>5. AtServer(Elements(backlog), incoming, Elements(idle), WorkOf(starting), WorkOf(srelays), openS)
  BY DEF ServerSide
<1>6. AtServer(Elements(backlog) \cup new, incoming, Elements(idle), WorkOf(starting),
               WorkOf(srelays), openS \cup new)
  BY <1>4, <1>5 DEF AtServer, Apart
<1>7. ServerSide'
  BY <1>1, <1>6 DEF ServerSide
<1>8. AtClient(pool, WorkOf(dialing), WorkOf(crelays), openC)
  BY DEF ClientSide
<1>9. WorkOf(dialing) \subseteq openC /\ WorkOf(crelays) \subseteq openC
  BY <1>8 DEF AtClient
<1>10. Numbered'
  <2>1. \A w \in openC' \cup openS' : w <= made'
    BY <1>1, <1>2, <1>3 DEF Numbered
  <2>2. ASSUME NEW w \in Conns, w > made' PROVE toClient'[w] = <<>> /\ toServer'[w] = <<>>
    <3>1. w > made /\ w \notin openC
      BY <1>1, <1>2, <2>2 DEF Numbered
    <3> QED BY <1>9, <3>1 DEF Numbered
  <2> QED BY <2>1, <2>2 DEF Numbered
<1>11. Fresh'
  <2> SUFFICES ASSUME NEW w \in (Elements(backlog) \cup new) \cup incoming \cup Elements(idle)
               PROVE  /\ toClient'[w] = <<>> /\ toServer'[w] = <<>>
                      /\ w \notin WorkOf(dialing') /\ w \notin WorkOf(crelays')
    BY <1>1 DEF Fresh
  <2>1. CASE w \in new
    <3>1. w \notin openC /\ w \in Conns /\ w > made
      BY <1>1, <1>4, <2>1
    <3> QED BY <1>9, <3>1 DEF Numbered
  <2>2. CASE w \notin new
    <3>1. w \in Conns
      BY <1>3, <1>5, <2>2 DEF AtServer
    <3>2. /\ toClient[w] = <<>> /\ toServer[w] = <<>>
          /\ w \notin WorkOf(dialing) /\ w \notin WorkOf(crelays)
      BY <2>2 DEF Fresh
    <3> QED BY <3>1, <3>2
  <2> QED BY <2>1, <2>2
<1> QED BY <1>4, <1>7, <1>10, <1>11
-----------------------------------------------------------------------------
(***************************************************************************)
(* The initial state, and the client's steps.                              *)
(***************************************************************************)

LEMMA StartInv == Init => Inv
<1> SUFFICES ASSUME Init PROVE Inv
  OBVIOUS
<1> USE TunnelAssumption DEF Init
<1>1. <<>> \in Seq(Conns) /\ <<>> \in Seq(Users) /\ <<>> \in Seq(Messages) /\ Len(<<>>) = 0
  BY EmptySeq
<1>2. IsFiniteSet({}) /\ Cardinality({}) = 0
  BY FS_EmptySet
<1>3. toClient \in [Conns -> Seq(Users)] /\ toServer \in [Conns -> Seq(Messages)]
  BY <1>1
<1>4. TypeOK
  BY <1>1, <1>2, <1>3 DEF TypeOK, Messages
<1>5. Bounded
  BY <1>1, <1>2 DEF Bounded
<1>6. ServerSide
  BY EmptyElements, WorkOfNone DEF ServerSide, AtServer, Apart
<1>7. ClientSide
  BY WorkOfNone DEF ClientSide, AtClient, Apart
<1>8. Numbered
  BY DEF Numbered
<1>9. Fresh
  BY EmptyElements DEF Fresh
<1> QED BY <1>4, <1>5, <1>6, <1>7, <1>8, <1>9 DEF Inv, Ends, AllStarted, Relayed

\* What the invariant says of the connections of streams.
LEMMA Held ==
    ASSUME Inv
    PROVE  /\ \A s \in starting : s.work \in openS /\ s.work \in Conns
           /\ \A s \in srelays : s.work \in openS /\ s.work \in Conns
           /\ \A s \in dialing : s.work \in openC /\ s.work \in Conns
           /\ \A s \in crelays : s.work \in openC /\ s.work \in Conns
           /\ openC \subseteq Conns /\ openS \subseteq Conns /\ pool \subseteq openC
           /\ incoming \subseteq openS /\ Elements(idle) \subseteq openS
           /\ Elements(backlog) \subseteq openS
           /\ starting \subseteq Streams /\ srelays \subseteq Streams
           /\ dialing \subseteq Streams /\ crelays \subseteq Streams
           /\ IsFiniteSet(Conns)
<1>1. /\ openC \subseteq Conns /\ openS \subseteq Conns
      /\ starting \subseteq Streams /\ srelays \subseteq Streams
      /\ dialing \subseteq Streams /\ crelays \subseteq Streams
  BY DEF Inv, TypeOK
<1>2. \A s \in starting \cup srelays : s.work \in WorkOf(starting) \cup WorkOf(srelays)
  BY DEF WorkOf
<1>3. \A s \in dialing \cup crelays : s.work \in WorkOf(dialing) \cup WorkOf(crelays)
  BY DEF WorkOf
<1>4. /\ WorkOf(starting) \subseteq openS /\ WorkOf(srelays) \subseteq openS
      /\ incoming \subseteq openS /\ Elements(idle) \subseteq openS
      /\ Elements(backlog) \subseteq openS
  BY DEF Inv, Ends, ServerSide, AtServer
<1>5. WorkOf(dialing) \subseteq openC /\ WorkOf(crelays) \subseteq openC /\ pool \subseteq openC
  BY DEF Inv, Ends, ClientSide, AtClient
<1>6. IsFiniteSet(Conns)
  BY TunnelAssumption, FS_Interval DEF Conns
<1> QED BY <1>1, <1>2, <1>3, <1>4, <1>5, <1>6

\* Where a starting stream was, it still is.
LEMMA StartedSame ==
    ASSUME NEW s, Started(s), s.work \in openC' => s.work \in openC,
           toClient'[s.work] = toClient[s.work], toServer'[s.work] = toServer[s.work],
           s.work \in openC' /\ s.work \in pool => s.work \in pool',
           s.work \in openC' /\ s \in dialing => s \in dialing',
           s.work \in openC' /\ s \in crelays => s \in crelays'
    PROVE  Started(s)'
BY DEF Started

LEMMA ServerSame ==
    ASSUME ServerSide, UNCHANGED <<backlog, incoming, idle, starting, srelays, openS>>
    PROVE  ServerSide'
BY DEF ServerSide

LEMMA ClientSame ==
    ASSUME ClientSide, UNCHANGED <<client, pool, dialing, crelays, openC>>
    PROVE  ClientSide'
BY DEF ClientSide

LEMMA SmallerPool ==
    ASSUME NEW P \in SUBSET Conns, NEW Q \in SUBSET P, Cardinality(P) <= MAX_STREAMS
    PROVE  Cardinality(Q) <= MAX_STREAMS
<1>1. IsFiniteSet(P)
  <2>1. IsFiniteSet(Conns)
    BY TunnelAssumption, FS_Interval DEF Conns
  <2> QED BY <2>1, FS_Subset
<1>2. Cardinality(Q) <= Cardinality(P) /\ Cardinality(P) \in Nat /\ Cardinality(Q) \in Nat
  BY <1>1, FS_Subset, FS_CardinalityType
<1> QED BY <1>2, TunnelAssumption

LEMMA RegisteredInv == Inv /\ Registered => Inv'
<1> SUFFICES ASSUME Inv, Registered PROVE Inv'
  OBVIOUS
<1>1. /\ client = "registering" /\ client' = "running" /\ Fill({}, {})
      /\ UNCHANGED <<dialing, crelays, server, incoming, idle, pending, starting, srelays,
                     requests, toServer, toClient, broken, history>>
  BY DEF Registered
<1>2. PICK k \in 0..MAX_STREAMS, fails \in 0..1 : add_work({}, k, fails, {})
  BY <1>1 DEF Fill
<1>3. PICK new : Added({}, {}, new, k)
  BY <1>2, Adds
<1>4. ServerSide' /\ Numbered' /\ Fresh' /\ \A w \in new : w \notin openC /\ w \notin openS
  BY <1>1, <1>3, NewConnections
<1>5. pool = {} /\ AtClient(pool, WorkOf(dialing), WorkOf(crelays), openC)
  BY <1>1 DEF Inv, Ends, ClientSide
<1>6. pool' = new /\ openC' = openC \cup new /\ new \subseteq Conns
  BY <1>3 DEF Added
<1>7. AtClient(new, WorkOf(dialing), WorkOf(crelays), openC \cup new)
  BY <1>4, <1>5 DEF AtClient, Apart
<1>8. ClientSide'
  BY <1>1, <1>6, <1>7 DEF Inv, Ends, ClientSide
<1>9. AllStarted'
  <2> SUFFICES ASSUME NEW s \in starting PROVE Started(s)'
    BY <1>1 DEF AllStarted
  <2>1. Started(s) /\ s.work \notin new
    BY <1>4, Held DEF Inv, Ends, AllStarted
  <2> QED BY <1>1, <1>5, <1>6, <2>1, StartedSame
<1>10. Relayed'
  BY <1>1, <1>4, <1>6, Held DEF Inv, Ends, Relayed
<1>11. TypeOK'
  <2>1. /\ Cardinality(pool') <= MAX_STREAMS /\ made' \in 0..MaxConns
        /\ backlog' \in Seq(Conns) /\ faults' \in 0..MaxFaults /\ openS' = openS \cup new
    BY <1>3 DEF Added
  <2> QED BY <1>1, <1>6, <2>1 DEF Inv, TypeOK, history
<1>12. Bounded'
  BY <1>1 DEF Inv, Bounded
<1> QED BY <1>4, <1>8, <1>9, <1>10, <1>11, <1>12 DEF Inv, Ends

LEMMA RequestInv == Inv /\ Request => Inv'
<1> SUFFICES ASSUME Inv, Request PROVE Inv'
  OBVIOUS
<1>1. /\ requests > 0 /\ requests' = requests - 1 /\ client = "running"
      /\ UNCHANGED <<client, dialing, crelays, server, incoming, idle, pending, starting,
                     srelays, toServer, toClient, broken, seen, dialled>>
      /\ lost' \in {lost, lost + 1}
  BY DEF Request, ready
<1>2. PICK k \in 0..1, fails \in 0..1 : add_work(pool, k, fails, {})
  BY DEF Request
<1>3. PICK new : Added(pool, {}, new, k)
  <2>1. pool \in SUBSET Conns
    BY DEF Inv, TypeOK
  <2>2. k \in 0..MAX_STREAMS
    BY TunnelAssumption
  <2> QED BY <1>2, <2>1, <2>2, Adds
<1>4. ServerSide' /\ Numbered' /\ Fresh' /\ \A w \in new : w \notin openC /\ w \notin openS
  BY <1>1, <1>3, NewConnections
<1>5. AtClient(pool, WorkOf(dialing), WorkOf(crelays), openC)
  BY <1>1 DEF Inv, Ends, ClientSide
<1>6. pool' = pool \cup new /\ openC' = openC \cup new /\ new \subseteq Conns
  BY <1>3 DEF Added
<1>7. AtClient(pool \cup new, WorkOf(dialing), WorkOf(crelays), openC \cup new)
  BY <1>4, <1>5 DEF AtClient, Apart
<1>8. ClientSide'
  BY <1>1, <1>6, <1>7 DEF Inv, Ends, ClientSide
<1>9. AllStarted'
  <2> SUFFICES ASSUME NEW s \in starting PROVE Started(s)'
    BY <1>1 DEF AllStarted
  <2>1. Started(s) /\ s.work \notin new
    BY <1>4, Held DEF Inv, Ends, AllStarted
  <2> QED BY <1>1, <1>6, <2>1, StartedSame
<1>10. Relayed'
  BY <1>1, <1>4, <1>6, Held DEF Inv, Ends, Relayed
<1>11. TypeOK'
  <2>1. /\ Cardinality(pool') <= MAX_STREAMS /\ made' \in 0..MaxConns
        /\ backlog' \in Seq(Conns) /\ faults' \in 0..MaxFaults /\ openS' = openS \cup new
    BY <1>3 DEF Added
  <2>2. requests' \in Nat /\ lost' \in Nat
    BY <1>1 DEF Inv, TypeOK
  <2> QED BY <1>1, <1>6, <2>1, <2>2 DEF Inv, TypeOK
<1>12. Bounded'
  BY <1>1 DEF Inv, Bounded
<1> QED BY <1>4, <1>8, <1>9, <1>10, <1>11, <1>12 DEF Inv, Ends

LEMMA RequestDroppedInv == Inv /\ RequestDropped => Inv'
<1> SUFFICES ASSUME Inv, RequestDropped PROVE Inv'
  OBVIOUS
<1>1. /\ requests > 0 /\ requests' = requests - 1 /\ lost' = lost + 1
      /\ UNCHANGED <<client, pool, dialing, crelays, made, server, backlog, incoming, idle,
                     pending, starting, srelays, toServer, toClient, openC, openS, broken,
                     faults, seen, dialled>>
  BY DEF RequestDropped, cvars, svars
<1>2. TypeOK'
  <2>1. requests' \in Nat /\ lost' \in Nat
    BY <1>1 DEF Inv, TypeOK
  <2> QED BY <1>1, <2>1 DEF Inv, TypeOK
<1>3. Bounded'
  BY <1>1 DEF Inv, Bounded
<1>4. ServerSide' /\ ClientSide'
  BY <1>1, ServerSame, ClientSame DEF Inv, Ends
<1>5. Numbered' /\ Fresh' /\ AllStarted' /\ Relayed'
  BY <1>1 DEF Inv, Ends, Numbered, Fresh, AllStarted, Started, Relayed
<1> QED BY <1>2, <1>3, <1>4, <1>5 DEF Inv, Ends

LEMMA BreakInv == ASSUME NEW w \in Conns PROVE Inv /\ Break(w) => Inv'
<1> SUFFICES ASSUME Inv, Break(w) PROVE Inv'
  OBVIOUS
<1>1. /\ faults > 0 /\ faults' = faults - 1 /\ broken' = broken \cup {w}
      /\ UNCHANGED <<client, pool, dialing, crelays, made, server, backlog, incoming, idle,
                     pending, starting, srelays, requests, toServer, toClient, openC, openS,
                     seen, dialled, lost>>
  BY DEF Break, cvars, svars, history
<1>2. TypeOK'
  <2>1. faults' \in 0..MaxFaults /\ broken' \subseteq Conns
    BY <1>1, TunnelAssumption DEF Inv, TypeOK
  <2> QED BY <1>1, <2>1 DEF Inv, TypeOK
<1>3. Bounded'
  BY <1>1 DEF Inv, Bounded
<1>4. ServerSide' /\ ClientSide'
  BY <1>1, ServerSame, ClientSame DEF Inv, Ends
<1>5. Numbered' /\ Fresh' /\ AllStarted' /\ Relayed'
  BY <1>1 DEF Inv, Ends, Numbered, Fresh, AllStarted, Started, Relayed
<1> QED BY <1>2, <1>3, <1>4, <1>5 DEF Inv, Ends

\* The client closes its ends of gone and holds the others where they were.
ClientDrops(gone) ==
    /\ pool' = pool \ gone /\ crelays' = {s \in crelays : s.work \notin gone}
    /\ openC' = openC \ gone
    /\ client' = client \/ client' = "ended"
    /\ UNCHANGED <<dialing, made, server, backlog, incoming, idle, pending, starting, srelays,
                   requests, toServer, toClient, openS, broken, faults, seen, dialled, lost>>

LEMMA ClientDropsInv ==
    ASSUME Inv, NEW gone, Apart(gone, WorkOf(dialing)), ClientDrops(gone)
    PROVE  Inv'
<1> USE DEF ClientDrops
<1>1. TypeOK'
  <2>1. Cardinality(pool') <= MAX_STREAMS
    <3>1. pool \in SUBSET Conns /\ Cardinality(pool) <= MAX_STREAMS
      BY DEF Inv, TypeOK
    <3>2. Cardinality(pool \ gone) <= MAX_STREAMS
      BY <3>1, SmallerPool
    <3> QED BY <3>2
  <2>2. Cardinality(crelays') <= MAX_STREAMS
    <3>1. IsFiniteSet(crelays) /\ Cardinality(crelays) <= MAX_STREAMS
      BY DEF Inv, TypeOK, Bounded
    <3>2. crelays' \in SUBSET crelays
      OBVIOUS
    <3>3. /\ Cardinality(crelays') <= Cardinality(crelays) /\ IsFiniteSet(crelays')
      BY <3>1, <3>2, FS_Subset
    <3>4. Cardinality(crelays') \in Nat /\ Cardinality(crelays) \in Nat
      BY <3>1, <3>3, FS_CardinalityType
    <3> QED BY <3>1, <3>3, <3>4, TunnelAssumption
  <2> QED BY <2>1, <2>2 DEF Inv, TypeOK
<1>2. Bounded'
  <2>1. IsFiniteSet(crelays')
    BY FS_Subset DEF Inv, Bounded
  <2> QED BY <2>1 DEF Inv, Bounded
<1>3. ServerSide'
  BY ServerSame DEF Inv, Ends
<1>4. WorkOf(crelays') = WorkOf(crelays) \ gone /\ OneWork(crelays')
  BY DEF Inv, Ends, ClientSide, WorkOf, OneWork
<1>5. AtClient(pool, WorkOf(dialing), WorkOf(crelays), openC)
  BY DEF Inv, Ends, ClientSide
<1>6. AtClient(pool \ gone, WorkOf(dialing), WorkOf(crelays) \ gone, openC \ gone)
  BY <1>5 DEF AtClient, Apart
<1>7. ClientSide'
  BY <1>4, <1>6 DEF Inv, Ends, ClientSide
<1>8. Numbered' /\ Fresh'
  BY <1>4 DEF Inv, Ends, Numbered, Fresh
<1>9. AllStarted'
  <2> SUFFICES ASSUME NEW s \in starting PROVE Started(s)'
    BY DEF AllStarted
  <2>1. Started(s)
    BY DEF Inv, Ends, AllStarted
  <2> QED BY <2>1, StartedSame
<1>10. Relayed'
  BY DEF Inv, Ends, Relayed
<1> QED BY <1>1, <1>2, <1>3, <1>7, <1>8, <1>9, <1>10 DEF Inv, Ends

LEMMA IdleLostInv == ASSUME NEW w \in Conns PROVE Inv /\ IdleLost(w) => Inv'
<1> SUFFICES ASSUME Inv, IdleLost(w) PROVE Inv'
  OBVIOUS
<1>1. AtClient(pool, WorkOf(dialing), WorkOf(crelays), openC) /\ w \in pool
  BY DEF Inv, Ends, ClientSide, IdleLost
<1>2. \A s \in crelays : s.work # w
  BY <1>1 DEF AtClient, Apart, WorkOf
<1>3. Apart({w}, WorkOf(dialing))
  BY <1>1 DEF AtClient, Apart
<1>4. ClientDrops({w})
  BY <1>2 DEF IdleLost, ClientDrops, svars, history
<1> QED BY <1>3, <1>4, ClientDropsInv

LEMMA ClientRelayEndsInv == ASSUME NEW s PROVE Inv /\ ClientRelayEnds(s) => Inv'
<1> SUFFICES ASSUME Inv, ClientRelayEnds(s) PROVE Inv'
  OBVIOUS
<1>1. /\ AtClient(pool, WorkOf(dialing), WorkOf(crelays), openC) /\ OneWork(crelays)
      /\ s \in crelays
  BY DEF Inv, Ends, ClientSide, ClientRelayEnds
<1>2. s.work \in WorkOf(crelays)
  BY <1>1 DEF WorkOf
<1>3. {t \in crelays : t.work \notin {s.work}} = crelays \ {s}
  BY <1>1 DEF OneWork
<1>4. Apart({s.work}, WorkOf(dialing)) /\ pool \ {s.work} = pool
  BY <1>1, <1>2 DEF AtClient, Apart
<1>5. ClientDrops({s.work})
  BY <1>3, <1>4 DEF ClientRelayEnds, ClientDrops, svars, history
<1> QED BY <1>4, <1>5, ClientDropsInv

LEMMA ClientEndsInv == Inv /\ ClientEnds => Inv'
<1> SUFFICES ASSUME Inv, ClientEnds PROVE Inv'
  OBVIOUS
<1>1. AtClient(pool, WorkOf(dialing), WorkOf(crelays), openC) /\ dialing = {}
  BY DEF Inv, Ends, ClientSide, ClientEnds
<1>2. Apart(openC, WorkOf(dialing)) /\ pool \ openC = {}
  BY <1>1 DEF AtClient, Apart, WorkOf
<1>3. {s \in crelays : s.work \notin openC} = {}
  BY Held
<1>4. ClientDrops(openC)
  BY <1>2, <1>3 DEF ClientEnds, ClientDrops, svars, history
<1> QED BY <1>2, <1>4, ClientDropsInv

LEMMA StartStreamInv == ASSUME NEW w \in Conns PROVE Inv /\ StartStream(w) => Inv'
<1> SUFFICES ASSUME Inv, StartStream(w) PROVE Inv'
  OBVIOUS
<1>1. /\ client = "running" /\ dialing = {} /\ w \in pool /\ toClient[w] # <<>>
      /\ pool' = pool \ {w}
      /\ dialing' = {Stream(Head(toClient[w]), w)}
      /\ toClient' = [toClient EXCEPT ![w] = Tail(@)]
      /\ UNCHANGED <<client, crelays, made, server, backlog, incoming, idle, pending, starting,
                     srelays, requests, toServer, openC, openS, broken, faults, seen, dialled,
                     lost>>
  BY DEF StartStream, ready, svars, history
<1>2. PICK s : s = Stream(Head(toClient[w]), w)
  OBVIOUS
<1>3. /\ toClient \in [Conns -> Seq(Users)] /\ Head(toClient[w]) \in Users
      /\ Tail(toClient[w]) \in Seq(Users)
  <2>1. toClient \in [Conns -> Seq(Users)]
    BY DEF Inv, TypeOK
  <2>2. toClient[w] \in Seq(Users)
    BY <2>1
  <2> QED BY <1>1, <2>1, <2>2, HeadTail
<1>4. s \in Streams /\ s.user = Head(toClient[w]) /\ s.work = w
  BY <1>2, <1>3, StreamFields
<1>5. /\ toClient' \in [Conns -> Seq(Users)] /\ toClient'[w] = Tail(toClient[w])
      /\ \A v \in Conns : v # w => toClient'[v] = toClient[v]
  BY <1>1, <1>3
<1>6. dialing' = {s}
  BY <1>1, <1>2
<1>7. TypeOK'
  <2>1. Cardinality(pool') <= MAX_STREAMS
    <3>1. pool \in SUBSET Conns /\ Cardinality(pool) <= MAX_STREAMS
      BY DEF Inv, TypeOK
    <3>2. Cardinality(pool \ {w}) <= MAX_STREAMS
      BY <3>1, SmallerPool
    <3> QED BY <1>1, <3>2
  <2>2. Cardinality(dialing') <= 1
    <3>1. Cardinality({s}) = 1
      BY FS_Singleton
    <3> QED BY <1>6, <3>1
  <2> QED BY <1>1, <1>4, <1>5, <1>6, <2>1, <2>2 DEF Inv, TypeOK
<1>8. Bounded'
  BY <1>1 DEF Inv, Bounded
<1>9. ServerSide'
  BY <1>1, ServerSame DEF Inv, Ends
<1>10. AtClient(pool, {}, WorkOf(crelays), openC)
  BY <1>1, WorkOfNone DEF Inv, Ends, ClientSide
<1>11. AtClient(pool \ {w}, {w}, WorkOf(crelays), openC)
  BY <1>1, <1>10 DEF AtClient, Apart
<1>12. WorkOf(dialing') = {w} /\ OneWork(dialing')
  BY <1>4, <1>6, WorkOfOne
<1>13. ClientSide'
  BY <1>1, <1>6, <1>11, <1>12 DEF Inv, Ends, ClientSide
<1>14. w \in openC /\ w \notin WorkOf(crelays)
  BY <1>1, <1>10 DEF AtClient, Apart
<1>15. Numbered'
  <2>1. ~(w > made)
    BY <1>14, TunnelAssumption DEF Inv, TypeOK, Ends, Numbered, Conns
  <2> QED BY <1>1, <1>5, <2>1 DEF Inv, Ends, Numbered
<1>16. Fresh'
  <2> SUFFICES ASSUME NEW v \in Elements(backlog) \cup incoming \cup Elements(idle)
               PROVE  /\ toClient'[v] = <<>> /\ toServer[v] = <<>>
                      /\ v \notin WorkOf(dialing') /\ v \notin WorkOf(crelays)
    BY <1>1 DEF Fresh
  <2>1. /\ toClient[v] = <<>> /\ toServer[v] = <<>> /\ v \notin WorkOf(crelays)
        /\ v \in Conns
    BY Held DEF Inv, Ends, Fresh
  <2> QED BY <1>1, <1>5, <1>12, <2>1
<1>17. AllStarted'
  <2> SUFFICES ASSUME NEW t \in starting PROVE Started(t)'
    BY <1>1 DEF AllStarted
  <2>1. Started(t) /\ t.work \in Conns /\ t \in Streams
    BY Held DEF Inv, Ends, AllStarted
  <2>2. CASE t.work = w
    <3>1. t \notin crelays
      BY <1>14, <2>2 DEF WorkOf
    <3>2. toClient[w] = <<t.user>> /\ toServer[w] = <<>>
      BY <1>1, <1>14, <2>1, <2>2, <3>1 DEF Started
    <3>3. Head(toClient[w]) = t.user /\ Tail(toClient[w]) = <<>>
      BY <2>1, <3>2, StreamFields, SingletonSeq
    <3>4. t = s
      BY <1>2, <2>1, <2>2, <3>3, StreamFields
    <3> QED BY <1>1, <1>5, <1>6, <2>2, <3>2, <3>3, <3>4 DEF Started
  <2>3. CASE t.work # w
    BY <1>1, <1>5, <2>1, <2>3, StartedSame
  <2> QED BY <2>2, <2>3
<1>18. Relayed'
  BY <1>1 DEF Inv, Ends, Relayed
<1> QED BY <1>7, <1>8, <1>9, <1>13, <1>15, <1>16, <1>17, <1>18 DEF Inv, Ends

\* The answer m goes to the server, and the connection of s is kept in the
\* relays or closed.
LEMMA DialEndsInv ==
    ASSUME Inv, NEW s \in dialing, NEW m \in Seq(Messages), NEW R,
           R = crelays \/ (R = crelays \cup {s} /\ m = Message("STREAM_READY", s)),
           R # crelays => Cardinality(crelays) < MAX_STREAMS,
           DialEnds(s, m, R), dialled' \subseteq Users
    PROVE  Inv'
<1>1. /\ dialing' = {} /\ crelays' = R
      /\ toServer' = [toServer EXCEPT ![s.work] = @ \o m]
      /\ UNCHANGED <<client, server, incoming, idle, pending, starting, srelays, requests,
                     toClient, broken, seen, lost>>
  BY DEF DialEnds
<1>2. /\ s \in Streams /\ s.work \in openC /\ s.work \in Conns /\ s.work \in WorkOf(dialing)
      /\ dialing = {s} /\ s.work \notin WorkOf(crelays) /\ s.work \notin pool
      /\ WorkOf(dialing) = {s.work}
  <2>1. s \in Streams /\ s.work \in openC /\ s.work \in Conns
    BY Held
  <2>2. dialing = {s}
    BY DEF Inv, Ends, ClientSide
  <2>3. WorkOf(dialing) = {s.work}
    BY <2>2, WorkOfOne
  <2> QED BY <2>1, <2>2, <2>3 DEF Inv, Ends, ClientSide, AtClient, Apart
<1>3. s \notin crelays
  BY <1>2 DEF WorkOf
<1> DEFINE closing == IF s \in R THEN {} ELSE {s.work}
<1>4. PICK k \in 0..MAX_STREAMS, fails \in 0..1 : add_work(pool, k, fails, closing)
  BY DEF DialEnds, Fill
<1>5. PICK new : Added(pool, closing, new, k)
  <2>1. pool \in SUBSET Conns
    BY DEF Inv, TypeOK
  <2> HIDE DEF closing
  <2> QED BY <1>4, <2>1, Adds
<1>6. /\ WorkOf(dialing') = {} /\ OneWork(dialing')
      /\ WorkOf(crelays') = (IF s \in R THEN WorkOf(crelays) \cup {s.work} ELSE WorkOf(crelays))
      /\ OneWork(crelays')
  <2>1. WorkOf(dialing') = {} /\ OneWork(dialing')
    BY <1>1, WorkOfNone
  <2>2. OneWork(crelays)
    BY DEF Inv, Ends, ClientSide
  <2>3. CASE R = crelays
    BY <1>1, <1>3, <2>1, <2>2, <2>3
  <2>4. CASE R = crelays \cup {s}
    <3>1. Apart(WorkOf(crelays), WorkOf({s}))
      BY <1>2, WorkOfOne DEF Apart
    <3>2. OneWork(crelays \cup {s})
      BY <2>2, <3>1, WorkOfOne, OneWorkJoined
    <3> QED BY <1>1, <2>1, <2>4, <3>2, WorkAdded
  <2> QED BY <2>3, <2>4
<1>7. /\ toServer \in [Conns -> Seq(Messages)] /\ toServer' \in [Conns -> Seq(Messages)]
      /\ toServer'[s.work] = toServer[s.work] \o m
      /\ \A w \in Conns : w # s.work => toServer'[w] = toServer[w]
  <2>1. toServer \in [Conns -> Seq(Messages)]
    BY DEF Inv, TypeOK, Messages
  <2>2. toServer[s.work] \o m \in Seq(Messages)
    BY <1>2, <2>1, ConcatProperties
  <2> QED BY <1>1, <1>2, <2>1, <2>2
<1>8. ServerSide' /\ Numbered' /\ Fresh' /\ \A w \in new : w \notin openC /\ w \notin openS
  <2>1. WorkOf(dialing') \subseteq WorkOf(dialing)
        /\ WorkOf(crelays') \subseteq WorkOf(dialing) \cup WorkOf(crelays)
    BY <1>2, <1>6
  <2>2. \A w \in Conns : w \notin WorkOf(dialing) => toServer'[w] = toServer[w]
    BY <1>2, <1>7
  <2> HIDE DEF closing
  <2> QED BY <1>1, <1>5, <2>1, <2>2, NewConnections
<1>9. AtClient(pool, {s.work}, WorkOf(crelays), openC)
  BY <1>2 DEF Inv, Ends, ClientSide
<1>10. pool' = pool \cup new /\ openC' = (openC \ closing) \cup new /\ new \subseteq Conns
  BY <1>5 DEF Added
<1>11. ClientSide'
  <2>1. CASE s \in R
    <3>1. closing = {}
      BY <2>1
    <3>2. AtClient(pool \cup new, {}, WorkOf(crelays) \cup {s.work}, openC \cup new)
      BY <1>8, <1>9 DEF AtClient, Apart
    <3>3. /\ pool' = pool \cup new /\ openC' = openC \cup new
          /\ WorkOf(crelays') = WorkOf(crelays) \cup {s.work}
      BY <1>6, <1>10, <2>1, <3>1
    <3>4. client' # "registering"
      BY <1>1, <1>2 DEF Inv, Ends, ClientSide
    <3> QED BY <1>1, <1>6, <3>2, <3>3, <3>4 DEF ClientSide
  <2>2. CASE s \notin R
    <3>1. closing = {s.work}
      BY <2>2
    <3>2. AtClient(pool \cup new, {}, WorkOf(crelays), (openC \ {s.work}) \cup new)
      BY <1>8, <1>9 DEF AtClient, Apart
    <3>3. /\ pool' = pool \cup new /\ openC' = (openC \ {s.work}) \cup new
          /\ WorkOf(crelays') = WorkOf(crelays)
      BY <1>6, <1>10, <2>2, <3>1
    <3>4. client' # "registering"
      BY <1>1, <1>2 DEF Inv, Ends, ClientSide
    <3> QED BY <1>1, <1>6, <3>2, <3>3, <3>4 DEF ClientSide
  <2> QED BY <2>1, <2>2
<1>12. AllStarted'
  <2> SUFFICES ASSUME NEW t \in starting PROVE Started(t)'
    BY <1>1 DEF AllStarted
  <2>1. /\ Started(t) /\ t.work \in Conns /\ t \in Streams /\ t.work \notin new
        /\ t.work \in openC' => t.work \in openC
    BY <1>8, <1>10, Held DEF Inv, Ends, AllStarted
  <2>2. CASE t.work = s.work /\ s \in R
    <3>1. t \notin crelays /\ t.work \in openC /\ t.work \notin pool
      BY <1>2, <2>2 DEF WorkOf
    <3>2. toClient[t.work] = <<>> /\ toServer[t.work] = <<>> /\ t = s
      BY <1>2, <2>1, <3>1 DEF Started
    <3>3. m = Message("STREAM_READY", s)
      BY <1>3, <2>2
    <3>4. toServer'[t.work] = m
      BY <1>7, <3>2, ConcatEmptySeq
    <3> QED BY <1>1, <2>2, <3>2, <3>3, <3>4 DEF Started
  <2>3. CASE t.work = s.work /\ s \notin R
    <3>1. t.work \notin openC'
      BY <1>10, <2>1, <2>3
    <3> QED BY <3>1 DEF Started
  <2>4. CASE t.work # s.work
    <3>1. /\ toServer'[t.work] = toServer[t.work] /\ toClient'[t.work] = toClient[t.work]
          /\ t \notin dialing /\ (t \in crelays => t \in crelays')
          /\ t.work \in pool => t.work \in pool'
      BY <1>1, <1>2, <1>7, <1>10, <2>1, <2>4
    <3> QED BY <2>1, <3>1, StartedSame
  <2> QED BY <2>2, <2>3, <2>4
<1>13. Relayed'
  <2>1. crelays \subseteq crelays'
    BY <1>1
  <2> QED BY <1>1, <1>8, <1>10, <2>1, Held DEF Inv, Ends, Relayed
<1>14. /\ IsFiniteSet(crelays') /\ Cardinality(crelays') <= MAX_STREAMS
       /\ crelays' \subseteq Streams
  <2>1. /\ IsFiniteSet(crelays) /\ Cardinality(crelays) <= MAX_STREAMS
        /\ crelays \subseteq Streams
    BY DEF Inv, TypeOK, Bounded
  <2>2. CASE R = crelays
    BY <1>1, <2>1, <2>2
  <2>3. CASE R # crelays
    <3>1. /\ IsFiniteSet(crelays \cup {s}) /\ Cardinality(crelays) \in Nat
          /\ Cardinality(crelays \cup {s}) = Cardinality(crelays) + 1
      BY <1>3, <2>1, FS_AddElement, FS_CardinalityType
    <3>2. Cardinality(crelays \cup {s}) <= MAX_STREAMS
      BY <2>3, <3>1, TunnelAssumption
    <3> QED BY <1>1, <1>2, <2>1, <2>3, <3>1, <3>2
  <2> QED BY <2>2, <2>3
<1>15. TypeOK'
  <2>1. /\ Cardinality(pool') <= MAX_STREAMS /\ made' \in 0..MaxConns
        /\ backlog' \in Seq(Conns) /\ faults' \in 0..MaxFaults /\ openS' = openS \cup new
    BY <1>5 DEF Added
  <2>2. pool' \subseteq Conns /\ openC' \subseteq Conns
    BY <1>10 DEF Inv, TypeOK
  <2>3. dialing' \subseteq Streams /\ Cardinality(dialing') <= 1
    BY <1>1, FS_EmptySet
  <2> QED BY <1>1, <1>7, <1>10, <1>14, <2>1, <2>2, <2>3 DEF Inv, TypeOK, Messages
<1>16. Bounded'
  BY <1>1, <1>14 DEF Inv, Bounded
<1> QED BY <1>8, <1>11, <1>12, <1>13, <1>15, <1>16 DEF Inv, Ends

LEMMA MessageTypes ==
    ASSUME NEW s \in Streams
    PROVE  /\ Message("STREAM_READY", s) \in Seq(Messages)
           /\ Message("STREAM_FAILED", s) \in Seq(Messages)
           /\ <<>> \in Seq(Messages)
<1>1. [kind |-> "STREAM_READY", user |-> s.user] \in Messages
      /\ [kind |-> "STREAM_FAILED", user |-> s.user] \in Messages
  BY StreamFields DEF Messages
<1> QED BY <1>1, SingletonSeq, EmptySeq DEF Message

LEMMA LocalRefusedInv == Inv /\ LocalRefused => Inv'
<1> SUFFICES ASSUME Inv, NEW s \in dialing,
                    DialEnds(s, Message("STREAM_FAILED", s), crelays), UNCHANGED dialled
             PROVE  Inv'
  BY DEF LocalRefused
<1>1. Message("STREAM_FAILED", s) \in Seq(Messages)
  BY Held, MessageTypes
<1>2. dialled' \subseteq Users
  BY DEF Inv, TypeOK
<1> QED BY <1>1, <1>2, DialEndsInv

LEMMA LocalConnectedInv == Inv /\ LocalConnected => Inv'
<1> SUFFICES ASSUME Inv, LocalConnected PROVE Inv'
  OBVIOUS
<1>1. PICK s \in dialing :
        /\ dialled' = dialled \cup {s.user}
        /\ \/ /\ Cardinality(crelays) < MAX_STREAMS
              /\ DialEnds(s, Message("STREAM_READY", s), crelays \cup {s})
           \/ DialEnds(s, <<>>, crelays)
           \/ DialEnds(s, Message("STREAM_READY", s), crelays)
  BY DEF LocalConnected
<1>2. /\ Message("STREAM_READY", s) \in Seq(Messages) /\ <<>> \in Seq(Messages)
      /\ s.user \in Users
  BY Held, MessageTypes, StreamFields
<1>3. dialled' \subseteq Users
  BY <1>1, <1>2 DEF Inv, TypeOK
<1>4. CASE Cardinality(crelays) < MAX_STREAMS
           /\ DialEnds(s, Message("STREAM_READY", s), crelays \cup {s})
  BY <1>2, <1>3, <1>4, DialEndsInv
<1>5. CASE DialEnds(s, <<>>, crelays)
  BY <1>2, <1>3, <1>5, DialEndsInv
<1>6. CASE DialEnds(s, Message("STREAM_READY", s), crelays)
  BY <1>2, <1>3, <1>6, DialEndsInv
<1> QED BY <1>1, <1>4, <1>5, <1>6
-----------------------------------------------------------------------------
(***************************************************************************)
(* The server's steps.                                                     *)
(***************************************************************************)

LEMMA AcceptInv == Inv /\ Accept => Inv'
<1> SUFFICES ASSUME Inv, Accept PROVE Inv'
  OBVIOUS
<1>1. /\ backlog # <<>> /\ backlog' = Tail(backlog)
      /\ UNCHANGED <<client, pool, dialing, crelays, made, server, idle, pending, starting,
                     srelays, requests, toServer, toClient, openC, broken, faults, seen, dialled>>
  BY DEF Accept, cvars
<1>2. PICK w : w = Head(backlog)
  OBVIOUS
<1>3. \/ incoming' = incoming /\ openS' = openS \ {w} /\ lost' = lost + 1
      \/ incoming' = incoming \cup {w} /\ openS' = openS /\ lost' = lost
  BY <1>2 DEF Accept
<1>4. /\ w \in Conns /\ Tail(backlog) \in Seq(Conns) /\ w \in Elements(backlog)
      /\ Elements(Tail(backlog)) = Elements(backlog) \ {w} /\ Distinct(Tail(backlog))
  <2>1. backlog \in Seq(Conns) /\ Distinct(backlog)
    BY DEF Inv, TypeOK, Ends, ServerSide
  <2> QED BY <1>1, <1>2, <2>1, HeadTail
<1>5. TypeOK'
  <2>1. lost' \in Nat /\ incoming' \subseteq Conns /\ openS' \subseteq Conns
    BY <1>3, <1>4 DEF Inv, TypeOK
  <2> QED BY <1>1, <1>4, <2>1 DEF Inv, TypeOK
<1>6. Bounded'
  BY <1>1 DEF Inv, Bounded
<1>7. AtServer(Elements(backlog), incoming, Elements(idle), WorkOf(starting), WorkOf(srelays), openS)
  BY DEF Inv, Ends, ServerSide
<1>8. AtServer(Elements(backlog) \ {w}, incoming', Elements(idle), WorkOf(starting),
               WorkOf(srelays), openS')
  <2>1. AtServer(Elements(backlog) \ {w}, incoming, Elements(idle), WorkOf(starting),
                 WorkOf(srelays), openS \ {w})
    BY <1>4, <1>7 DEF AtServer, Apart
  <2>2. AtServer(Elements(backlog) \ {w}, incoming \cup {w}, Elements(idle), WorkOf(starting),
                 WorkOf(srelays), openS)
    BY <1>4, <1>7 DEF AtServer, Apart
  <2> QED BY <1>3, <2>1, <2>2
<1>9. ServerSide'
  BY <1>1, <1>4, <1>8 DEF Inv, Ends, ServerSide
<1>10. ClientSide'
  BY <1>1, ClientSame DEF Inv, Ends
<1>11. Numbered'
  BY <1>1, <1>3 DEF Inv, Ends, Numbered
<1>12. Fresh'
  <2>1. Elements(backlog') \cup incoming' \cup Elements(idle')
          \subseteq Elements(backlog) \cup incoming \cup Elements(idle)
    BY <1>1, <1>3, <1>4
  <2> QED BY <1>1, <2>1 DEF Inv, Ends, Fresh
<1>13. AllStarted' /\ Relayed'
  BY <1>1 DEF Inv, Ends, AllStarted, Started, Relayed
<1> QED BY <1>5, <1>6, <1>9, <1>10, <1>11, <1>12, <1>13 DEF Inv, Ends

\* A connection of the server's is closed: the incoming one w, or those of a
\* starting stream, a relay or a whole peer.
LEMMA IncomingDropped ==
    ASSUME Inv, NEW w \in incoming, incoming' = incoming \ {w}, openS' = openS \ {w},
           lost' = lost + 1, faults' \in 0..MaxFaults,
           UNCHANGED <<client, pool, dialing, crelays, made, server, backlog, idle, pending,
                       starting, srelays, requests, toServer, toClient, openC, broken, seen,
                       dialled>>
    PROVE  Inv'
<1>1. TypeOK'
  <2>1. lost' \in Nat
    BY DEF Inv, TypeOK
  <2> QED BY <2>1 DEF Inv, TypeOK
<1>2. Bounded'
  BY DEF Inv, Bounded
<1>3. AtServer(Elements(backlog), incoming, Elements(idle), WorkOf(starting), WorkOf(srelays), openS)
  BY DEF Inv, Ends, ServerSide
<1>4. AtServer(Elements(backlog), incoming \ {w}, Elements(idle), WorkOf(starting),
               WorkOf(srelays), openS \ {w})
  BY <1>3 DEF AtServer, Apart
<1>5. ServerSide'
  BY <1>4 DEF Inv, Ends, ServerSide
<1>6. ClientSide'
  BY ClientSame DEF Inv, Ends
<1>7. Numbered' /\ Fresh' /\ AllStarted' /\ Relayed'
  BY DEF Inv, Ends, Numbered, Fresh, AllStarted, Started, Relayed
<1> QED BY <1>1, <1>2, <1>5, <1>6, <1>7 DEF Inv, Ends

LEMMA IncomingClosedInv == ASSUME NEW w \in Conns PROVE Inv /\ IncomingClosed(w) => Inv'
<1> SUFFICES ASSUME Inv, IncomingClosed(w) PROVE Inv'
  OBVIOUS
<1>1. /\ w \in incoming /\ incoming' = incoming \ {w} /\ openS' = openS \ {w} /\ lost' = lost + 1
      /\ UNCHANGED <<client, pool, dialing, crelays, made, server, backlog, idle, pending,
                     starting, srelays, requests, toServer, toClient, openC, broken, seen,
                     dialled>>
  BY DEF IncomingClosed, cvars
<1>2. faults' = faults \/ (faults > 0 /\ faults' = faults - 1)
  BY DEF IncomingClosed
<1>3. faults' \in 0..MaxFaults
  BY <1>2, TunnelAssumption DEF Inv, TypeOK
<1> QED BY <1>1, <1>3, IncomingDropped

LEMMA ExpirePendingInv == ASSUME NEW u \in Users PROVE Inv /\ ExpirePending(u) => Inv'
<1> SUFFICES ASSUME Inv, ExpirePending(u) PROVE Inv'
  OBVIOUS
<1>1. UNCHANGED <<client, pool, dialing, crelays, made, server, backlog, incoming, idle,
                  starting, srelays, requests, toServer, toClient, openC, openS, broken,
                  faults, seen, dialled, lost>>
  BY DEF ExpirePending, cvars, net, history
<1>2. PICK i \in DOMAIN pending :
        pending' = SubSeq([pending EXCEPT ![i] = pending[Len(pending)]], 1, Len(pending) - 1)
  BY DEF ExpirePending
<1>3. pending \in Seq(Users) /\ Len(pending) <= PendingLimit
  BY DEF Inv, TypeOK, Bounded
<1>4. /\ pending' \in Seq(Users) /\ Len(pending') = Len(pending) - 1
      /\ Len(pending) \in Nat /\ Len(pending) >= 1
  BY <1>2, <1>3, RemoveElement
<1>5. /\ Len(pending') <= PendingLimit /\ Len(pending') <= MAX_PENDING
  BY <1>3, <1>4, TunnelAssumption
<1>6. server # "ended"
  BY <1>2 DEF Inv, Bounded
<1>7. TypeOK' /\ Bounded'
  BY <1>1, <1>4, <1>5, <1>6 DEF Inv, TypeOK, Bounded
<1>8. ServerSide' /\ ClientSide'
  BY <1>1, ServerSame, ClientSame DEF Inv, Ends
<1>9. Numbered' /\ Fresh' /\ AllStarted' /\ Relayed'
  BY <1>1 DEF Inv, Ends, Numbered, Fresh, AllStarted, Started, Relayed
<1> QED BY <1>7, <1>8, <1>9 DEF Inv, Ends

\* What the server gives up of its streams, with their connections gone.
ServerDrops(gone) ==
    /\ starting' = {s \in starting : s.work \notin gone}
    /\ srelays' = {s \in srelays : s.work \notin gone}
    /\ openS' = openS \ gone
    /\ UNCHANGED <<client, pool, dialing, crelays, made, backlog, incoming, requests, toClient,
                   openC, broken, faults, seen, dialled, lost>>

LEMMA ServerDropsInv ==
    ASSUME Inv, NEW gone, ServerDrops(gone), gone \subseteq openS,
           Apart(gone, Elements(backlog)), Apart(gone, incoming),
           \/ /\ UNCHANGED <<server, idle, pending>> /\ Apart(gone, Elements(idle))
           \/ /\ server' = "ended" /\ idle' = <<>> /\ pending' = <<>>
              /\ gone = Elements(idle) \cup WorkOf(starting) \cup WorkOf(srelays),
           toServer' \in [Conns -> Seq(Messages)],
           \A w \in Conns \ gone : toServer'[w] = toServer[w]
    PROVE  Inv'
<1> USE DEF ServerDrops
<1>1. /\ WorkOf(starting') = WorkOf(starting) \ gone /\ OneWork(starting')
      /\ WorkOf(srelays') = WorkOf(srelays) \ gone /\ OneWork(srelays')
      /\ starting' \subseteq starting /\ srelays' \subseteq srelays
  BY DEF Inv, Ends, ServerSide, WorkOf, OneWork
<1>2. /\ IsFiniteSet(starting') /\ Cardinality(starting') <= MAX_PENDING
      /\ IsFiniteSet(srelays') /\ Cardinality(srelays') <= MAX_STREAMS
  <2>1. /\ IsFiniteSet(starting) /\ Cardinality(starting) <= MAX_PENDING
        /\ IsFiniteSet(srelays) /\ Cardinality(srelays) <= MAX_STREAMS
    BY DEF Inv, Bounded, TypeOK
  <2>2. /\ IsFiniteSet(starting') /\ Cardinality(starting') <= Cardinality(starting)
        /\ IsFiniteSet(srelays') /\ Cardinality(srelays') <= Cardinality(srelays)
    BY <1>1, <2>1, FS_Subset
  <2>3. /\ Cardinality(starting) \in Nat /\ Cardinality(srelays) \in Nat
        /\ Cardinality(starting') \in Nat /\ Cardinality(srelays') \in Nat
    BY <2>1, <2>2, FS_CardinalityType
  <2> QED BY <2>1, <2>2, <2>3, TunnelAssumption
<1>3. /\ idle' \in Seq(Conns) /\ Len(idle') <= MAX_STREAMS /\ Distinct(idle')
      /\ Elements(idle') = Elements(idle) \ gone
  <2>1. CASE UNCHANGED <<server, idle, pending>> /\ Apart(gone, Elements(idle))
    <3>1. idle \in Seq(Conns) /\ Len(idle) <= MAX_STREAMS /\ Distinct(idle)
      BY DEF Inv, TypeOK, Ends, ServerSide
    <3>2. Elements(idle) = Elements(idle) \ gone
      BY <2>1 DEF Apart
    <3> QED BY <2>1, <3>1, <3>2
  <2>2. CASE idle' = <<>> /\ gone = Elements(idle) \cup WorkOf(starting) \cup WorkOf(srelays)
    BY <2>2, EmptySeq, EmptyElements, TunnelAssumption
  <2> QED BY <2>1, <2>2
<1>4. /\ pending' \in Seq(Users) /\ Len(pending') <= PendingLimit /\ Len(pending') <= MAX_PENDING
      /\ server' \in {"active", "ended"}
      /\ server' = "ended" => /\ pending' = <<>> /\ idle' = <<>>
                              /\ starting' = {} /\ srelays' = {}
  <2>1. CASE UNCHANGED <<server, idle, pending>> /\ Apart(gone, Elements(idle))
    BY <1>1, <2>1 DEF Inv, TypeOK, Bounded
  <2>2. CASE /\ server' = "ended" /\ idle' = <<>> /\ pending' = <<>>
             /\ gone = Elements(idle) \cup WorkOf(starting) \cup WorkOf(srelays)
    <3>1. starting' = {} /\ srelays' = {}
      BY <2>2 DEF WorkOf
    <3> QED BY <2>2, <3>1, EmptySeq, TunnelAssumption
  <2> QED BY <2>1, <2>2
<1>5. TypeOK'
  <2>1. starting' \subseteq Streams /\ srelays' \subseteq Streams /\ openS' \subseteq Conns
    BY <1>1, Held
  <2> QED BY <1>2, <1>3, <1>4, <2>1 DEF Inv, TypeOK, Messages
<1>6. Bounded'
  BY <1>2, <1>4 DEF Inv, Bounded
<1>7. AtServer(Elements(backlog), incoming, Elements(idle), WorkOf(starting), WorkOf(srelays), openS)
  BY DEF Inv, Ends, ServerSide
<1>8. AtServer(Elements(backlog), incoming, Elements(idle) \ gone, WorkOf(starting) \ gone,
               WorkOf(srelays) \ gone, openS \ gone)
  BY <1>7 DEF AtServer, Apart
<1>9. ServerSide'
  BY <1>1, <1>3, <1>8 DEF Inv, Ends, ServerSide
<1>10. ClientSide'
  BY ClientSame DEF Inv, Ends
<1>11. Numbered'
  <2>1. \A w \in Conns : w > made => w \notin gone
    BY TunnelAssumption DEF Inv, TypeOK, Ends, Numbered, Conns
  <2> QED BY <2>1 DEF Inv, Ends, Numbered
<1>12. Fresh'
  <2>1. \A w \in Elements(backlog) \cup incoming \cup Elements(idle') :
          w \in Conns /\ w \notin gone /\ w \in Elements(backlog) \cup incoming \cup Elements(idle)
    BY <1>3, Held DEF Apart
  <2> QED BY <2>1 DEF Inv, Ends, Fresh
<1>13. AllStarted'
  <2> SUFFICES ASSUME NEW s \in starting, s.work \notin gone PROVE Started(s)'
    BY DEF AllStarted
  <2>1. Started(s) /\ s.work \in Conns
    BY Held DEF Inv, Ends, AllStarted
  <2> QED BY <2>1, StartedSame
<1>14. Relayed'
  BY <1>1 DEF Inv, Ends, Relayed
<1> QED BY <1>5, <1>6, <1>9, <1>10, <1>11, <1>12, <1>13, <1>14 DEF Inv, Ends

\* The connection of a stream is nowhere else.
LEMMA OfStream ==
    ASSUME Inv
    PROVE  /\ \A s \in starting : /\ Apart({s.work}, Elements(backlog)) /\ Apart({s.work}, incoming)
                                  /\ Apart({s.work}, Elements(idle))
                                  /\ s.work \notin WorkOf(srelays)
                                  /\ {t \in starting : t.work \notin {s.work}} = starting \ {s}
                                  /\ {t \in srelays : t.work \notin {s.work}} = srelays
           /\ \A s \in srelays : /\ Apart({s.work}, Elements(backlog)) /\ Apart({s.work}, incoming)
                                 /\ Apart({s.work}, Elements(idle))
                                 /\ {t \in starting : t.work \notin {s.work}} = starting
                                 /\ {t \in srelays : t.work \notin {s.work}} = srelays \ {s}
<1>1. /\ AtServer(Elements(backlog), incoming, Elements(idle), WorkOf(starting), WorkOf(srelays),
                  openS)
      /\ OneWork(starting) /\ OneWork(srelays)
  BY DEF Inv, Ends, ServerSide
<1>2. /\ \A s \in starting : s.work \in WorkOf(starting)
      /\ \A s \in srelays : s.work \in WorkOf(srelays)
  BY DEF WorkOf
<1>3. \A s \in starting : /\ Apart({s.work}, Elements(backlog)) /\ Apart({s.work}, incoming)
                          /\ Apart({s.work}, Elements(idle)) /\ s.work \notin WorkOf(srelays)
  BY <1>1, <1>2 DEF AtServer, Apart
<1>4. \A s \in srelays : /\ Apart({s.work}, Elements(backlog)) /\ Apart({s.work}, incoming)
                         /\ Apart({s.work}, Elements(idle)) /\ s.work \notin WorkOf(starting)
  BY <1>1, <1>2 DEF AtServer, Apart
<1>5. ASSUME NEW s \in starting
      PROVE  /\ {t \in starting : t.work \notin {s.work}} = starting \ {s}
             /\ {t \in srelays : t.work \notin {s.work}} = srelays
  BY <1>1, <1>2, <1>3 DEF OneWork
<1>6. ASSUME NEW s \in srelays
      PROVE  /\ {t \in starting : t.work \notin {s.work}} = starting
             /\ {t \in srelays : t.work \notin {s.work}} = srelays \ {s}
  BY <1>1, <1>2, <1>4 DEF OneWork
<1> QED BY <1>3, <1>4, <1>5, <1>6

LEMMA DropStartingInv == ASSUME NEW s PROVE Inv /\ DropStarting(s) => Inv'
<1> SUFFICES ASSUME Inv, DropStarting(s) PROVE Inv'
  OBVIOUS
<1>1. /\ s \in starting /\ starting' = starting \ {s} /\ openS' = openS \ {s.work}
      /\ UNCHANGED <<client, pool, dialing, crelays, made, server, backlog, incoming, idle,
                     pending, srelays, requests, toServer, toClient, openC, broken, faults, seen,
                     dialled, lost>>
  BY DEF DropStarting, cvars, history
<1>2. PICK gone : gone = {s.work}
  OBVIOUS
<1>3. ServerDrops(gone)
  BY <1>1, <1>2, OfStream DEF ServerDrops
<1>4. /\ gone \subseteq openS /\ Apart(gone, Elements(backlog)) /\ Apart(gone, incoming)
      /\ Apart(gone, Elements(idle))
  BY <1>1, <1>2, Held, OfStream
<1>5. toServer' \in [Conns -> Seq(Messages)] /\ \A w \in Conns \ gone : toServer'[w] = toServer[w]
  BY <1>1 DEF Inv, TypeOK, Messages
<1> QED BY <1>1, <1>3, <1>4, <1>5, ServerDropsInv

LEMMA ServerRelayEndsInv == ASSUME NEW s PROVE Inv /\ ServerRelayEnds(s) => Inv'
<1> SUFFICES ASSUME Inv, ServerRelayEnds(s) PROVE Inv'
  OBVIOUS
<1>1. /\ s \in srelays /\ srelays' = srelays \ {s} /\ openS' = openS \ {s.work}
      /\ UNCHANGED <<client, pool, dialing, crelays, made, server, backlog, incoming, idle,
                     pending, starting, requests, toServer, toClient, openC, broken, faults,
                     seen, dialled, lost>>
  BY DEF ServerRelayEnds, cvars, history
<1>2. PICK gone : gone = {s.work}
  OBVIOUS
<1>3. ServerDrops(gone)
  BY <1>1, <1>2, OfStream DEF ServerDrops
<1>4. /\ gone \subseteq openS /\ Apart(gone, Elements(backlog)) /\ Apart(gone, incoming)
      /\ Apart(gone, Elements(idle))
  BY <1>1, <1>2, Held, OfStream
<1>5. toServer' \in [Conns -> Seq(Messages)] /\ \A w \in Conns \ gone : toServer'[w] = toServer[w]
  BY <1>1 DEF Inv, TypeOK, Messages
<1> QED BY <1>1, <1>3, <1>4, <1>5, ServerDropsInv

LEMMA ServerEndsInv == Inv /\ ServerEnds => Inv'
<1> SUFFICES ASSUME Inv, ServerEnds PROVE Inv'
  OBVIOUS
<1>1. /\ server' = "ended" /\ pending' = <<>> /\ idle' = <<>> /\ starting' = {} /\ srelays' = {}
      /\ openS' = openS \ (Elements(idle) \cup WorkOf(starting) \cup WorkOf(srelays))
      /\ UNCHANGED <<client, pool, dialing, crelays, made, backlog, incoming, requests, toServer,
                     toClient, openC, broken, faults, seen, dialled, lost>>
  BY DEF ServerEnds, cvars, history
<1>2. PICK gone : gone = Elements(idle) \cup WorkOf(starting) \cup WorkOf(srelays)
  OBVIOUS
<1>3. {s \in starting : s.work \notin gone} = {} /\ {s \in srelays : s.work \notin gone} = {}
  BY <1>2 DEF WorkOf
<1>4. ServerDrops(gone)
  BY <1>1, <1>2, <1>3 DEF ServerDrops
<1>5. gone \subseteq openS /\ Apart(gone, Elements(backlog)) /\ Apart(gone, incoming)
  BY <1>2 DEF Inv, Ends, ServerSide, AtServer, Apart
<1>6. toServer' \in [Conns -> Seq(Messages)] /\ \A w \in Conns \ gone : toServer'[w] = toServer[w]
  BY <1>1 DEF Inv, TypeOK, Messages
<1> QED BY <1>1, <1>2, <1>4, <1>5, <1>6, ServerDropsInv

LEMMA StartingReadyInv == ASSUME NEW s PROVE Inv /\ StartingReady(s) => Inv'
<1> SUFFICES ASSUME Inv, StartingReady(s) PROVE Inv'
  OBVIOUS
<1>1. /\ s \in starting /\ Len(toServer[s.work]) > 0
      /\ Head(toServer[s.work]) = [kind |-> "STREAM_READY", user |-> s.user]
      /\ starting' = starting \ {s}
      /\ toServer' = [toServer EXCEPT ![s.work] = Tail(@)]
      /\ UNCHANGED <<client, pool, dialing, crelays, made, server, backlog, incoming, idle,
                     pending, requests, toClient, openC, broken, faults, seen, dialled, lost>>
  BY DEF StartingReady, cvars, history
<1>2. /\ s.work \in Conns /\ s.work \in openS /\ s \in Streams /\ Started(s)
  BY <1>1, Held DEF Inv, Ends, AllStarted
<1>3. /\ toServer' \in [Conns -> Seq(Messages)]
      /\ toServer'[s.work] = Tail(toServer[s.work])
      /\ \A w \in Conns : w # s.work => toServer'[w] = toServer[w]
  <2>1. toServer \in [Conns -> Seq(Messages)]
    BY DEF Inv, TypeOK, Messages
  <2>2. toServer[s.work] \in Seq(Messages) /\ toServer[s.work] # <<>>
    BY <1>1, <1>2, <2>1, EmptySeq
  <2>3. Tail(toServer[s.work]) \in Seq(Messages)
    BY <2>2, HeadTail
  <2> QED BY <1>1, <1>2, <2>1, <2>3
<1>4. CASE openS' = openS \ {s.work} /\ UNCHANGED srelays
  <2>1. PICK gone : gone = {s.work}
    OBVIOUS
  <2>2. ServerDrops(gone)
    BY <1>1, <1>4, <2>1, OfStream DEF ServerDrops
  <2>3. /\ gone \subseteq openS /\ Apart(gone, Elements(backlog)) /\ Apart(gone, incoming)
        /\ Apart(gone, Elements(idle))
    BY <1>1, <2>1, Held, OfStream
  <2>4. \A w \in Conns \ gone : toServer'[w] = toServer[w]
    BY <1>3, <2>1
  <2> QED BY <1>1, <1>3, <2>2, <2>3, <2>4, ServerDropsInv
<1>5. CASE Cardinality(srelays) < MAX_STREAMS /\ srelays' = srelays \cup {s} /\ UNCHANGED openS
  <2>1. s.work \in WorkOf(starting) /\ WorkOf(starting \ {s}) = WorkOf(starting) \ {s.work}
        /\ OneWork(starting \ {s})
    BY <1>1, WorkRemoved DEF Inv, Ends, ServerSide
  <2>2. WorkOf(srelays \cup {s}) = WorkOf(srelays) \cup {s.work} /\ OneWork(srelays \cup {s})
    <3>1. Apart(WorkOf(srelays), WorkOf({s})) /\ OneWork(srelays) /\ OneWork({s})
      <4>1. s.work \notin WorkOf(srelays)
        BY <1>1, OfStream
      <4> QED BY <4>1, WorkOfOne DEF Inv, Ends, ServerSide, Apart
    <3> QED BY <3>1, OneWorkJoined, WorkAdded
  <2>3. AtServer(Elements(backlog), incoming, Elements(idle), WorkOf(starting), WorkOf(srelays),
                 openS)
    BY DEF Inv, Ends, ServerSide
  <2>4. AtServer(Elements(backlog), incoming, Elements(idle), WorkOf(starting) \ {s.work},
                 WorkOf(srelays) \cup {s.work}, openS)
    BY <2>1, <2>3 DEF AtServer, Apart
  <2>5. ServerSide'
    BY <1>1, <1>5, <2>1, <2>2, <2>4 DEF Inv, Ends, ServerSide
  <2>6. ClientSide'
    BY <1>1, ClientSame DEF Inv, Ends
  <2>7. /\ IsFiniteSet(starting') /\ Cardinality(starting') <= MAX_PENDING
        /\ IsFiniteSet(srelays') /\ Cardinality(srelays') <= MAX_STREAMS
    <3>1. /\ IsFiniteSet(starting) /\ Cardinality(starting) <= MAX_PENDING
          /\ IsFiniteSet(srelays)
      BY DEF Inv, Bounded, TypeOK
    <3>2. /\ IsFiniteSet(starting \ {s}) /\ Cardinality(starting \ {s}) = Cardinality(starting) - 1
          /\ Cardinality(starting) \in Nat /\ Cardinality(srelays) \in Nat
          /\ IsFiniteSet(srelays \cup {s})
          /\ Cardinality(srelays \cup {s}) \in {Cardinality(srelays), Cardinality(srelays) + 1}
      BY <1>1, <3>1, FS_RemoveElement, FS_AddElement, FS_CardinalityType
    <3>3. Cardinality(starting \ {s}) <= MAX_PENDING /\ Cardinality(srelays \cup {s}) <= MAX_STREAMS
      BY <1>5, <3>1, <3>2, TunnelAssumption
    <3> QED BY <1>1, <1>5, <3>2, <3>3
  <2>8. TypeOK'
    <3>1. starting' \subseteq Streams /\ srelays' \subseteq Streams
      BY <1>1, <1>2, <1>5, Held
    <3> QED BY <1>1, <1>3, <1>5, <2>7, <3>1 DEF Inv, TypeOK, Messages
  <2>9. Bounded'
    <3>1. server # "ended"
      BY <1>1 DEF Inv, Bounded
    <3> QED BY <1>1, <2>7, <3>1 DEF Inv, Bounded
  <2>10. Numbered'
    <3>1. ~(s.work > made)
      BY <1>2, TunnelAssumption DEF Inv, TypeOK, Ends, Numbered, Conns
    <3> QED BY <1>1, <1>3, <1>5, <3>1 DEF Inv, Ends, Numbered
  <2>11. Fresh'
    <3>1. \A w \in Elements(backlog) \cup incoming \cup Elements(idle) : w # s.work /\ w \in Conns
      BY <1>1, Held, OfStream DEF Apart
    <3> QED BY <1>1, <1>3, <3>1 DEF Inv, Ends, Fresh
  <2>12. AllStarted'
    <3> SUFFICES ASSUME NEW t \in starting, t # s PROVE Started(t)'
      BY <1>1 DEF AllStarted
    <3>1. Started(t) /\ t.work \in Conns
      BY Held DEF Inv, Ends, AllStarted
    <3>2. t.work # s.work
      BY <1>1 DEF Inv, Ends, ServerSide, OneWork
    <3> QED BY <1>1, <1>3, <3>1, <3>2, StartedSame
  <2>13. Relayed'
    <3>1. s.work \in openC => s \in crelays
      BY <1>1, <1>2, EmptySeq DEF Started
    <3> QED BY <1>1, <1>5, <3>1 DEF Inv, Ends, Relayed
  <2> QED BY <2>5, <2>6, <2>8, <2>9, <2>10, <2>11, <2>12, <2>13 DEF Inv, Ends
<1> QED BY <1>4, <1>5 DEF StartingReady

\* match_pending with the idle connections and those of Z, which come in.
LEMMA PairingInv ==
    ASSUME Inv, NEW p \in Seq(Users), NEW w \in Seq(Conns), NEW Z \in SUBSET incoming,
           NEW started, NEW F, NEW G, NEW k, Pairing(p, w, started, F, G, k),
           Elements(w) = Elements(idle) \cup Z, Len(w) <= MAX_STREAMS, Len(p) <= PendingLimit,
           server = "active", incoming' = incoming \ Z,
           requests' \in Nat, lost' \in Nat, faults' \in 0..MaxFaults, seen' \subseteq Users,
           UNCHANGED <<client, pool, dialing, crelays, made, server, backlog, srelays, toServer,
                       openC, broken, dialled>>
    PROVE  Inv'
<1>1. /\ k \in Nat /\ k <= Len(p) /\ k <= Len(w)
      /\ started \subseteq Streams /\ OneWork(started)
      /\ Apart(WorkOf(started), F) /\ WorkOf(started) \cup F \subseteq Elements(w)
      /\ idle' \in Seq(Conns) /\ Len(idle') = Len(w) - k /\ Distinct(idle')
      /\ Elements(idle') = Elements(w) \ (WorkOf(started) \cup F)
      /\ pending' \in Seq(Users) /\ Len(pending') = Len(p) - k
      /\ starting' = starting \cup started /\ IsFiniteSet(starting')
      /\ Cardinality(starting') <= MAX_PENDING
      /\ openS' = openS \ F
      /\ toClient' \in [Conns -> Seq(Users)]
      /\ \A c \in Conns : c \notin WorkOf(started) => toClient'[c] = toClient[c]
      /\ \A s \in started : toClient'[s.work] = toClient[s.work] \o <<s.user>>
  BY DEF Pairing
<1>2. TypeOK'
  <2>1. Len(idle') <= MAX_STREAMS /\ Len(pending') <= MAX_PENDING
    <3>1. Len(w) \in Nat /\ Len(p) \in Nat
      BY LenProperties
    <3>2. k \in Nat /\ Len(idle') = Len(w) - k /\ Len(pending') = Len(p) - k
      BY <1>1
    <3>3. MAX_STREAMS \in Nat /\ MAX_PENDING \in Nat /\ PendingLimit \in Nat
          /\ PendingLimit <= MAX_PENDING
      BY TunnelAssumption
    <3> QED BY <3>1, <3>2, <3>3
  <2>2. starting' \subseteq Streams /\ incoming' \subseteq Conns /\ openS' \subseteq Conns
    BY <1>1 DEF Inv, TypeOK
  <2> QED BY <1>1, <2>1, <2>2 DEF Inv, TypeOK
<1>3. Bounded'
  <2>1. Len(pending') <= PendingLimit
    <3>1. Len(p) \in Nat
      BY LenProperties
    <3> QED BY <1>1, <3>1, TunnelAssumption
  <2> QED BY <1>1, <2>1 DEF Inv, Bounded
<1>4. AtServer(Elements(backlog), incoming, Elements(idle), WorkOf(starting), WorkOf(srelays), openS)
  BY DEF Inv, Ends, ServerSide
<1>5. \A x \in Elements(w) : /\ x \in Elements(idle) \/ x \in Z
                             /\ x \notin WorkOf(starting) /\ x \notin WorkOf(srelays)
                             /\ x \notin Elements(backlog) /\ x \in openS
  BY <1>4 DEF AtServer, Apart
<1>6. WorkOf(starting') = WorkOf(starting) \cup WorkOf(started)
  BY <1>1, WorkJoined
<1>7. OneWork(starting')
  <2>1. Apart(WorkOf(starting), WorkOf(started)) /\ OneWork(starting)
    BY <1>1, <1>5 DEF Apart, Inv, Ends, ServerSide
  <2>2. OneWork(starting \cup started)
    BY <1>1, <2>1, OneWorkJoined
  <2> QED BY <1>1, <2>2
<1>8. AtServer(Elements(backlog), incoming \ Z, Elements(w) \ (WorkOf(started) \cup F),
               WorkOf(starting) \cup WorkOf(started), WorkOf(srelays), openS \ F)
  <2> DEFINE B == Elements(backlog)
             I == incoming
             D == Elements(idle)
             T == WorkOf(starting)
             R == WorkOf(srelays)
             S == WorkOf(started)
             E == Elements(w)
  <2>1. /\ AtServer(B, I, D, T, R, openS) /\ S \subseteq E /\ F \subseteq E
        /\ Apart(S, F) /\ E = D \cup Z /\ Z \subseteq I
    BY <1>1, <1>4
  <2> HIDE DEF B, I, D, T, R, S, E
  <2>2. AtServer(B, I \ Z, E \ (S \cup F), T \cup S, R, openS \ F)
    BY <2>1 DEF AtServer, Apart
  <2> QED BY <2>2 DEF B, I, D, T, R, S, E
<1>9. ServerSide'
  BY <1>1, <1>6, <1>7, <1>8 DEF Inv, Ends, ServerSide
<1>10. ClientSide'
  BY ClientSame DEF Inv, Ends
<1>11. \A s \in started : /\ s.work \in WorkOf(started) /\ s.work \in Elements(w)
                          /\ s.work \in Conns /\ s.user \in Users
  BY <1>1, StreamFields DEF WorkOf
<1>12. Numbered'
  <2>1. \A c \in Conns : c > made => c \notin WorkOf(started)
    <3>1. WorkOf(started) \subseteq openS
      BY <1>1, <1>5
    <3> QED BY <3>1, TunnelAssumption DEF Inv, TypeOK, Ends, Numbered, Conns
  <2> QED BY <1>1, <2>1 DEF Inv, Ends, Numbered
<1>13. \A x \in Elements(w) : /\ toClient[x] = <<>> /\ toServer[x] = <<>>
                              /\ x \notin WorkOf(dialing) /\ x \notin WorkOf(crelays)
  BY <1>5 DEF Inv, Ends, Fresh
<1>14. Fresh'
  <2> SUFFICES ASSUME NEW x \in Elements(backlog) \cup (incoming \ Z) \cup Elements(idle')
               PROVE  /\ toClient'[x] = <<>> /\ toServer[x] = <<>>
                      /\ x \notin WorkOf(dialing) /\ x \notin WorkOf(crelays)
    BY DEF Fresh
  <2>1. x \in Elements(backlog) \cup incoming \cup Elements(idle)
    BY <1>1
  <2>2. x \notin WorkOf(started)
    <3>1. Apart(Elements(backlog), WorkOf(starting) \cup WorkOf(started))
          /\ Apart(incoming \ Z, WorkOf(starting) \cup WorkOf(started))
      BY <1>8 DEF AtServer
    <3> QED BY <1>1, <3>1 DEF Apart
  <2>3. x \in Conns
    BY <2>1, Held
  <2> QED BY <1>1, <2>1, <2>2, <2>3 DEF Inv, Ends, Fresh
<1>15. AllStarted'
  <2> SUFFICES ASSUME NEW s, s \in starting \/ s \in started PROVE Started(s)'
    BY <1>1 DEF AllStarted
  <2>1. CASE s \in starting
    <3>1. Started(s) /\ s.work \in Conns
      BY <2>1, Held DEF Inv, Ends, AllStarted
    <3>2. s.work \notin WorkOf(started)
      <4>1. s.work \in WorkOf(starting)
        BY <2>1 DEF WorkOf
      <4>2. WorkOf(started) \subseteq Elements(w)
        BY <1>1
      <4> QED BY <1>5, <4>1, <4>2
    <3> QED BY <1>1, <3>1, <3>2, StartedSame
  <2>2. CASE s \in started
    <3>1. /\ toClient[s.work] = <<>> /\ toServer[s.work] = <<>> /\ s.user \in Users
          /\ s.work \notin WorkOf(dialing) /\ s.work \notin WorkOf(crelays)
      BY <1>11, <1>13, <2>2
    <3>2. <<>> \o <<s.user>> = <<s.user>>
      BY <3>1, SingletonSeq, ConcatEmptySeq
    <3>3. toClient'[s.work] = <<s.user>> /\ toServer'[s.work] = <<>>
      BY <1>1, <2>2, <3>1, <3>2
    <3>4. s.work \in openC => s.work \in pool
      BY <3>1 DEF Inv, Ends, ClientSide, AtClient
    <3> QED BY <3>3, <3>4 DEF Started
  <2> QED BY <2>1, <2>2
<1>16. Relayed'
  BY DEF Inv, Ends, Relayed
<1> QED BY <1>2, <1>3, <1>9, <1>10, <1>12, <1>14, <1>15, <1>16 DEF Inv, Ends

\* Bind pairs the connections it has, w among them, or closes it.
LEMMA BindPairs ==
    ASSUME Inv, NEW w \in Conns, Bind(w), server = "active", Len(idle) < MAX_STREAMS
    PROVE  \E started, F, G, k :
             /\ Pairing(pending, Append(idle, w), started, F, G, k)
             /\ lost' = lost
<1>1. w \in incoming /\ match_pending(pending, Append(idle, w)) /\ lost' = lost
  BY DEF Bind
<1>2. /\ idle \in Seq(Conns) /\ pending \in Seq(Users) /\ starting \subseteq Streams
      /\ Cardinality(starting) <= MAX_PENDING /\ toClient \in [Conns -> Seq(Users)]
      /\ IsFiniteSet(starting) /\ Distinct(idle)
      /\ AtServer(Elements(backlog), incoming, Elements(idle), WorkOf(starting), WorkOf(srelays),
                  openS)
  BY DEF Inv, TypeOK, Bounded, Ends, ServerSide
<1>3. /\ w \notin Elements(idle) /\ w \notin WorkOf(starting)
      /\ Apart(Elements(idle), WorkOf(starting))
  BY <1>1, <1>2 DEF AtServer, Apart
<1>4. /\ Append(idle, w) \in Seq(Conns) /\ Elements(Append(idle, w)) = Elements(idle) \cup {w}
      /\ Distinct(Append(idle, w))
  BY <1>2, <1>3, AppendElements
<1>5. Apart(Elements(Append(idle, w)), WorkOf(starting))
  BY <1>3, <1>4 DEF Apart
<1>6. \E started, F, G, k : Pairing(pending, Append(idle, w), started, F, G, k)
  BY <1>1, <1>2, <1>4, <1>5, Matches
<1> QED BY <1>1, <1>6

LEMMA BindInv == ASSUME NEW w \in Conns PROVE Inv /\ Bind(w) => Inv'
<1> SUFFICES ASSUME Inv, Bind(w) PROVE Inv'
  OBVIOUS
<1>1. /\ w \in incoming /\ incoming' = incoming \ {w}
      /\ UNCHANGED <<client, pool, dialing, crelays, made, server, backlog, srelays, requests,
                     toServer, openC, broken, faults, seen, dialled>>
  BY DEF Bind, cvars
<1>2. /\ idle \in Seq(Conns) /\ pending \in Seq(Users) /\ faults \in 0..MaxFaults
      /\ requests \in Nat /\ lost \in Nat /\ seen \subseteq Users /\ Len(pending) <= PendingLimit
  BY DEF Inv, TypeOK, Bounded
<1>3. CASE server = "active" /\ Len(idle) < MAX_STREAMS
  <2>1. PICK started, F, G, k :
          Pairing(pending, Append(idle, w), started, F, G, k) /\ lost' = lost
    BY <1>3, BindPairs
  <2>2. /\ Append(idle, w) \in Seq(Conns) /\ Elements(Append(idle, w)) = Elements(idle) \cup {w}
        /\ Len(Append(idle, w)) = Len(idle) + 1 /\ Len(idle) \in Nat
    BY <1>2, AppendElements
  <2>3. Len(Append(idle, w)) <= MAX_STREAMS
    BY <1>3, <2>2, TunnelAssumption
  <2>4. PICK q : q = Append(idle, w)
    OBVIOUS
  <2> QED BY <1>1, <1>2, <1>3, <2>1, <2>2, <2>3, <2>4, PairingInv
<1>4. CASE ~(server = "active" /\ Len(idle) < MAX_STREAMS)
  <2>1. /\ openS' = openS \ {w} /\ lost' = lost + 1 /\ UNCHANGED <<idle, pending, starting, toClient>>
    BY <1>4 DEF Bind
  <2> QED BY <1>1, <1>2, <2>1, IncomingDropped
<1> QED BY <1>3, <1>4

LEMMA ServicePairs ==
    ASSUME Inv, NEW u \in Users, ServiceAccept(u),
           Len(pending) < PendingLimit, active_streams < StreamLimit
    PROVE  \E started, F, G, k : Pairing(Append(pending, u), idle, started, F, G, k)
<1>1. match_pending(Append(pending, u), idle)
  BY DEF ServiceAccept
<1>2. /\ idle \in Seq(Conns) /\ pending \in Seq(Users) /\ starting \subseteq Streams
      /\ Cardinality(starting) <= MAX_PENDING /\ toClient \in [Conns -> Seq(Users)]
      /\ IsFiniteSet(starting) /\ Distinct(idle)
      /\ AtServer(Elements(backlog), incoming, Elements(idle), WorkOf(starting), WorkOf(srelays),
                  openS)
  BY DEF Inv, TypeOK, Bounded, Ends, ServerSide
<1>3. Apart(Elements(idle), WorkOf(starting))
  BY <1>2 DEF AtServer
<1>4. Append(pending, u) \in Seq(Users)
  BY <1>2, AppendElements
<1> QED BY <1>1, <1>2, <1>3, <1>4, Matches

LEMMA ServiceAcceptInv == ASSUME NEW u \in Users PROVE Inv /\ ServiceAccept(u) => Inv'
<1> SUFFICES ASSUME Inv, ServiceAccept(u) PROVE Inv'
  OBVIOUS
<1>1. /\ server = "active" /\ u \notin seen /\ seen' = seen \cup {u}
      /\ UNCHANGED <<client, pool, dialing, crelays, made, server, backlog, incoming, srelays,
                     toServer, openC, broken, dialled>>
  BY DEF ServiceAccept, cvars
<1>2. /\ idle \in Seq(Conns) /\ pending \in Seq(Users) /\ faults \in 0..MaxFaults
      /\ requests \in Nat /\ lost \in Nat /\ seen' \subseteq Users /\ Len(idle) <= MAX_STREAMS
  BY <1>1 DEF Inv, TypeOK
<1>3. CASE Len(pending) < PendingLimit /\ active_streams < StreamLimit
  <2>1. PICK started, F, G, k : Pairing(Append(pending, u), idle, started, F, G, k)
    BY <1>3, ServicePairs
  <2>2. requests' \in Nat /\ lost' \in Nat /\ faults' \in 0..MaxFaults
    <3>1. AskForWork
      BY <1>3 DEF ServiceAccept
    <3> QED BY <1>2, <3>1, TunnelAssumption DEF AskForWork
  <2>3. /\ Append(pending, u) \in Seq(Users) /\ Len(Append(pending, u)) = Len(pending) + 1
        /\ Len(pending) \in Nat
    BY <1>2, AppendElements
  <2>4. Len(Append(pending, u)) <= PendingLimit
    BY <1>3, <2>3, TunnelAssumption
  <2>5. incoming' = incoming \ {} /\ Elements(idle) = Elements(idle) \cup {} /\ {} \in SUBSET incoming
    BY <1>1
  <2> QED BY <1>1, <1>2, <2>1, <2>2, <2>3, <2>4, <2>5, PairingInv
<1>4. CASE ~(Len(pending) < PendingLimit /\ active_streams < StreamLimit)
  <2>1. UNCHANGED <<pending, idle, starting, toClient, openS, requests, faults, lost>>
    BY <1>4 DEF ServiceAccept
  <2>2. TypeOK'
    BY <1>1, <1>2, <2>1 DEF Inv, TypeOK
  <2>3. Bounded'
    BY <1>1, <2>1 DEF Inv, Bounded
  <2>4. ServerSide' /\ ClientSide'
    BY <1>1, <2>1, ServerSame, ClientSame DEF Inv, Ends
  <2>5. Numbered' /\ Fresh' /\ AllStarted' /\ Relayed'
    BY <1>1, <2>1 DEF Inv, Ends, Numbered, Fresh, AllStarted, Started, Relayed
  <2> QED BY <2>2, <2>3, <2>4, <2>5 DEF Inv, Ends
<1> QED BY <1>3, <1>4
-----------------------------------------------------------------------------
(***************************************************************************)
(* What every state satisfies.                                             *)
(***************************************************************************)

LEMMA StepInv == Inv /\ [Next]_vars => Inv'
<1> SUFFICES ASSUME Inv, [Next]_vars PROVE Inv'
  OBVIOUS
<1>1. CASE Registered \/ RequestDropped \/ Request \/ LocalRefused \/ LocalConnected \/ ClientEnds
  BY <1>1, RegisteredInv, RequestDroppedInv, RequestInv, LocalRefusedInv, LocalConnectedInv,
     ClientEndsInv
<1>2. CASE Accept \/ ServerEnds
  BY <1>2, AcceptInv, ServerEndsInv
<1>3. ASSUME NEW w \in Conns, IdleLost(w) \/ StartStream(w) \/ Bind(w) \/ IncomingClosed(w) \/ Break(w)
      PROVE  Inv'
  BY <1>3, IdleLostInv, StartStreamInv, BindInv, IncomingClosedInv, BreakInv
<1>4. ASSUME NEW u \in Users, ServiceAccept(u) \/ ExpirePending(u) \/ ExpireStarting(u)
      PROVE  Inv'
  BY <1>4, ServiceAcceptInv, ExpirePendingInv, DropStartingInv DEF ExpireStarting
<1>5. ASSUME NEW s \in crelays, ClientRelayEnds(s) PROVE Inv'
  BY <1>5, ClientRelayEndsInv
<1>6. ASSUME NEW s \in starting, StartingReady(s) \/ StartingFails(s) PROVE Inv'
  BY <1>6, StartingReadyInv, DropStartingInv DEF StartingFails
<1>7. ASSUME NEW s \in srelays, ServerRelayEnds(s) PROVE Inv'
  BY <1>7, ServerRelayEndsInv
<1>8. CASE UNCHANGED vars
  <2>1. UNCHANGED <<client, pool, dialing, crelays, made, server, backlog, incoming, idle,
                    pending, starting, srelays, requests, toServer, toClient, openC, openS,
                    broken, faults, seen, dialled, lost>>
    BY <1>8 DEF vars, cvars, svars, net, history
  <2>2. TypeOK' /\ Bounded'
    BY <2>1 DEF Inv, TypeOK, Bounded
  <2>3. ServerSide' /\ ClientSide'
    BY <2>1, ServerSame, ClientSame DEF Inv, Ends
  <2>4. Numbered' /\ Fresh' /\ AllStarted' /\ Relayed'
    BY <2>1 DEF Inv, Ends, Numbered, Fresh, AllStarted, Started, Relayed
  <2> QED BY <2>2, <2>3, <2>4 DEF Inv, Ends
<1> QED BY <1>1, <1>2, <1>3, <1>4, <1>5, <1>6, <1>7, <1>8 DEF Next

LEMMA AlwaysInv == Spec => []Inv
BY StartInv, StepInv, PTL DEF Spec

\* Every variable of Tunnel has its type in every state: work[], the relays,
\* starting[] and pending[] of both programs never overflow.
THEOREM TunnelTypes == Spec => []TypeOK
<1>1. Inv => TypeOK
  BY DEF Inv
<1> QED BY <1>1, AlwaysInv, PTL

\* Every open end of a work connection is held in exactly one place of its
\* program, and nothing holds a closed one.
THEOREM EndsAlwaysHeld == Spec => []EndsHeld
BY InvEndsHeld, AlwaysInv, PTL

\* Both programs agree about every work connection they share: which are
\* idle, and which user's stream each of the others carries.
THEOREM EndsAlwaysAgree == Spec => []EndsAgree
BY InvEndsAgree, AlwaysInv, PTL
-----------------------------------------------------------------------------
(***************************************************************************)
(* No wakeup is lost, if starting[] has room for all streams.              *)
(***************************************************************************)

\* Nobody waits next to an idle connection, and the limit of streams holds.
Quiet ==
    /\ pending = <<>> \/ idle = <<>>
    /\ active_streams <= StreamLimit

\* The lengths that the argument adds up.
Sized ==
    /\ Len(pending) \in Nat /\ Len(idle) \in Nat /\ Len(backlog) \in Nat
    /\ Cardinality(starting) \in Nat /\ Cardinality(srelays) \in Nat
    /\ Cardinality(incoming) \in Nat /\ requests \in Nat /\ lost \in Nat
    /\ Len(pending) = 0 <=> pending = <<>>
    /\ Len(idle) = 0 <=> idle = <<>>

LEMMA Sizes == Inv => Sized
<1> SUFFICES ASSUME Inv PROVE Sized
  OBVIOUS
<1>1. /\ pending \in Seq(Users) /\ idle \in Seq(Conns) /\ backlog \in Seq(Conns)
      /\ incoming \subseteq Conns /\ requests \in Nat /\ lost \in Nat
      /\ IsFiniteSet(starting) /\ IsFiniteSet(srelays)
  BY DEF Inv, TypeOK, Bounded
<1>2. IsFiniteSet(incoming)
  BY <1>1, Held, FS_Subset
<1>3. Cardinality(starting) \in Nat /\ Cardinality(srelays) \in Nat /\ Cardinality(incoming) \in Nat
  BY <1>1, <1>2, FS_CardinalityType
<1>4. Len(pending) \in Nat /\ Len(idle) \in Nat /\ Len(backlog) \in Nat
  BY <1>1, LenProperties
<1>5. (Len(pending) = 0 <=> pending = <<>>) /\ (Len(idle) = 0 <=> idle = <<>>)
  BY <1>1, EmptySeq
<1> QED BY <1>1, <1>3, <1>4, <1>5 DEF Sized

LEMMA SizesNext == Inv' => Sized'
BY Sizes, PTL

\* What is on its way to the server.
Supply == requests + Len(backlog) + Cardinality(incoming) + lost

LEMMA QueuesSame ==
    ASSUME Inv, Inv', Quiet, Awaited, UNCHANGED <<server, pending, idle>>,
           Cardinality(starting') + Cardinality(srelays') <= Cardinality(starting) + Cardinality(srelays),
           Supply' >= Supply
    PROVE  Quiet' /\ Awaited'
<1>1. Sized /\ Sized' /\ StreamLimit \in Nat
  BY Sizes, SizesNext, TunnelAssumption
<1>2. Quiet'
  <2>1. active_streams' <= active_streams
    BY <1>1 DEF active_streams, Sized
  <2>2. active_streams \in Nat /\ active_streams' \in Nat
    BY <1>1 DEF active_streams, Sized
  <2> QED BY <1>1, <2>1, <2>2 DEF Quiet
<1>3. Awaited'
  <2>1. Supply \in Nat /\ Supply' \in Nat
    <3>1. /\ requests \in Nat /\ Len(backlog) \in Nat /\ Cardinality(incoming) \in Nat /\ lost \in Nat
          /\ requests' \in Nat /\ Len(backlog') \in Nat /\ Cardinality(incoming') \in Nat /\ lost' \in Nat
      BY <1>1 DEF Sized
    <3> QED BY <3>1 DEF Supply
  <2>2. server = "active" => Len(pending) <= Supply
    BY DEF Awaited, Supply
  <2>3. server' = "active" => Len(pending') <= Supply'
    BY <1>1, <2>1, <2>2 DEF Sized
  <2> QED BY <2>3 DEF Awaited, Supply
<1> QED BY <1>2, <1>3

LEMMA AcceptSupply == Inv /\ Accept => Supply' >= Supply
<1> SUFFICES ASSUME Inv, Accept PROVE Supply' >= Supply
  OBVIOUS
<1>1. /\ backlog # <<>> /\ backlog' = Tail(backlog) /\ requests' = requests
      /\ \/ incoming' = incoming /\ lost' = lost + 1
         \/ incoming' = incoming \cup {Head(backlog)} /\ lost' = lost
  BY DEF Accept
<1>2. /\ Len(Tail(backlog)) = Len(backlog) - 1 /\ Head(backlog) \in Elements(backlog)
  <2>1. backlog \in Seq(Conns)
    BY DEF Inv, TypeOK
  <2> QED BY <1>1, <2>1, HeadTail
<1>3. Head(backlog) \notin incoming
  BY <1>2 DEF Inv, Ends, ServerSide, AtServer, Apart
<1>4. IsFiniteSet(incoming)
  <2>1. incoming \subseteq Conns
    BY DEF Inv, TypeOK
  <2> QED BY <2>1, Held, FS_Subset
<1>5. Cardinality(incoming \cup {Head(backlog)}) = Cardinality(incoming) + 1
  BY <1>3, <1>4, FS_AddElement
<1>6. Sized
  BY Sizes
<1>7. /\ requests \in Nat /\ Len(backlog) \in Nat /\ Cardinality(incoming) \in Nat /\ lost \in Nat
      /\ requests' = requests /\ Len(backlog') = Len(backlog) - 1
      /\ \/ Cardinality(incoming') = Cardinality(incoming) /\ lost' = lost + 1
         \/ Cardinality(incoming') = Cardinality(incoming) + 1 /\ lost' = lost
  BY <1>1, <1>2, <1>5, <1>6 DEF Sized
<1> QED BY <1>7 DEF Supply

\* One connection less is incoming.
LEMMA IncomingLess ==
    ASSUME Inv, NEW w \in incoming
    PROVE  Cardinality(incoming \ {w}) = Cardinality(incoming) - 1
<1>1. incoming \subseteq Conns
  BY DEF Inv, TypeOK
<1>2. IsFiniteSet(incoming)
  BY <1>1, Held, FS_Subset
<1> QED BY <1>2, FS_RemoveElement

LEMMA AddsSupply ==
    ASSUME Inv, NEW idling \in SUBSET Conns, NEW k \in 0..MAX_STREAMS, NEW fails \in 0..1,
           NEW closing, add_work(idling, k, fails, closing)
    PROVE  Len(backlog') = Len(backlog) + k
BY Adds DEF Added

LEMMA RequestSupply == Inv /\ Request => Supply' >= Supply
<1> SUFFICES ASSUME Inv, Request PROVE Supply' >= Supply
  OBVIOUS
<1>1. /\ requests' = requests - 1 /\ incoming' = incoming
      /\ \/ add_work(pool, 1, 0, {}) /\ lost' = lost
         \/ add_work(pool, 0, 1, {}) /\ lost' = lost + 1
         \/ add_work(pool, 0, 0, {}) /\ lost' = lost + 1
  BY DEF Request
<1>2. pool \in SUBSET Conns /\ 0 \in 0..MAX_STREAMS /\ 1 \in 0..MAX_STREAMS /\ 0 \in 0..1 /\ 1 \in 0..1
  BY TunnelAssumption DEF Inv, TypeOK
<1>3. \/ Len(backlog') = Len(backlog) + 1 /\ lost' = lost
      \/ Len(backlog') = Len(backlog) + 0 /\ lost' = lost + 1
  BY <1>1, <1>2, AddsSupply
<1>4. Sized
  BY Sizes
<1> QED BY <1>1, <1>3, <1>4 DEF Supply, Sized

LEMMA FillSupply ==
    ASSUME Inv, NEW idling \in SUBSET Conns, NEW closing, Fill(idling, closing),
           UNCHANGED <<requests, incoming, lost>>
    PROVE  Supply' >= Supply
<1>1. PICK k \in 0..MAX_STREAMS, fails \in 0..1 : add_work(idling, k, fails, closing)
  BY DEF Fill
<1>2. Len(backlog') = Len(backlog) + k
  BY <1>1, AddsSupply
<1>3. Sized /\ k \in Nat
  BY Sizes
<1> QED BY <1>2, <1>3 DEF Supply, Sized

LEMMA BindQuiet ==
    ASSUME StreamLimit <= MAX_PENDING, NEW w \in Conns
    PROVE  Inv /\ Inv' /\ Quiet /\ Awaited /\ Bind(w) => Quiet' /\ Awaited'
<1> SUFFICES ASSUME Inv, Inv', Quiet, Awaited, Bind(w) PROVE Quiet' /\ Awaited'
  OBVIOUS
<1>1. /\ w \in incoming /\ incoming' = incoming \ {w}
      /\ UNCHANGED <<server, backlog, srelays, requests>>
  BY DEF Bind
<1>2. Cardinality(incoming') = Cardinality(incoming) - 1
  BY <1>1, IncomingLess
<1>3. Sized /\ Sized' /\ StreamLimit \in Nat /\ MAX_PENDING \in Nat
  BY Sizes, SizesNext, TunnelAssumption
<1>4. CASE server = "active" /\ Len(idle) < MAX_STREAMS
  <2>1. PICK started, F, G, k :
          Pairing(pending, Append(idle, w), started, F, G, k) /\ lost' = lost
    BY <1>4, BindPairs
  <2>2. Len(Append(idle, w)) = Len(idle) + 1
    BY AppendElements DEF Inv, TypeOK
  <2>3. /\ k \in Nat /\ k <= Len(pending) /\ k <= Len(idle) + 1
        /\ Len(pending') = Len(pending) - k /\ Len(idle') = (Len(idle) + 1) - k
        /\ Cardinality(starting') <= Cardinality(starting) + k
        /\ k = Len(pending) \/ k = Len(idle) + 1 \/ Cardinality(starting') >= MAX_PENDING
    BY <2>1, <2>2 DEF Pairing
  <2>4. active_streams <= StreamLimit /\ (Len(pending) = 0 \/ Len(idle) = 0)
    BY <1>3 DEF Quiet, Sized
  <2>5. Len(pending') = 0 \/ (Len(idle') = 0 /\ k = 1)
    <3>1. /\ Len(pending) \in Nat /\ Len(idle) \in Nat /\ Cardinality(starting) \in Nat
          /\ Cardinality(srelays) \in Nat /\ Len(pending') \in Nat /\ Len(idle') \in Nat
          /\ Cardinality(starting') \in Nat
      BY <1>3 DEF Sized
    <3>2. Len(pending) + Cardinality(starting) + Cardinality(srelays) <= MAX_PENDING
      BY <1>3, <2>4, <3>1 DEF active_streams
    <3>3. CASE Len(pending) = 0
      BY <2>3, <3>1, <3>3
    <3>4. CASE Len(pending) > 0 /\ Len(idle) = 0
      <4>1. k = 0 \/ k = 1
        BY <2>3, <3>4
      <4>2. CASE k = 0
        BY <1>3, <2>3, <3>1, <3>2, <3>4, <4>2
      <4> QED BY <2>3, <3>1, <3>4, <4>1, <4>2
    <3> QED BY <2>4, <3>1, <3>3, <3>4
  <2>6. Quiet'
    <3>1. pending' = <<>> \/ idle' = <<>>
      BY <1>3, <2>5 DEF Sized
    <3>2. active_streams' <= StreamLimit
      <4>1. /\ Len(pending) \in Nat /\ Cardinality(starting) \in Nat
            /\ Cardinality(srelays) \in Nat /\ Cardinality(starting') \in Nat
        BY <1>3 DEF Sized
      <4>2. /\ Len(pending') = Len(pending) - k /\ k \in Nat
            /\ Cardinality(starting') <= Cardinality(starting) + k
            /\ Cardinality(srelays') = Cardinality(srelays)
            /\ Len(pending) + Cardinality(starting) + Cardinality(srelays) <= StreamLimit
        BY <1>1, <2>3, <2>4 DEF active_streams
      <4> QED BY <1>3, <4>1, <4>2 DEF active_streams
    <3> QED BY <3>1, <3>2 DEF Quiet
  <2>7. Awaited'
    <3>1. Len(pending) <= Supply
      BY <1>4 DEF Awaited, Supply
    <3>2. Len(pending') <= Supply'
      <4>1. /\ requests \in Nat /\ Len(backlog) \in Nat /\ Cardinality(incoming) \in Nat /\ lost \in Nat
            /\ requests' \in Nat /\ Len(backlog') \in Nat /\ Cardinality(incoming') \in Nat /\ lost' \in Nat
            /\ Len(pending) \in Nat /\ Len(pending') \in Nat
        BY <1>3 DEF Sized
      <4>2. /\ requests' = requests /\ Len(backlog') = Len(backlog) /\ lost' = lost
            /\ Cardinality(incoming') = Cardinality(incoming) - 1
            /\ Len(pending') = Len(pending) - k
        BY <1>1, <1>2, <2>1, <2>3
      <4> QED BY <2>5, <3>1, <4>1, <4>2 DEF Supply
    <3> QED BY <3>2 DEF Awaited, Supply
  <2> QED BY <2>6, <2>7
<1>5. CASE ~(server = "active" /\ Len(idle) < MAX_STREAMS)
  <2>1. lost' = lost + 1 /\ UNCHANGED <<idle, pending, starting>>
    BY <1>5 DEF Bind
  <2>2. Supply' >= Supply
    BY <1>1, <1>2, <1>3, <2>1 DEF Supply, Sized
  <2>3. Cardinality(starting') + Cardinality(srelays') <= Cardinality(starting) + Cardinality(srelays)
    BY <1>1, <1>3, <2>1 DEF Sized
  <2> QED BY <1>1, <2>1, <2>2, <2>3, QueuesSame
<1> QED BY <1>4, <1>5

LEMMA ServiceAcceptQuiet ==
    ASSUME StreamLimit <= MAX_PENDING, NEW u \in Users
    PROVE  Inv /\ Inv' /\ Quiet /\ Awaited /\ ServiceAccept(u) => Quiet' /\ Awaited'
<1> SUFFICES ASSUME Inv, Inv', Quiet, Awaited, ServiceAccept(u) PROVE Quiet' /\ Awaited'
  OBVIOUS
<1>1. UNCHANGED <<server, backlog, incoming, srelays>> /\ server = "active"
  BY DEF ServiceAccept
<1>2. Sized /\ Sized' /\ StreamLimit \in Nat /\ MAX_PENDING \in Nat
  BY Sizes, SizesNext, TunnelAssumption
<1>3. CASE Len(pending) < PendingLimit /\ active_streams < StreamLimit
  <2>1. PICK started, F, G, k : Pairing(Append(pending, u), idle, started, F, G, k)
    BY <1>3, ServicePairs
  <2>2. Len(Append(pending, u)) = Len(pending) + 1
    BY AppendElements DEF Inv, TypeOK
  <2>3. /\ k \in Nat /\ k <= Len(pending) + 1 /\ k <= Len(idle)
        /\ Len(pending') = (Len(pending) + 1) - k /\ Len(idle') = Len(idle) - k
        /\ Cardinality(starting') <= Cardinality(starting) + k
        /\ k = Len(pending) + 1 \/ k = Len(idle) \/ Cardinality(starting') >= MAX_PENDING
    BY <2>1, <2>2 DEF Pairing
  <2>4. Len(pending) = 0 \/ Len(idle) = 0
    BY <1>2 DEF Quiet, Sized
  <2>5. Len(pending') = 0 \/ (Len(idle) = 0 /\ Len(idle') = 0 /\ k = 0)
    <3>1. /\ Len(pending) \in Nat /\ Len(idle) \in Nat /\ Cardinality(starting) \in Nat
          /\ Cardinality(srelays) \in Nat /\ Len(pending') \in Nat /\ Len(idle') \in Nat
          /\ Cardinality(starting') \in Nat
      BY <1>2 DEF Sized
    <3>2. Len(pending) + Cardinality(starting) + Cardinality(srelays) < MAX_PENDING
      BY <1>2, <1>3, <3>1 DEF active_streams
    <3>3. CASE Len(idle) = 0
      BY <2>3, <3>1, <3>3
    <3>4. CASE Len(pending) = 0 /\ Len(idle) > 0
      <4>1. k = 0 \/ k = 1
        BY <2>3, <3>4
      <4>2. CASE k = 0
        BY <1>2, <2>3, <3>1, <3>2, <3>4, <4>2
      <4> QED BY <2>3, <3>1, <3>4, <4>1, <4>2
    <3> QED BY <2>4, <3>1, <3>3, <3>4
  <2>6. Quiet'
    <3>1. pending' = <<>> \/ idle' = <<>>
      BY <1>2, <2>5 DEF Sized
    <3>2. active_streams' <= StreamLimit
      <4>1. /\ Len(pending) \in Nat /\ Cardinality(starting) \in Nat
            /\ Cardinality(srelays) \in Nat /\ Cardinality(starting') \in Nat
        BY <1>2 DEF Sized
      <4>2. /\ Len(pending') = (Len(pending) + 1) - k /\ k \in Nat
            /\ Cardinality(starting') <= Cardinality(starting) + k
            /\ Cardinality(srelays') = Cardinality(srelays)
            /\ Len(pending) + Cardinality(starting) + Cardinality(srelays) < StreamLimit
        BY <1>1, <1>3, <2>3 DEF active_streams
      <4> QED BY <1>2, <4>1, <4>2 DEF active_streams
    <3> QED BY <3>1, <3>2 DEF Quiet
  <2>7. Awaited'
    <3>1. Len(pending) <= Supply
      BY <1>1 DEF Awaited, Supply
    <3>2. CASE Len(pending') = 0
      <4>1. Len(pending') <= Supply'
        BY <1>2, <3>2 DEF Supply, Sized
      <4> QED BY <4>1 DEF Awaited, Supply
    <3>3. CASE Len(idle) = 0 /\ k = 0
      <4>1. idle = <<>>
        BY <1>2, <3>3 DEF Sized
      <4>2. \/ requests' = requests + 1 /\ lost' = lost
            \/ requests' = requests /\ lost' = lost + 1
        BY <1>3, <4>1 DEF ServiceAccept, AskForWork
      <4>3. Len(pending') <= Supply'
        BY <1>1, <1>2, <2>3, <3>1, <3>3, <4>2 DEF Supply, Sized
      <4> QED BY <4>3 DEF Awaited, Supply
    <3> QED BY <2>5, <3>2, <3>3
  <2> QED BY <2>6, <2>7
<1>4. CASE ~(Len(pending) < PendingLimit /\ active_streams < StreamLimit)
  <2>1. UNCHANGED <<pending, idle, starting, requests, lost>>
    BY <1>4 DEF ServiceAccept
  <2>2. Supply' >= Supply
    BY <1>1, <1>2, <2>1 DEF Supply, Sized
  <2>3. Cardinality(starting') + Cardinality(srelays') <= Cardinality(starting) + Cardinality(srelays)
    BY <1>1, <1>2, <2>1 DEF Sized
  <2> QED BY <1>1, <2>1, <2>2, <2>3, QueuesSame
<1> QED BY <1>3, <1>4

LEMMA StepQuiet ==
    ASSUME StreamLimit <= MAX_PENDING
    PROVE  Inv /\ Inv' /\ Quiet /\ Awaited /\ [Next]_vars => Quiet' /\ Awaited'
<1> SUFFICES ASSUME Inv, Inv', Quiet, Awaited, [Next]_vars PROVE Quiet' /\ Awaited'
  OBVIOUS
<1> DEFINE Less == Cardinality(starting') + Cardinality(srelays')
                     <= Cardinality(starting) + Cardinality(srelays)
<1>1. Sized /\ Sized'
  BY Sizes, SizesNext
<1>2. /\ Supply \in Nat
      /\ UNCHANGED <<requests, backlog, incoming, lost>> => Supply' = Supply
  <2>1. requests \in Nat /\ Len(backlog) \in Nat /\ Cardinality(incoming) \in Nat /\ lost \in Nat
    BY <1>1 DEF Sized
  <2> QED BY <2>1 DEF Supply
<1>3. UNCHANGED <<starting, srelays>> => Less
  BY <1>1 DEF Sized
<1>4. CASE Registered
  <2>1. Fill({}, {})
        /\ UNCHANGED <<server, incoming, idle, pending, starting, srelays, requests, lost>>
    BY <1>4 DEF Registered, history
  <2>2. Supply' >= Supply
    BY <2>1, FillSupply
  <2> QED BY <1>3, <2>1, <2>2, QueuesSame
<1>5. CASE RequestDropped
  <2>1. /\ requests' = requests - 1 /\ lost' = lost + 1
        /\ UNCHANGED <<server, backlog, incoming, idle, pending, starting, srelays>>
    BY <1>5 DEF RequestDropped, svars
  <2>2. requests \in Nat /\ Len(backlog) \in Nat /\ Cardinality(incoming) \in Nat /\ lost \in Nat
    BY <1>1 DEF Sized
  <2>3. Supply' >= Supply
    BY <2>1, <2>2 DEF Supply
  <2> QED BY <1>3, <2>1, <2>3, QueuesSame
<1>6. CASE Request
  <2>1. UNCHANGED <<server, incoming, idle, pending, starting, srelays>>
    BY <1>6 DEF Request
  <2> QED BY <1>3, <1>6, <2>1, RequestSupply, QueuesSame
<1>7. CASE LocalRefused \/ LocalConnected
  <2>1. PICK s, m, R : DialEnds(s, m, R)
    BY <1>7 DEF LocalRefused, LocalConnected
  <2>2. PICK closing : Fill(pool, closing)
    BY <2>1 DEF DialEnds
  <2>3. /\ UNCHANGED <<server, incoming, idle, pending, starting, srelays, requests, lost>>
        /\ pool \in SUBSET Conns
    BY <2>1 DEF DialEnds, Inv, TypeOK
  <2>4. Supply' >= Supply
    BY <2>2, <2>3, FillSupply
  <2> QED BY <1>3, <2>3, <2>4, QueuesSame
<1>8. CASE ClientEnds \/ (\E s \in crelays : ClientRelayEnds(s))
           \/ (\E w \in Conns : IdleLost(w) \/ StartStream(w) \/ Break(w)) \/ UNCHANGED vars
  <2>1. UNCHANGED <<server, pending, idle, starting, srelays, requests, backlog, incoming, lost>>
    BY <1>8 DEF ClientEnds, ClientRelayEnds, IdleLost, StartStream, Break, vars, svars, net, history
  <2> QED BY <1>2, <1>3, <2>1, QueuesSame
<1>9. CASE Accept
  <2>1. UNCHANGED <<server, idle, pending, starting, srelays>>
    BY <1>9 DEF Accept
  <2> QED BY <1>3, <1>9, <2>1, AcceptSupply, QueuesSame
<1>10. CASE ServerEnds
  <2>1. server' = "ended" /\ pending' = <<>> /\ starting' = {} /\ srelays' = {}
    BY <1>10 DEF ServerEnds
  <2>2. active_streams' = 0
    BY <2>1, FS_EmptySet DEF active_streams
  <2> QED BY <2>1, <2>2, TunnelAssumption DEF Quiet, Awaited
<1>11. ASSUME NEW w \in Conns, IncomingClosed(w) PROVE Quiet' /\ Awaited'
  <2>1. /\ w \in incoming /\ incoming' = incoming \ {w} /\ lost' = lost + 1
        /\ UNCHANGED <<server, backlog, idle, pending, starting, srelays, requests>>
    BY <1>11 DEF IncomingClosed
  <2>2. Cardinality(incoming') = Cardinality(incoming) - 1
    BY <2>1, IncomingLess
  <2>3. requests \in Nat /\ Len(backlog) \in Nat /\ Cardinality(incoming) \in Nat /\ lost \in Nat
    BY <1>1 DEF Sized
  <2>4. Supply' >= Supply
    BY <2>1, <2>2, <2>3 DEF Supply
  <2> QED BY <1>3, <2>1, <2>4, QueuesSame
<1>12. ASSUME NEW u \in Users, ExpirePending(u) PROVE Quiet' /\ Awaited'
  <2>1. UNCHANGED <<server, idle, starting, srelays, requests, backlog, incoming, lost>>
    BY <1>12 DEF ExpirePending, net, history
  <2>2. PICK i \in DOMAIN pending :
          pending' = SubSeq([pending EXCEPT ![i] = pending[Len(pending)]], 1, Len(pending) - 1)
    BY <1>12 DEF ExpirePending
  <2>3. pending \in Seq(Users)
    BY DEF Inv, TypeOK
  <2>4. Len(pending') = Len(pending) - 1 /\ Len(pending) \in Nat /\ Len(pending) >= 1
    BY <2>2, <2>3, RemoveElement
  <2>5. idle' = <<>>
    BY <1>1, <2>1, <2>4 DEF Quiet, Sized
  <2>6. active_streams' <= StreamLimit
    <3>1. Cardinality(starting) \in Nat /\ Cardinality(srelays) \in Nat /\ StreamLimit \in Nat
      BY <1>1, TunnelAssumption DEF Sized
    <3>2. Len(pending) + Cardinality(starting) + Cardinality(srelays) <= StreamLimit
      BY DEF Quiet, active_streams
    <3> QED BY <2>1, <2>4, <3>1, <3>2 DEF active_streams
  <2>7. server = "active" => Len(pending) <= Supply
    BY DEF Awaited, Supply
  <2>8. server' = "active" => Len(pending') <= Supply'
    BY <1>2, <2>1, <2>4, <2>7
  <2> QED BY <2>5, <2>6, <2>8 DEF Quiet, Awaited, Supply
<1>13. ASSUME NEW s, DropStarting(s) PROVE Quiet' /\ Awaited'
  <2>1. /\ s \in starting /\ starting' = starting \ {s}
        /\ UNCHANGED <<server, pending, idle, srelays, requests, backlog, incoming, lost>>
    BY <1>13 DEF DropStarting, history
  <2>2. Cardinality(starting') = Cardinality(starting) - 1
    BY <2>1, FS_RemoveElement DEF Inv, Bounded
  <2>3. Less
    BY <1>1, <2>1, <2>2 DEF Sized
  <2> QED BY <1>2, <2>1, <2>3, QueuesSame
<1>14. ASSUME NEW s \in srelays, ServerRelayEnds(s) PROVE Quiet' /\ Awaited'
  <2>1. /\ s \in srelays /\ srelays' = srelays \ {s}
        /\ UNCHANGED <<server, pending, idle, starting, requests, backlog, incoming, lost>>
    BY <1>14 DEF ServerRelayEnds, history
  <2>2. Cardinality(srelays') = Cardinality(srelays) - 1
    BY <2>1, FS_RemoveElement DEF Inv, Bounded
  <2>3. Less
    BY <1>1, <2>1, <2>2 DEF Sized
  <2> QED BY <1>2, <2>1, <2>3, QueuesSame
<1>15. ASSUME NEW s \in starting, StartingReady(s) PROVE Quiet' /\ Awaited'
  <2>1. /\ starting' = starting \ {s} /\ (srelays' = srelays \/ srelays' = srelays \cup {s})
        /\ UNCHANGED <<server, pending, idle, requests, backlog, incoming, lost>>
    BY <1>15 DEF StartingReady, history
  <2>2. IsFiniteSet(starting) /\ IsFiniteSet(srelays)
    BY DEF Inv, Bounded
  <2>3. Cardinality(starting') = Cardinality(starting) - 1
    BY <2>1, <2>2, FS_RemoveElement
  <2>4. Cardinality(srelays') = Cardinality(srelays) \/ Cardinality(srelays') = Cardinality(srelays) + 1
    BY <2>1, <2>2, FS_AddElement
  <2>5. Cardinality(starting) \in Nat /\ Cardinality(srelays) \in Nat
    BY <1>1 DEF Sized
  <2>6. Less
    BY <2>3, <2>4, <2>5
  <2> QED BY <1>2, <2>1, <2>6, QueuesSame
<1>16. ASSUME NEW w \in Conns, Bind(w) PROVE Quiet' /\ Awaited'
  BY <1>16, BindQuiet
<1>17. ASSUME NEW u \in Users, ServiceAccept(u) PROVE Quiet' /\ Awaited'
  BY <1>17, ServiceAcceptQuiet
<1>18. ASSUME NEW u \in Users, ExpireStarting(u) PROVE Quiet' /\ Awaited'
  BY <1>13, <1>18 DEF ExpireStarting
<1>19. ASSUME NEW s \in starting, StartingFails(s) PROVE Quiet' /\ Awaited'
  BY <1>13, <1>19 DEF StartingFails
<1> HIDE DEF Less
<1> QED BY <1>4, <1>5, <1>6, <1>7, <1>8, <1>9, <1>10, <1>11, <1>12, <1>14, <1>15, <1>16, <1>17,
           <1>18, <1>19 DEF Next

LEMMA StartQuiet == Init => Quiet /\ Awaited
<1> SUFFICES ASSUME Init PROVE Quiet /\ Awaited
  OBVIOUS
<1>1. Sized
  BY StartInv, Sizes
<1>2. Len(pending) = 0 /\ active_streams = 0
  BY EmptySeq, FS_EmptySet DEF Init, active_streams
<1> QED BY <1>1, <1>2, TunnelAssumption DEF Init, Quiet, Awaited, Sized

\* Where starting[] has room for every stream the limits admit, no wakeup is
\* lost: for every pending stream a request or a connection is on its way,
\* but for those that a failure or a limit cost.
THEOREM NoLostWakeup ==
    ASSUME StreamLimit <= MAX_PENDING
    PROVE  Spec => []Awaited
<1>1. Inv /\ Inv' /\ Quiet /\ Awaited /\ [Next]_vars => Quiet' /\ Awaited'
  BY StepQuiet
<1> QED BY <1>1, StartQuiet, AlwaysInv, PTL DEF Spec
-----------------------------------------------------------------------------
(***************************************************************************)
(* Users.                                                                  *)
(***************************************************************************)

LEMMA UsersAdded == \A S, s : UsersOf(S \cup {s}) = UsersOf(S) \cup {s.user}
BY DEF UsersOf

LEMMA UsersJoined == \A S, T : UsersOf(S \cup T) = UsersOf(S) \cup UsersOf(T)
BY DEF UsersOf

LEMMA UsersRemoved ==
    ASSUME NEW S, NEW s \in S, OneUser(S)
    PROVE  /\ UsersOf(S \ {s}) = UsersOf(S) \ {s.user} /\ OneUser(S \ {s})
           /\ s.user \in UsersOf(S)
BY DEF UsersOf, OneUser

LEMMA UsersOfNone == UsersOf({}) = {} /\ OneUser({})
BY DEF UsersOf, OneUser

LEMMA UsersOfOne == \A s : UsersOf({s}) = {s.user} /\ OneUser({s})
BY DEF UsersOf, OneUser

LEMMA OneUserJoined ==
    ASSUME NEW S, NEW T, OneUser(S), OneUser(T), Apart(UsersOf(S), UsersOf(T))
    PROVE  OneUser(S \cup T)
BY DEF UsersOf, OneUser, Apart

LEMMA UsersFewer ==
    ASSUME NEW S, NEW T \in SUBSET S
    PROVE  UsersOf(T) \subseteq UsersOf(S) /\ (OneUser(S) => OneUser(T))
BY DEF UsersOf, OneUser

\* Of the users sn that came, P are pending, S starting and R relayed; the
\* local service was dialled for d.
AtUsers(P, S, R, sn, d) ==
    /\ Apart(P, S) /\ Apart(P, R) /\ Apart(S, R)
    /\ P \subseteq sn /\ S \subseteq sn /\ R \subseteq d /\ d \subseteq sn
    /\ Apart(P, d)

\* START_STREAM is on its way at most once for a user, who came, has left the
\* queue and was not dialled for.
Asks ==
    /\ \A w \in Conns : toClient[w] = <<>> \/ \E u \in Users : toClient[w] = <<u>>
    /\ \A w \in Conns, u \in Users :
         toClient[w] = <<u>> =>
           /\ u \in seen /\ u \notin dialled /\ u \notin Elements(pending)
           /\ u \notin UsersOf(dialing)
           /\ \A v \in Conns : toClient[v] = <<u>> => v = w

\* STREAM_READY is only sent for users the local service was dialled for.
Answers ==
    \A w \in Conns : \A m \in Elements(toServer[w]) :
      m.kind = "STREAM_READY" => m.user \in dialled

UserInv ==
    /\ Distinct(pending) /\ OneUser(starting) /\ OneUser(srelays) /\ OneUser(crelays)
    /\ AtUsers(Elements(pending), UsersOf(starting), UsersOf(srelays), seen, dialled)
    /\ UsersOf(crelays) \subseteq dialled
    /\ UsersOf(dialing) \subseteq seen
    /\ Apart(UsersOf(dialing), dialled) /\ Apart(UsersOf(dialing), Elements(pending))
    /\ Asks /\ Answers

LEMMA StartUsers == Init => UserInv
<1> SUFFICES ASSUME Init PROVE UserInv
  OBVIOUS
<1> USE DEF Init
<1>1. /\ Distinct(pending) /\ OneUser(starting) /\ OneUser(srelays) /\ OneUser(crelays)
      /\ Elements(pending) = {} /\ UsersOf(starting) = {} /\ UsersOf(srelays) = {}
      /\ UsersOf(crelays) = {} /\ UsersOf(dialing) = {}
  BY EmptyElements, UsersOfNone
<1>2. AtUsers(Elements(pending), UsersOf(starting), UsersOf(srelays), seen, dialled)
  BY <1>1 DEF AtUsers, Apart
<1>3. \A w \in Conns : toClient[w] = <<>> /\ toServer[w] = <<>>
  OBVIOUS
<1>4. Asks
  <2>1. \A u : <<>> # <<u>>
    OBVIOUS
  <2> QED BY <1>3, <2>1 DEF Asks
<1>5. Answers
  BY <1>3, EmptyElements DEF Answers
<1> QED BY <1>1, <1>2, <1>4, <1>5 DEF UserInv, Apart

LEMMA UsersSame ==
    ASSUME UserInv, UNCHANGED <<pending, starting, srelays, crelays, dialing, toClient, toServer,
                                seen, dialled>>
    PROVE  UserInv'
BY DEF UserInv, Asks, Answers

\* Streams are given up.
LEMMA UsersDropped ==
    ASSUME UserInv, UNCHANGED <<dialing, toClient, toServer, seen, dialled>>,
           Distinct(pending'), Elements(pending') \subseteq Elements(pending),
           starting' \in SUBSET starting, srelays' \in SUBSET srelays, crelays' \in SUBSET crelays
    PROVE  UserInv'
<1>1. /\ UsersOf(starting') \subseteq UsersOf(starting) /\ OneUser(starting')
      /\ UsersOf(srelays') \subseteq UsersOf(srelays) /\ OneUser(srelays')
      /\ UsersOf(crelays') \subseteq UsersOf(crelays) /\ OneUser(crelays')
  BY UsersFewer DEF UserInv
<1>2. AtUsers(Elements(pending), UsersOf(starting), UsersOf(srelays), seen, dialled)
  BY DEF UserInv
<1>3. AtUsers(Elements(pending'), UsersOf(starting'), UsersOf(srelays'), seen, dialled)
  BY <1>1, <1>2 DEF AtUsers, Apart
<1>4. Asks' /\ Answers'
  BY DEF UserInv, Asks, Answers
<1> QED BY <1>1, <1>3, <1>4 DEF UserInv, Apart

\* A message taken from a queue leaves no other in it.
LEMMA TailElements ==
    ASSUME NEW S, NEW q \in Seq(S), q # <<>>
    PROVE  Elements(Tail(q)) \subseteq Elements(q)
<1>1. /\ Len(q) \in Nat /\ Len(q) >= 1 /\ Tail(q) \in Seq(S) /\ Len(Tail(q)) = Len(q) - 1
      /\ \A i \in 1..(Len(q) - 1) : Tail(q)[i] = q[i + 1]
  BY EmptySeq, HeadTailProperties
<1>2. DOMAIN q = 1..Len(q) /\ DOMAIN Tail(q) = 1..(Len(q) - 1)
  BY <1>1
<1>3. ASSUME NEW i \in 1..(Len(q) - 1) PROVE Tail(q)[i] \in Elements(q)
  <2>1. i + 1 \in 1..Len(q) /\ Tail(q)[i] = q[i + 1]
    BY <1>1
  <2> QED BY <1>2, <2>1 DEF Elements
<1> QED BY <1>2, <1>3 DEF Elements

LEMMA ConcatElements ==
    ASSUME NEW S, NEW q \in Seq(S), NEW x \in S
    PROVE  Elements(q \o <<x>>) = Elements(q) \cup {x}
<1>1. Append(q, x) = q \o <<x>>
  BY AppendIsConcat
<1>2. Elements(Append(q, x)) = Elements(q) \cup {x}
  BY AppendElements
<1> QED BY <1>1, <1>2

LEMMA StartStreamUsers ==
    ASSUME NEW w \in Conns
    PROVE  Inv /\ UserInv /\ StartStream(w) => UserInv'
<1> SUFFICES ASSUME Inv, UserInv, StartStream(w) PROVE UserInv'
  OBVIOUS
<1>1. /\ dialing = {} /\ w \in pool /\ toClient[w] # <<>>
      /\ dialing' = {Stream(Head(toClient[w]), w)}
      /\ toClient' = [toClient EXCEPT ![w] = Tail(@)]
      /\ UNCHANGED <<crelays, pending, starting, srelays, toServer, seen, dialled>>
  BY DEF StartStream, ready, svars, history
<1>2. PICK u \in Users : toClient[w] = <<u>>
  BY <1>1 DEF UserInv, Asks
<1>3. Head(toClient[w]) = u /\ Tail(toClient[w]) = <<>>
  BY <1>2, SingletonSeq
<1>4. UsersOf(dialing') = {u}
  BY <1>1, <1>3, UsersOfOne, StreamFields
<1>5. u \in seen /\ u \notin dialled /\ u \notin Elements(pending)
      /\ \A v \in Conns : toClient[v] = <<u>> => v = w
  BY <1>2 DEF UserInv, Asks
<1>6. /\ \A v \in Conns : v # w => toClient'[v] = toClient[v]
      /\ toClient'[w] = <<>>
  BY <1>1, <1>3 DEF Inv, TypeOK
<1>7. Asks'
  <2>1. ASSUME NEW v \in Conns PROVE toClient'[v] = <<>> \/ \E x \in Users : toClient'[v] = <<x>>
    BY <1>6 DEF UserInv, Asks
  <2>2. ASSUME NEW v \in Conns, NEW x \in Users, toClient'[v] = <<x>>
        PROVE  /\ x \in seen' /\ x \notin dialled' /\ x \notin Elements(pending')
               /\ x \notin UsersOf(dialing')
               /\ \A z \in Conns : toClient'[z] = <<x>> => z = v
    <3>1. v # w /\ toClient[v] = <<x>> /\ \A z \in Conns : toClient'[z] = <<x>> => toClient[z] = <<x>>
      <4>1. <<x>> # <<>>
        OBVIOUS
      <4> QED BY <1>6, <2>2, <4>1
    <3>2. x # u
      BY <1>5, <3>1
    <3>3. /\ x \in seen /\ x \notin dialled /\ x \notin Elements(pending)
          /\ \A z \in Conns : toClient[z] = <<x>> => z = v
      BY <3>1 DEF UserInv, Asks
    <3> QED BY <1>1, <1>4, <3>1, <3>2, <3>3
  <2> QED BY <2>1, <2>2 DEF Asks
<1>8. Answers'
  BY <1>1 DEF UserInv, Answers
<1> QED BY <1>1, <1>4, <1>5, <1>7, <1>8 DEF UserInv, Apart

\* The dial ends with the answer m, with the user of s dialled for or not.
LEMMA DialEndsUsers ==
    ASSUME Inv, UserInv, NEW s \in dialing, NEW m \in Seq(Messages), NEW R, DialEnds(s, m, R),
           R = crelays \/ R = crelays \cup {s},
           m = <<>> \/ \E kind : m = Message(kind, s) /\ Message(kind, s) \in Seq(Messages),
           \/ dialled' = dialled /\ R = crelays /\ m = Message("STREAM_FAILED", s)
           \/ dialled' = dialled \cup {s.user}
    PROVE  UserInv'
<1>1. /\ dialing' = {} /\ crelays' = R
      /\ toServer' = [toServer EXCEPT ![s.work] = @ \o m]
      /\ UNCHANGED <<pending, starting, srelays, toClient, seen>>
  BY DEF DialEnds
<1>2. s.user \in UsersOf(dialing) /\ s.work \in Conns /\ s.user \in Users
  BY Held, StreamFields DEF UsersOf
<1>3. UsersOf(dialing') = {}
  BY <1>1, UsersOfNone
<1>4. /\ s.user \in seen /\ s.user \notin dialled /\ s.user \notin Elements(pending)
      /\ s.user \notin UsersOf(crelays)
  BY <1>2 DEF UserInv, Apart
<1>5. dialled \subseteq dialled' /\ dialled' \subseteq dialled \cup {s.user}
  OBVIOUS
<1>6. AtUsers(Elements(pending'), UsersOf(starting'), UsersOf(srelays'), seen', dialled')
  <2>1. AtUsers(Elements(pending), UsersOf(starting), UsersOf(srelays), seen, dialled)
    BY DEF UserInv
  <2>2. AtUsers(Elements(pending), UsersOf(starting), UsersOf(srelays), seen, dialled')
    BY <1>4, <1>5, <2>1 DEF AtUsers, Apart
  <2> QED BY <1>1, <2>2
<1>7. OneUser(crelays') /\ UsersOf(crelays') \subseteq dialled'
  <2>1. OneUser(crelays) /\ UsersOf(crelays) \subseteq dialled
    BY DEF UserInv
  <2>2. CASE R = crelays
    BY <1>1, <1>5, <2>1, <2>2
  <2>3. CASE R = crelays \cup {s} /\ dialled' = dialled \cup {s.user}
    <3>1. Apart(UsersOf(crelays), UsersOf({s}))
      BY <1>4, UsersOfOne DEF Apart
    <3>2. OneUser(crelays \cup {s})
      BY <2>1, <3>1, UsersOfOne, OneUserJoined
    <3>3. UsersOf(crelays \cup {s}) = UsersOf(crelays) \cup {s.user}
      BY UsersAdded
    <3> QED BY <1>1, <2>1, <2>3, <3>2, <3>3
  <2> QED BY <2>2, <2>3
<1>8. Asks'
  <2>1. \A w \in Conns, u \in Users : toClient[w] = <<u>> => u # s.user
    BY <1>2 DEF UserInv, Asks
  <2>2. \A u : u \notin {}
    OBVIOUS
  <2> QED BY <1>1, <1>3, <1>5, <2>1, <2>2 DEF UserInv, Asks
<1>9. Answers'
  <2> SUFFICES ASSUME NEW w \in Conns, NEW a \in Elements(toServer'[w]), a.kind = "STREAM_READY"
               PROVE  a.user \in dialled'
    BY DEF Answers
  <2>1. toServer \in [Conns -> Seq(Messages)]
    BY DEF Inv, TypeOK, Messages
  <2>2. CASE a \in Elements(toServer[w])
    BY <1>5, <2>2 DEF UserInv, Answers
  <2>3. CASE a \notin Elements(toServer[w])
    <3>1. w = s.work /\ toServer'[w] = toServer[w] \o m
      BY <1>1, <1>2, <2>1, <2>3
    <3>2. m # <<>>
      BY <2>1, <2>3, <3>1, ConcatEmptySeq
    <3>3. PICK kind : m = Message(kind, s)
      BY <3>2
    <3>4. PICK x : x = [kind |-> kind, user |-> s.user]
      OBVIOUS
    <3>5. m = <<x>>
      BY <3>3, <3>4 DEF Message
    <3>6. x \in Messages
      <4>1. <<x>> \in Seq(Messages) /\ Len(<<x>>) = 1 /\ <<x>>[1] = x
        BY <3>5
      <4>2. 1 \in 1..Len(<<x>>)
        BY <4>1
      <4> QED BY <4>1, <4>2, ElementOfSeq
    <3>7. a = x
      BY <2>1, <2>3, <3>1, <3>5, <3>6, ConcatElements
    <3>8. a.user = s.user /\ m # Message("STREAM_FAILED", s)
      <4>1. a.user = s.user /\ a.kind = kind
        BY <3>4, <3>7
      <4>2. Message("STREAM_FAILED", s) = <<[kind |-> "STREAM_FAILED", user |-> s.user]>>
        BY DEF Message
      <4>3. m = Message("STREAM_FAILED", s) => x = [kind |-> "STREAM_FAILED", user |-> s.user]
        BY <3>5, <4>2
      <4> QED BY <2>1, <3>7, <4>1, <4>3
    <3> QED BY <3>8
  <2> QED BY <2>2, <2>3
<1> QED BY <1>1, <1>3, <1>6, <1>7, <1>8, <1>9 DEF UserInv, Apart

LEMMA StartingReadyUsers ==
    ASSUME NEW s
    PROVE  Inv /\ UserInv /\ StartingReady(s) => UserInv' /\ s.user \in dialled
<1> SUFFICES ASSUME Inv, UserInv, StartingReady(s) PROVE UserInv' /\ s.user \in dialled
  OBVIOUS
<1>1. /\ s \in starting /\ Len(toServer[s.work]) > 0
      /\ Head(toServer[s.work]) = [kind |-> "STREAM_READY", user |-> s.user]
      /\ starting' = starting \ {s}
      /\ toServer' = [toServer EXCEPT ![s.work] = Tail(@)]
      /\ srelays' = srelays \/ srelays' = srelays \cup {s}
      /\ UNCHANGED <<pending, crelays, dialing, toClient, seen, dialled>>
  BY DEF StartingReady, cvars, history
<1>2. s.work \in Conns
  BY <1>1, Held
<1>3. toServer \in [Conns -> Seq(Messages)] /\ toServer[s.work] \in Seq(Messages)
  BY <1>2 DEF Inv, TypeOK, Messages
<1>4. toServer[s.work] # <<>>
  BY <1>1, <1>3, EmptySeq
<1>5. Head(toServer[s.work]) \in Elements(toServer[s.work])
      /\ Elements(Tail(toServer[s.work])) \subseteq Elements(toServer[s.work])
  BY <1>3, <1>4, HeadTail, TailElements
<1>6. s.user \in dialled
  <2>1. PICK m : m = Head(toServer[s.work])
    OBVIOUS
  <2>2. m.kind = "STREAM_READY" /\ m.user = s.user
    BY <1>1, <2>1
  <2> QED BY <1>2, <1>5, <2>1, <2>2 DEF UserInv, Answers
<1>7. /\ UsersOf(starting') = UsersOf(starting) \ {s.user} /\ OneUser(starting')
      /\ s.user \in UsersOf(starting)
  BY <1>1, UsersRemoved DEF UserInv
<1>8. AtUsers(Elements(pending), UsersOf(starting), UsersOf(srelays), seen, dialled)
      /\ OneUser(srelays)
  BY DEF UserInv
<1>9. OneUser(srelays') /\ (UsersOf(srelays') = UsersOf(srelays)
                            \/ UsersOf(srelays') = UsersOf(srelays) \cup {s.user})
  <2>1. CASE srelays' = srelays
    BY <1>8, <2>1
  <2>2. CASE srelays' = srelays \cup {s}
    <3>1. Apart(UsersOf(srelays), UsersOf({s}))
      BY <1>7, <1>8, UsersOfOne DEF AtUsers, Apart
    <3>2. OneUser(srelays \cup {s})
      BY <1>8, <3>1, UsersOfOne, OneUserJoined
    <3> QED BY <2>2, <3>2, UsersAdded
  <2> QED BY <1>1, <2>1, <2>2
<1>10. AtUsers(Elements(pending), UsersOf(starting'), UsersOf(srelays'), seen, dialled)
  BY <1>6, <1>7, <1>8, <1>9 DEF AtUsers, Apart
<1>11. Asks'
  BY <1>1 DEF UserInv, Asks
<1>12. Answers'
  <2>1. \A w \in Conns : Elements(toServer'[w]) \subseteq Elements(toServer[w])
    BY <1>1, <1>2, <1>3, <1>5
  <2> QED BY <1>1, <2>1 DEF UserInv, Answers
<1> QED BY <1>1, <1>6, <1>7, <1>9, <1>10, <1>11, <1>12 DEF UserInv

\* match_pending with new users: p is the queue with those of U, who just came.
LEMMA PairingUsers ==
    ASSUME Inv, UserInv, NEW p \in Seq(Users), NEW w \in Seq(Conns), NEW U \in SUBSET Users,
           NEW started, NEW F, NEW G, NEW k, Pairing(p, w, started, F, G, k),
           Elements(w) \subseteq Elements(idle) \cup incoming,
           Distinct(p), Elements(p) = Elements(pending) \cup U, Apart(U, seen),
           seen' = seen \cup U, UNCHANGED <<srelays, crelays, dialing, toServer, dialled>>
    PROVE  /\ UserInv'
           /\ Elements(pending') \cup UsersOf(starting')
                = ((Elements(pending) \cup UsersOf(starting)) \cup U) \ G
           /\ G \subseteq Elements(pending) \cup U
<1> DEFINE P == Elements(pending)
           S == UsersOf(starting)
           N == UsersOf(started)
<1>1. /\ started \subseteq Streams /\ OneWork(started)
      /\ WorkOf(started) \subseteq Elements(w)
      /\ Distinct(pending') /\ OneUser(started)
      /\ Apart(N, G) /\ N \cup G \subseteq P \cup U
      /\ Elements(pending') = (P \cup U) \ (N \cup G)
      /\ starting' = starting \cup started
      /\ toClient' \in [Conns -> Seq(Users)]
      /\ \A c \in Conns : c \notin WorkOf(started) => toClient'[c] = toClient[c]
      /\ \A s \in started : toClient'[s.work] = toClient[s.work] \o <<s.user>>
  BY DEF Pairing
<1>2. /\ AtUsers(P, S, UsersOf(srelays), seen, dialled)
      /\ UsersOf(dialing) \subseteq seen /\ Apart(UsersOf(dialing), dialled)
      /\ Apart(UsersOf(dialing), P) /\ UsersOf(crelays) \subseteq dialled
  BY DEF UserInv
<1>3. UsersOf(starting') = S \cup N
  BY <1>1, UsersJoined
<1>4. OneUser(starting')
  <2>1. Apart(S, N)
    BY <1>1, <1>2 DEF AtUsers, Apart
  <2>2. OneUser(starting)
    BY DEF UserInv
  <2>3. OneUser(starting \cup started)
    BY <1>1, <2>1, <2>2, OneUserJoined
  <2> QED BY <1>1, <2>3
<1>5. \A s \in started : /\ s.user \in N /\ s.user \in Users /\ s.work \in Conns
                         /\ s.work \in WorkOf(started)
                         /\ toClient[s.work] = <<>> /\ toClient'[s.work] = <<s.user>>
  <2> SUFFICES ASSUME NEW s \in started
               PROVE  /\ s.user \in N /\ s.user \in Users /\ s.work \in Conns
                      /\ s.work \in WorkOf(started)
                      /\ toClient[s.work] = <<>> /\ toClient'[s.work] = <<s.user>>
    OBVIOUS
  <2>1. /\ s.user \in N /\ s.user \in Users /\ s.work \in Conns /\ s.work \in WorkOf(started)
    BY <1>1, StreamFields DEF UsersOf, WorkOf
  <2>2. s.work \in Elements(idle) \cup incoming
    BY <1>1, <2>1
  <2>3. toClient[s.work] = <<>>
    BY <2>2 DEF Inv, Ends, Fresh
  <2>4. <<>> \o <<s.user>> = <<s.user>>
    BY <2>1, SingletonSeq, ConcatEmptySeq
  <2> QED BY <1>1, <2>1, <2>3, <2>4
<1> HIDE DEF P, S, N
<1>6. AtUsers(Elements(pending'), UsersOf(starting'), UsersOf(srelays), seen \cup U, dialled)
  <2>1. Apart(U, dialled) /\ Apart(U, S) /\ Apart(U, UsersOf(srelays))
    BY <1>2 DEF AtUsers, Apart
  <2>2. AtUsers((P \cup U) \ (N \cup G), S \cup N, UsersOf(srelays), seen \cup U, dialled)
    BY <1>1, <1>2, <2>1 DEF AtUsers, Apart
  <2> QED BY <1>1, <1>3, <2>2
<1>7. Apart(UsersOf(dialing), Elements(pending'))
  BY <1>1, <1>2 DEF Apart
<1>8. Asks'
  <2>1. ASSUME NEW c \in Conns PROVE toClient'[c] = <<>> \/ \E u \in Users : toClient'[c] = <<u>>
    <3>1. CASE c \in WorkOf(started)
      <4>1. PICK s \in started : c = s.work
        BY <3>1 DEF WorkOf
      <4> QED BY <1>5, <4>1
    <3>2. CASE c \notin WorkOf(started)
      BY <1>1, <3>2 DEF UserInv, Asks
    <3> QED BY <3>1, <3>2
  <2>2. ASSUME NEW c \in Conns, NEW u \in Users, toClient'[c] = <<u>>
        PROVE  \/ toClient[c] = <<u>> /\ c \notin WorkOf(started)
               \/ \E s \in started : c = s.work /\ u = s.user
    <3>1. CASE c \in WorkOf(started)
      <4>1. PICK s \in started : c = s.work
        BY <3>1 DEF WorkOf
      <4>2. <<u>> = <<s.user>>
        BY <1>5, <2>2, <4>1
      <4>3. u = s.user
        BY <4>2
      <4> QED BY <4>1, <4>3
    <3>2. CASE c \notin WorkOf(started)
      BY <1>1, <2>2, <3>2
    <3> QED BY <3>1, <3>2
  <2>3. ASSUME NEW c \in Conns, NEW u \in Users, toClient[c] = <<u>>
        PROVE  /\ u \in seen /\ u \notin dialled /\ u \notin P /\ u \notin UsersOf(dialing)
               /\ u \notin U /\ u \notin N
               /\ \A v \in Conns : toClient[v] = <<u>> => v = c
    <3>1. /\ u \in seen /\ u \notin dialled /\ u \notin P /\ u \notin UsersOf(dialing)
          /\ \A v \in Conns : toClient[v] = <<u>> => v = c
      BY <2>3 DEF UserInv, Asks, P
    <3>2. u \notin U
      BY <3>1 DEF Apart
    <3> QED BY <1>1, <3>1, <3>2
  <2>4. ASSUME NEW u \in N
        PROVE  /\ u \in seen \cup U /\ u \notin dialled /\ u \notin Elements(pending')
               /\ u \notin UsersOf(dialing)
    BY <1>1, <1>2 DEF AtUsers, Apart
  <2>5. ASSUME NEW c \in Conns, NEW u \in Users, toClient'[c] = <<u>>
        PROVE  /\ u \in seen \cup U /\ u \notin dialled /\ u \notin Elements(pending')
               /\ u \notin UsersOf(dialing)
               /\ \A v \in Conns : toClient'[v] = <<u>> => v = c
    <3>1. CASE toClient[c] = <<u>>
      <4>1. \A s \in started : s.user # u
        BY <1>5, <2>3, <3>1
      <4>2. \A v \in Conns : toClient'[v] = <<u>> => toClient[v] = <<u>>
        BY <2>2, <4>1
      <4> QED BY <1>1, <2>3, <3>1, <4>2
    <3>2. CASE \E s \in started : c = s.work /\ u = s.user
      <4>1. PICK s \in started : c = s.work /\ u = s.user
        BY <3>2
      <4>2. u \in N
        BY <1>5, <4>1
      <4>3. ASSUME NEW v \in Conns, toClient'[v] = <<u>> PROVE v = c
        <5>1. toClient[v] # <<u>>
          BY <2>3, <4>2
        <5>2. PICK t \in started : v = t.work /\ u = t.user
          BY <2>2, <4>3, <5>1
        <5> QED BY <1>1, <4>1, <5>2 DEF OneUser
      <4> QED BY <2>4, <4>2, <4>3
    <3> QED BY <2>2, <2>5, <3>1, <3>2
  <2> QED BY <2>1, <2>5 DEF Asks
<1>9. Answers'
  BY DEF UserInv, Answers
<1>10. UserInv'
  BY <1>1, <1>2, <1>4, <1>6, <1>7, <1>8, <1>9 DEF UserInv, Apart
<1>11. /\ Elements(pending') \cup UsersOf(starting') = ((P \cup S) \cup U) \ G
       /\ G \subseteq P \cup U
  <2>1. Apart(S, G)
    BY <1>1, <1>2 DEF AtUsers, Apart
  <2> QED BY <1>1, <1>3, <2>1 DEF Apart
<1> QED BY <1>10, <1>11 DEF P, S, N

\* The user of an expired pending stream.
LEMMA ExpiredUser ==
    ASSUME NEW u, Inv, UserInv, ExpirePending(u)
    PROVE  /\ u \in Elements(pending) /\ Distinct(pending')
           /\ Elements(pending') = Elements(pending) \ {u}
           /\ UNCHANGED <<starting, srelays, crelays, dialing, toClient, toServer, seen, dialled>>
<1>1. PICK i \in DOMAIN pending :
        /\ pending[i] = u
        /\ pending' = SubSeq([pending EXCEPT ![i] = pending[Len(pending)]], 1, Len(pending) - 1)
  BY DEF ExpirePending
<1>2. pending \in Seq(Users) /\ Distinct(pending)
  BY DEF Inv, TypeOK, UserInv
<1>3. PICK r : r = pending'
  OBVIOUS
<1>4. Distinct(r) /\ Elements(r) = Elements(pending) \ {u}
  BY <1>1, <1>2, <1>3, RemoveElement
<1>5. u \in Elements(pending)
  BY <1>1 DEF Elements
<1> QED BY <1>3, <1>4, <1>5 DEF ExpirePending, cvars, net, history

\* What match_pending does in Bind and in ServiceAccept, seen by users.
LEMMA BindUsers ==
    ASSUME NEW w \in Conns, Inv, UserInv, Bind(w)
    PROVE  /\ UserInv'
           /\ \E G : /\ Elements(pending') \cup UsersOf(starting')
                          = (Elements(pending) \cup UsersOf(starting)) \ G
                     /\ G \subseteq Elements(pending)
                     /\ G = {} \/ \E k \in Nat : /\ k <= Len(pending) /\ k <= Len(idle) + 1
                                                 /\ G \subseteq {pending[i] : i \in 1..k}
<1>1. w \in incoming /\ UNCHANGED <<srelays, crelays, dialing, toServer, seen, dialled>>
  BY DEF Bind, cvars
<1>2. CASE server = "active" /\ Len(idle) < MAX_STREAMS
  <2>1. PICK started, F, G, k : Pairing(pending, Append(idle, w), started, F, G, k)
    BY <1>2, BindPairs
  <2>2. /\ Append(idle, w) \in Seq(Conns) /\ Elements(Append(idle, w)) = Elements(idle) \cup {w}
        /\ Len(Append(idle, w)) = Len(idle) + 1
    BY AppendElements DEF Inv, TypeOK
  <2>3. PICK q : q = Append(idle, w)
    OBVIOUS
  <2>4. /\ q \in Seq(Conns) /\ Elements(q) \subseteq Elements(idle) \cup incoming
        /\ Pairing(pending, q, started, F, G, k)
    BY <1>1, <2>1, <2>2, <2>3
  <2>5. PICK U : U = {}
    OBVIOUS
  <2>6. /\ Distinct(pending) /\ pending \in Seq(Users) /\ U \in SUBSET Users
        /\ Elements(pending) = Elements(pending) \cup U
        /\ Apart(U, seen) /\ seen' = seen \cup U
    BY <1>1, <2>5 DEF Inv, TypeOK, UserInv, Apart
  <2>7. /\ UserInv'
        /\ Elements(pending') \cup UsersOf(starting')
             = ((Elements(pending) \cup UsersOf(starting)) \cup U) \ G
        /\ G \subseteq Elements(pending) \cup U
    BY <1>1, <2>4, <2>6, PairingUsers
  <2>8. /\ k \in Nat /\ k <= Len(pending) /\ k <= Len(idle) + 1
        /\ G \subseteq {pending[i] : i \in 1..k}
    BY <2>1, <2>2 DEF Pairing
  <2> QED BY <2>5, <2>7, <2>8
<1>3. CASE ~(server = "active" /\ Len(idle) < MAX_STREAMS)
  <2>1. UNCHANGED <<pending, starting, toClient>>
    BY <1>3 DEF Bind
  <2>2. UserInv'
    BY <1>1, <2>1, UsersSame
  <2>3. Elements(pending') \cup UsersOf(starting')
          = (Elements(pending) \cup UsersOf(starting)) \ {}
    BY <2>1
  <2> QED BY <2>2, <2>3
<1> QED BY <1>2, <1>3

LEMMA ServiceAcceptUsers ==
    ASSUME NEW u \in Users, Inv, UserInv, ServiceAccept(u)
    PROVE  /\ UserInv'
           /\ u \notin seen /\ seen' = seen \cup {u}
           /\ UNCHANGED <<srelays, crelays, dialled>>
           /\ \/ UNCHANGED <<pending, starting>>
              \/ \E G : /\ Elements(pending') \cup UsersOf(starting')
                             = ((Elements(pending) \cup UsersOf(starting)) \cup {u}) \ G
                        /\ \E k \in Nat : /\ k <= Len(pending) + 1 /\ k <= Len(idle)
                                          /\ G \subseteq {Append(pending, u)[i] : i \in 1..k}
<1>1. /\ u \notin seen /\ seen' = seen \cup {u}
      /\ UNCHANGED <<srelays, crelays, dialing, toServer, dialled>>
  BY DEF ServiceAccept, cvars
<1>2. u \notin Elements(pending) /\ Distinct(pending) /\ pending \in Seq(Users) /\ idle \in Seq(Conns)
  BY <1>1 DEF Inv, TypeOK, UserInv, AtUsers
<1>3. CASE Len(pending) < PendingLimit /\ active_streams < StreamLimit
  <2>1. PICK started, F, G, k : Pairing(Append(pending, u), idle, started, F, G, k)
    BY <1>3, ServicePairs
  <2>2. /\ Append(pending, u) \in Seq(Users) /\ Distinct(Append(pending, u))
        /\ Elements(Append(pending, u)) = Elements(pending) \cup {u}
        /\ Len(Append(pending, u)) = Len(pending) + 1
    BY <1>2, AppendElements
  <2>3. PICK q : q = Append(pending, u)
    OBVIOUS
  <2>4. PICK U : U = {u}
    OBVIOUS
  <2>5. /\ q \in Seq(Users) /\ Distinct(q) /\ Elements(q) = Elements(pending) \cup U
        /\ Pairing(q, idle, started, F, G, k) /\ U \in SUBSET Users
        /\ Apart(U, seen) /\ seen' = seen \cup U
    BY <1>1, <2>1, <2>2, <2>3, <2>4 DEF Apart
  <2>6. Elements(idle) \subseteq Elements(idle) \cup incoming
    OBVIOUS
  <2>7. /\ UserInv'
        /\ Elements(pending') \cup UsersOf(starting')
             = ((Elements(pending) \cup UsersOf(starting)) \cup U) \ G
    BY <1>1, <1>2, <2>5, <2>6, PairingUsers
  <2>8. /\ k \in Nat /\ k <= Len(pending) + 1 /\ k <= Len(idle)
        /\ G \subseteq {Append(pending, u)[i] : i \in 1..k}
    BY <2>1, <2>2 DEF Pairing
  <2> QED BY <1>1, <2>4, <2>7, <2>8
<1>4. CASE ~(Len(pending) < PendingLimit /\ active_streams < StreamLimit)
  <2>1. UNCHANGED <<pending, starting, toClient>>
    BY <1>4 DEF ServiceAccept
  <2>2. AtUsers(Elements(pending), UsersOf(starting), UsersOf(srelays), seen', dialled)
    BY <1>1 DEF UserInv, AtUsers
  <2>3. Asks' /\ Answers'
    BY <1>1, <2>1 DEF UserInv, Asks, Answers
  <2>4. UserInv'
    BY <1>1, <2>1, <2>2, <2>3 DEF UserInv
  <2> QED BY <1>1, <2>1, <2>4
<1> QED BY <1>3, <1>4

\* How a dial ends.
LEMMA Dialled ==
    ASSUME Inv, LocalRefused \/ LocalConnected
    PROVE  \E s \in dialing, m \in Seq(Messages) : \E R :
             /\ DialEnds(s, m, R) /\ (R = crelays \/ R = crelays \cup {s})
             /\ m = <<>> \/ \E kind : m = Message(kind, s) /\ Message(kind, s) \in Seq(Messages)
             /\ \/ dialled' = dialled /\ R = crelays /\ m = Message("STREAM_FAILED", s)
                \/ dialled' = dialled \cup {s.user}
<1>1. \A s \in dialing : /\ Message("STREAM_READY", s) \in Seq(Messages)
                         /\ Message("STREAM_FAILED", s) \in Seq(Messages)
                         /\ <<>> \in Seq(Messages)
  BY Held, MessageTypes
<1>2. CASE LocalRefused
  <2>1. PICK s \in dialing : DialEnds(s, Message("STREAM_FAILED", s), crelays) /\ dialled' = dialled
    BY <1>2 DEF LocalRefused
  <2> QED BY <1>1, <2>1
<1>3. CASE LocalConnected
  <2>1. PICK s \in dialing :
          /\ dialled' = dialled \cup {s.user}
          /\ \/ DialEnds(s, Message("STREAM_READY", s), crelays \cup {s})
             \/ DialEnds(s, <<>>, crelays)
             \/ DialEnds(s, Message("STREAM_READY", s), crelays)
    BY <1>3 DEF LocalConnected
  <2> QED BY <1>1, <2>1
<1> QED BY <1>2, <1>3

LEMMA StepUsers == Inv /\ UserInv /\ [Next]_vars => UserInv'
<1> SUFFICES ASSUME Inv, UserInv, [Next]_vars PROVE UserInv'
  OBVIOUS
<1>1. CASE \/ Registered \/ RequestDropped \/ Request \/ Accept \/ UNCHANGED vars
           \/ \E w \in Conns : IdleLost(w) \/ IncomingClosed(w) \/ Break(w)
  <2>1. UNCHANGED <<pending, starting, srelays, crelays, dialing, toClient, toServer, seen, dialled>>
    BY <1>1 DEF Registered, RequestDropped, Request, Accept, IdleLost, IncomingClosed, Break, vars,
                cvars, svars, net, history
  <2> QED BY <2>1, UsersSame
<1>2. CASE LocalRefused \/ LocalConnected
  BY <1>2, Dialled, DialEndsUsers
<1>3. CASE ClientEnds \/ (\E s \in crelays : ClientRelayEnds(s)) \/ ServerEnds
           \/ (\E s \in srelays : ServerRelayEnds(s)) \/ (\E s : DropStarting(s))
  <2>1. /\ UNCHANGED <<dialing, toClient, toServer, seen, dialled>>
        /\ pending' = pending \/ pending' = <<>>
        /\ starting' \in SUBSET starting /\ srelays' \in SUBSET srelays
        /\ crelays' \in SUBSET crelays
    BY <1>3 DEF ClientEnds, ClientRelayEnds, ServerEnds, ServerRelayEnds, DropStarting, cvars,
                svars, history
  <2>2. Distinct(pending') /\ Elements(pending') \subseteq Elements(pending)
    BY <2>1, EmptyElements DEF UserInv
  <2> QED BY <2>1, <2>2, UsersDropped
<1>4. ASSUME NEW u \in Users, ExpirePending(u) PROVE UserInv'
  <2>1. /\ Distinct(pending') /\ Elements(pending') = Elements(pending) \ {u}
        /\ UNCHANGED <<starting, srelays, crelays, dialing, toClient, toServer, seen, dialled>>
    BY <1>4, ExpiredUser
  <2> QED BY <2>1, UsersDropped
<1>5. ASSUME NEW w \in Conns, StartStream(w) PROVE UserInv'
  BY <1>5, StartStreamUsers
<1>6. ASSUME NEW w \in Conns, Bind(w) PROVE UserInv'
  BY <1>6, BindUsers
<1>7. ASSUME NEW u \in Users, ServiceAccept(u) PROVE UserInv'
  BY <1>7, ServiceAcceptUsers
<1>8. ASSUME NEW u \in Users, ExpireStarting(u) PROVE UserInv'
  BY <1>3, <1>8 DEF ExpireStarting
<1>9. ASSUME NEW s \in starting, StartingReady(s) PROVE UserInv'
  BY <1>9, StartingReadyUsers
<1>10. ASSUME NEW s \in starting, StartingFails(s) PROVE UserInv'
  BY <1>3, <1>10 DEF StartingFails
<1> QED BY <1>1, <1>2, <1>3, <1>4, <1>5, <1>6, <1>7, <1>8, <1>9, <1>10 DEF Next
-----------------------------------------------------------------------------
(***************************************************************************)
(* Users are served as StreamService says, step by step.                   *)
(***************************************************************************)

\* The connections of users when W wait, R are relayed and sn came, and the
\* local connections when C are relayed and d were dialled for.
ExtOf(W, R, sn) ==
    [u \in Users |-> IF u \in W THEN "waiting"
                     ELSE IF u \in R THEN "joined"
                     ELSE IF u \in sn THEN "closed" ELSE "new"]

LocOf(C, d) ==
    [u \in Users |-> IF u \in C THEN "open" ELSE IF u \in d THEN "closed" ELSE "none"]

Waiting == Elements(pending) \cup UsersOf(starting)
Ext     == ExtOf(Waiting, UsersOf(srelays), seen)
Loc     == LocOf(UsersOf(crelays), dialled)

Moved(f, g, u, x) == g = [f EXCEPT ![u] = x]

\* The refinement mapping is <<Ext, Loc>>.
LEMMA ServiceSteps ==
    ASSUME NEW u \in Users
    PROVE  /\ UNCHANGED <<Ext, Loc>> => UNCHANGED Service!vars
           /\ Loc' = Loc =>
                /\ Ext[u] = "new" /\ Moved(Ext, Ext', u, "waiting") => Service!Admit(u)
                /\ Ext[u] = "new" /\ Moved(Ext, Ext', u, "closed") => Service!Refuse(u)
                /\ /\ Ext[u] = "waiting" /\ Loc[u] # "none"
                   /\ Moved(Ext, Ext', u, "joined")
                   => Service!Join(u)
                /\ Ext[u] \in {"waiting", "joined"} /\ Moved(Ext, Ext', u, "closed")
                   => Service!HangUp(u)
           /\ Ext' = Ext =>
                /\ /\ Ext[u] \in {"waiting", "closed"} /\ Loc[u] = "none"
                   /\ Moved(Loc, Loc', u, "open")
                   => Service!Dial(u)
                /\ /\ Ext[u] \in {"waiting", "closed"} /\ Loc[u] = "none"
                   /\ Moved(Loc, Loc', u, "closed")
                   => Service!DialAborted(u)
                /\ Loc[u] = "open" /\ Moved(Loc, Loc', u, "closed") => Service!LocalEnds(u)
BY DEF Ext, Loc, Waiting, ExtOf, LocOf, Service!vars, Service!Admit, Service!Refuse, Service!Join,
       Service!HangUp, Service!Dial, Service!DialAborted, Service!LocalEnds, Moved

SameBut(u, A, B) == \A v : v # u => (v \in A <=> v \in B)

\* One user's connection changes.
LEMMA ExtMoves ==
    ASSUME NEW W, NEW R, NEW sn, NEW W2, NEW R2, NEW sn2, NEW u \in Users,
           SameBut(u, W, W2), SameBut(u, R, R2), SameBut(u, sn, sn2)
    PROVE  \A x : ExtOf(W2, R2, sn2)[u] = x =>
                    Moved(ExtOf(W, R, sn), ExtOf(W2, R2, sn2), u, x)
BY DEF ExtOf, SameBut, Moved

LEMMA LocMoves ==
    ASSUME NEW C, NEW d, NEW C2, NEW d2, NEW u \in Users,
           SameBut(u, C, C2), SameBut(u, d, d2)
    PROVE  \A x : LocOf(C2, d2)[u] = x => Moved(LocOf(C, d), LocOf(C2, d2), u, x)
BY DEF LocOf, SameBut, Moved

LEMMA ExtValue ==
    ASSUME NEW W, NEW R, NEW sn, NEW u \in Users
    PROVE  /\ u \in W => ExtOf(W, R, sn)[u] = "waiting"
           /\ u \notin W /\ u \in R => ExtOf(W, R, sn)[u] = "joined"
           /\ u \notin W /\ u \notin R /\ u \in sn => ExtOf(W, R, sn)[u] = "closed"
           /\ u \notin W /\ u \notin R /\ u \notin sn => ExtOf(W, R, sn)[u] = "new"
BY DEF ExtOf

LEMMA LocValue ==
    ASSUME NEW C, NEW d, NEW u \in Users
    PROVE  /\ u \in C => LocOf(C, d)[u] = "open"
           /\ u \notin C /\ u \in d => LocOf(C, d)[u] = "closed"
           /\ u \notin C /\ u \notin d => LocOf(C, d)[u] = "none"
BY DEF LocOf

LEMMA Mapped ==
    ASSUME Inv, UserInv
    PROVE  /\ Waiting \subseteq seen /\ UsersOf(srelays) \subseteq dialled /\ dialled \subseteq seen
           /\ seen \subseteq Users /\ UsersOf(crelays) \subseteq dialled
           /\ \A u : ~(u \in Waiting /\ u \in UsersOf(srelays))
BY DEF Inv, TypeOK, UserInv, AtUsers, Apart, Waiting

LEMMA MappedNext ==
    /\ Ext' = ExtOf(Waiting', UsersOf(srelays'), seen')
    /\ Loc' = LocOf(UsersOf(crelays'), dialled')
    /\ Waiting' = Elements(pending') \cup UsersOf(starting')
BY DEF Ext, Loc, Waiting

\* A user's stream is given up.
LEMMA HangsUp ==
    ASSUME Inv, UserInv, NEW u, u \in Waiting \/ u \in UsersOf(srelays),
           Waiting' = Waiting \ {u}, UsersOf(srelays') = UsersOf(srelays) \ {u},
           UNCHANGED <<crelays, seen, dialled>>
    PROVE  Service!Next
<1>1. u \in Users /\ u \in seen
  BY Mapped
<1>2. PICK W, R, sn, W2, R2 :
        W = Waiting /\ R = UsersOf(srelays) /\ sn = seen /\ W2 = Waiting' /\ R2 = UsersOf(srelays')
  OBVIOUS
<1>3. Ext = ExtOf(W, R, sn) /\ Ext' = ExtOf(W2, R2, sn) /\ Loc' = Loc
  BY <1>2, MappedNext DEF Ext, Loc
<1>4. ExtOf(W, R, sn)[u] \in {"waiting", "joined"}
  BY <1>1, <1>2, ExtValue
<1>5. ExtOf(W2, R2, sn)[u] = "closed"
  BY <1>1, <1>2, ExtValue
<1>6. Moved(ExtOf(W, R, sn), ExtOf(W2, R2, sn), u, "closed")
  <2>1. SameBut(u, W, W2) /\ SameBut(u, R, R2) /\ SameBut(u, sn, sn)
    BY <1>1, <1>2 DEF SameBut
  <2> QED BY <1>1, <2>1, <1>5, ExtMoves
<1>7. Service!HangUp(u)
  BY <1>1, <1>3, <1>4, <1>6, ServiceSteps
<1> QED BY <1>1, <1>7 DEF Service!Next

\* A user is queued, or closed at once.
LEMMA Admits ==
    ASSUME Inv, UserInv, NEW u \in Users, u \notin seen, seen' = seen \cup {u},
           Waiting' = Waiting \/ Waiting' = Waiting \cup {u}, UNCHANGED <<srelays, crelays, dialled>>
    PROVE  Service!Next
<1>1. u \notin Waiting /\ u \notin UsersOf(srelays)
  BY Mapped
<1>2. PICK W, R, sn, W2, sn2 :
        W = Waiting /\ R = UsersOf(srelays) /\ sn = seen /\ W2 = Waiting' /\ sn2 = seen'
  OBVIOUS
<1>3. Ext = ExtOf(W, R, sn) /\ Ext' = ExtOf(W2, R, sn2) /\ Loc' = Loc
  BY <1>2, MappedNext DEF Ext, Loc
<1>4. ExtOf(W, R, sn)[u] = "new"
  BY <1>1, <1>2, ExtValue
<1>5. \A x : ExtOf(W2, R, sn2)[u] = x => Moved(ExtOf(W, R, sn), ExtOf(W2, R, sn2), u, x)
  <2>1. SameBut(u, W, W2) /\ SameBut(u, R, R) /\ SameBut(u, sn, sn2)
    BY <1>1, <1>2 DEF SameBut
  <2> QED BY <1>1, <2>1, ExtMoves
<1>6. ExtOf(W2, R, sn2)[u] = "waiting" \/ ExtOf(W2, R, sn2)[u] = "closed"
  BY <1>1, <1>2, ExtValue
<1>7. Service!Admit(u) \/ Service!Refuse(u)
  BY <1>3, <1>4, <1>5, <1>6, ServiceSteps
<1> QED BY <1>7 DEF Service!Next

\* A waiting user the local service was dialled for is relayed.
LEMMA Joins ==
    ASSUME Inv, UserInv, NEW u, u \in Waiting, u \in dialled,
           Waiting' = Waiting \ {u}, UsersOf(srelays') = UsersOf(srelays) \cup {u},
           UNCHANGED <<crelays, seen, dialled>>
    PROVE  Service!Next
<1>1. u \in Users
  BY Mapped
<1>2. PICK W, R, sn, W2, R2, C, d :
        /\ W = Waiting /\ R = UsersOf(srelays) /\ sn = seen /\ W2 = Waiting' /\ R2 = UsersOf(srelays')
        /\ C = UsersOf(crelays) /\ d = dialled
  OBVIOUS
<1>3. Ext = ExtOf(W, R, sn) /\ Ext' = ExtOf(W2, R2, sn) /\ Loc' = Loc /\ Loc = LocOf(C, d)
  BY <1>2, MappedNext DEF Ext, Loc
<1>4. ExtOf(W, R, sn)[u] = "waiting" /\ ExtOf(W2, R2, sn)[u] = "joined"
  BY <1>1, <1>2, ExtValue
<1>5. LocOf(C, d)[u] # "none"
  BY <1>1, <1>2, LocValue
<1>6. Moved(ExtOf(W, R, sn), ExtOf(W2, R2, sn), u, "joined")
  <2>1. SameBut(u, W, W2) /\ SameBut(u, R, R2) /\ SameBut(u, sn, sn)
    BY <1>1, <1>2 DEF SameBut
  <2> QED BY <1>1, <2>1, <1>4, ExtMoves
<1>7. Service!Join(u)
  BY <1>1, <1>3, <1>4, <1>5, <1>6, ServiceSteps
<1> QED BY <1>1, <1>7 DEF Service!Next

\* The local service is dialled for a user, once.
LEMMA Dials ==
    ASSUME Inv, UserInv, NEW u, u \in seen, u \notin dialled, dialled' = dialled \cup {u},
           \/ UsersOf(crelays') = UsersOf(crelays)
           \/ UsersOf(crelays') = UsersOf(crelays) \cup {u},
           UNCHANGED <<pending, starting, srelays, seen>>
    PROVE  Service!Next
<1>1. u \in Users /\ u \notin UsersOf(crelays) /\ u \notin UsersOf(srelays)
  BY Mapped
<1>2. PICK W, R, sn, C, d, C2, d2 :
        /\ W = Waiting /\ R = UsersOf(srelays) /\ sn = seen
        /\ C = UsersOf(crelays) /\ d = dialled /\ C2 = UsersOf(crelays') /\ d2 = dialled'
  OBVIOUS
<1>3. Ext = ExtOf(W, R, sn) /\ Ext' = Ext /\ Loc = LocOf(C, d) /\ Loc' = LocOf(C2, d2)
  BY <1>2, MappedNext DEF Ext, Loc, Waiting
<1>4. ExtOf(W, R, sn)[u] \in {"waiting", "closed"}
  BY <1>1, <1>2, ExtValue
<1>5. LocOf(C, d)[u] = "none" /\ (LocOf(C2, d2)[u] = "open" \/ LocOf(C2, d2)[u] = "closed")
  BY <1>1, <1>2, LocValue
<1>6. \A x : LocOf(C2, d2)[u] = x => Moved(LocOf(C, d), LocOf(C2, d2), u, x)
  <2>1. SameBut(u, C, C2) /\ SameBut(u, d, d2)
    BY <1>1, <1>2 DEF SameBut
  <2> QED BY <1>1, <2>1, LocMoves
<1>7. Service!Dial(u) \/ Service!DialAborted(u)
  BY <1>1, <1>3, <1>4, <1>5, <1>6, ServiceSteps
<1> QED BY <1>1, <1>7 DEF Service!Next

\* The client's relay ends.
LEMMA EndsLocally ==
    ASSUME Inv, UserInv, NEW u, u \in UsersOf(crelays), UsersOf(crelays') = UsersOf(crelays) \ {u},
           UNCHANGED <<pending, starting, srelays, seen, dialled>>
    PROVE  Service!Next
<1>1. u \in Users /\ u \in dialled
  BY Mapped
<1>2. PICK C, d, C2 : C = UsersOf(crelays) /\ d = dialled /\ C2 = UsersOf(crelays')
  OBVIOUS
<1>3. Ext' = Ext /\ Loc = LocOf(C, d) /\ Loc' = LocOf(C2, d)
  BY <1>2, MappedNext DEF Ext, Loc, Waiting
<1>4. LocOf(C, d)[u] = "open" /\ LocOf(C2, d)[u] = "closed"
  BY <1>1, <1>2, LocValue
<1>5. Moved(LocOf(C, d), LocOf(C2, d), u, "closed")
  <2>1. SameBut(u, C, C2) /\ SameBut(u, d, d)
    BY <1>1, <1>2 DEF SameBut
  <2> QED BY <1>1, <1>4, <2>1, LocMoves
<1>6. Service!LocalEnds(u)
  BY <1>1, <1>3, <1>4, <1>5, ServiceSteps
<1> QED BY <1>1, <1>6 DEF Service!Next

LEMMA ServerEndsServed ==
    ASSUME Inv, UserInv, ServerEnds
    PROVE  Service!Next
<1>1. pending' = <<>> /\ starting' = {} /\ srelays' = {} /\ UNCHANGED <<crelays, seen, dialled>>
  BY DEF ServerEnds, cvars, history
<1>2. Waiting' = {} /\ UsersOf(srelays') = {}
  BY <1>1, EmptyElements, UsersOfNone, MappedNext
<1>3. Waiting \subseteq seen /\ UsersOf(srelays) \subseteq seen
  BY Mapped
<1>4. Ext' = [u \in Users |-> IF Ext[u] \in {"waiting", "joined"} THEN "closed" ELSE Ext[u]]
  BY <1>1, <1>2, <1>3, MappedNext DEF Ext, ExtOf
<1>5. Loc' = Loc
  BY <1>1 DEF Loc
<1>6. Service!AllHangUp
  BY <1>4, <1>5 DEF Service!AllHangUp, Ext, Loc, Waiting, ExtOf, LocOf
<1> QED BY <1>6 DEF Service!Next

LEMMA ClientEndsServed ==
    ASSUME Inv, UserInv, ClientEnds
    PROVE  Service!Next
<1>1. crelays' = {} /\ UNCHANGED <<pending, starting, srelays, seen, dialled>>
  BY DEF ClientEnds, svars, history
<1>2. UsersOf(crelays') = {}
  BY <1>1, UsersOfNone
<1>3. UsersOf(crelays) \subseteq dialled
  BY Mapped
<1>4. Loc' = [u \in Users |-> IF Loc[u] = "open" THEN "closed" ELSE Loc[u]]
  BY <1>1, <1>2, <1>3, MappedNext DEF Loc, LocOf
<1>5. Ext' = Ext
  BY <1>1 DEF Ext, Waiting
<1>6. Service!AllLocalEnd
  BY <1>4, <1>5 DEF Service!AllLocalEnd, Ext, Loc, Waiting, ExtOf, LocOf
<1> QED BY <1>6 DEF Service!Next

\* With Quiet, match_pending in Bind tries one stream at most.
LEMMA BindServed ==
    ASSUME Inv, UserInv, Quiet, NEW w \in Conns, Bind(w)
    PROVE  Service!Next \/ UNCHANGED <<Ext, Loc>>
<1>1. UNCHANGED <<srelays, crelays, seen, dialled>>
  BY DEF Bind, cvars
<1>2. PICK G : /\ Elements(pending') \cup UsersOf(starting')
                    = (Elements(pending) \cup UsersOf(starting)) \ G
               /\ G \subseteq Elements(pending)
               /\ G = {} \/ \E k \in Nat : /\ k <= Len(pending) /\ k <= Len(idle) + 1
                                           /\ G \subseteq {pending[i] : i \in 1..k}
  BY BindUsers
<1>3. Waiting' = Waiting \ G
  BY <1>2, MappedNext DEF Waiting
<1>4. G = {} \/ \E v : G = {v}
  <2>1. SUFFICES ASSUME NEW k \in Nat, k <= Len(pending), k <= Len(idle) + 1,
                        G \subseteq {pending[i] : i \in 1..k}
                 PROVE  G = {} \/ \E v : G = {v}
    BY <1>2
  <2>2. Len(pending) = 0 \/ Len(idle) = 0
    BY Sizes DEF Quiet, Sized
  <2>3. Len(pending) \in Nat /\ Len(idle) \in Nat
    BY Sizes DEF Sized
  <2>4. k <= 1
    BY <2>1, <2>2, <2>3
  <2>5. \A i \in 1..k : i = 1
    BY <2>4
  <2>6. \A v \in G : v = pending[1]
    BY <2>1, <2>5
  <2>7. CASE G # {}
    <3>1. G = {pending[1]}
      BY <2>6, <2>7
    <3> QED BY <3>1
  <2> QED BY <2>7
<1>5. CASE G = {}
  <2>1. Waiting' = Waiting
    BY <1>3, <1>5
  <2> QED BY <1>1, <2>1, MappedNext DEF Ext, Loc
<1>6. ASSUME NEW v, G = {v} PROVE Service!Next
  <2>1. v \in Waiting
    BY <1>2, <1>6 DEF Waiting
  <2>2. v \notin UsersOf(srelays)
    BY <2>1, Mapped
  <2>3. Waiting' = Waiting \ {v} /\ UsersOf(srelays') = UsersOf(srelays) \ {v}
    BY <1>1, <1>3, <1>6, <2>2
  <2> QED BY <1>1, <2>1, <2>3, HangsUp
<1> QED BY <1>4, <1>5, <1>6

\* With Quiet, match_pending in ServiceAccept tries the new stream alone.
LEMMA ServiceAcceptServed ==
    ASSUME Inv, UserInv, Quiet, NEW u \in Users, ServiceAccept(u)
    PROVE  Service!Next
<1>1. u \notin seen /\ seen' = seen \cup {u} /\ UNCHANGED <<srelays, crelays, dialled>>
  BY ServiceAcceptUsers
<1>2. Waiting' = Waiting \/ Waiting' = Waiting \cup {u}
  <2>1. CASE UNCHANGED <<pending, starting>>
    BY <2>1 DEF Waiting
  <2>2. ASSUME NEW G, NEW k \in Nat,
               Elements(pending') \cup UsersOf(starting')
                 = ((Elements(pending) \cup UsersOf(starting)) \cup {u}) \ G,
               k <= Len(pending) + 1, k <= Len(idle),
               G \subseteq {Append(pending, u)[i] : i \in 1..k}
        PROVE  Waiting' = Waiting \/ Waiting' = Waiting \cup {u}
    <3>1. Waiting' = (Waiting \cup {u}) \ G /\ u \notin Waiting
      BY <1>1, <2>2, MappedNext, Mapped DEF Waiting
    <3>2. Len(pending) \in Nat /\ Len(idle) \in Nat /\ (Len(pending) = 0 \/ Len(idle) = 0)
      BY Sizes DEF Quiet, Sized
    <3>3. \A i \in 1..k : i = Len(pending) + 1
      BY <2>2, <3>2
    <3>4. Append(pending, u)[Len(pending) + 1] = u
      BY AppendProperties DEF Inv, TypeOK
    <3>5. G = {} \/ G = {u}
      BY <2>2, <3>3, <3>4
    <3> QED BY <3>1, <3>5
  <2> QED BY <2>1, <2>2, ServiceAcceptUsers
<1> QED BY <1>1, <1>2, Admits

LEMMA DropStartingServed ==
    ASSUME Inv, UserInv, NEW s, DropStarting(s)
    PROVE  Service!Next
<1>1. /\ s \in starting /\ starting' = starting \ {s}
      /\ UNCHANGED <<pending, srelays, crelays, seen, dialled>>
  BY DEF DropStarting, cvars, history
<1>2. UsersOf(starting') = UsersOf(starting) \ {s.user} /\ s.user \in UsersOf(starting)
  BY <1>1, UsersRemoved DEF UserInv
<1>3. s.user \notin Elements(pending) /\ s.user \notin UsersOf(srelays)
  BY <1>2 DEF UserInv, AtUsers, Apart
<1>4. s.user \in Waiting /\ Waiting' = Waiting \ {s.user}
      /\ UsersOf(srelays') = UsersOf(srelays) \ {s.user}
  BY <1>1, <1>2, <1>3, MappedNext DEF Waiting
<1> QED BY <1>1, <1>4, HangsUp

LEMMA ServerRelayEndsServed ==
    ASSUME Inv, UserInv, NEW s, ServerRelayEnds(s)
    PROVE  Service!Next
<1>1. /\ s \in srelays /\ srelays' = srelays \ {s}
      /\ UNCHANGED <<pending, starting, crelays, seen, dialled>>
  BY DEF ServerRelayEnds, cvars, history
<1>2. UsersOf(srelays') = UsersOf(srelays) \ {s.user} /\ s.user \in UsersOf(srelays)
  BY <1>1, UsersRemoved DEF UserInv
<1>3. s.user \notin Waiting
  BY <1>2, Mapped
<1>4. Waiting' = Waiting \ {s.user}
  BY <1>1, <1>3, MappedNext DEF Waiting
<1> QED BY <1>1, <1>2, <1>4, HangsUp

LEMMA StartingReadyServed ==
    ASSUME Inv, UserInv, NEW s, StartingReady(s)
    PROVE  Service!Next
<1>1. /\ s \in starting /\ starting' = starting \ {s}
      /\ srelays' = srelays \/ srelays' = srelays \cup {s}
      /\ UNCHANGED <<pending, crelays, seen, dialled>>
  BY DEF StartingReady, cvars, history
<1>2. UsersOf(starting') = UsersOf(starting) \ {s.user} /\ s.user \in UsersOf(starting)
  BY <1>1, UsersRemoved DEF UserInv
<1>3. s.user \notin Elements(pending) /\ s.user \notin UsersOf(srelays)
  BY <1>2 DEF UserInv, AtUsers, Apart
<1>4. s.user \in Waiting /\ Waiting' = Waiting \ {s.user}
  BY <1>1, <1>2, <1>3, MappedNext DEF Waiting
<1>5. s.user \in dialled
  BY StartingReadyUsers
<1>6. CASE srelays' = srelays
  <2>1. UsersOf(srelays') = UsersOf(srelays) \ {s.user}
    BY <1>3, <1>6
  <2> QED BY <1>1, <1>4, <2>1, HangsUp
<1>7. CASE srelays' = srelays \cup {s}
  <2>1. UsersOf(srelays') = UsersOf(srelays) \cup {s.user}
    BY <1>7, UsersAdded
  <2> QED BY <1>1, <1>4, <1>5, <2>1, Joins
<1> QED BY <1>1, <1>6, <1>7

LEMMA ClientRelayEndsServed ==
    ASSUME Inv, UserInv, NEW s, ClientRelayEnds(s)
    PROVE  Service!Next
<1>1. /\ s \in crelays /\ crelays' = crelays \ {s}
      /\ UNCHANGED <<pending, starting, srelays, seen, dialled>>
  BY DEF ClientRelayEnds, svars, history
<1>2. UsersOf(crelays') = UsersOf(crelays) \ {s.user} /\ s.user \in UsersOf(crelays)
  BY <1>1, UsersRemoved DEF UserInv
<1> QED BY <1>1, <1>2, EndsLocally

LEMMA DialServed ==
    ASSUME Inv, UserInv, LocalRefused \/ LocalConnected
    PROVE  Service!Next \/ UNCHANGED <<Ext, Loc>>
<1>1. PICK s, m, R :
        /\ s \in dialing /\ DialEnds(s, m, R) /\ (R = crelays \/ R = crelays \cup {s})
        /\ \/ dialled' = dialled /\ R = crelays
           \/ dialled' = dialled \cup {s.user}
  BY Dialled
<1>2. crelays' = R /\ UNCHANGED <<pending, starting, srelays, seen>>
  BY <1>1 DEF DialEnds
<1>3. s.user \in UsersOf(dialing)
  BY <1>1 DEF UsersOf
<1>4. s.user \in seen /\ s.user \notin dialled
  BY <1>3 DEF UserInv, Apart
<1>5. CASE dialled' = dialled /\ R = crelays
  BY <1>2, <1>5 DEF Ext, Loc, Waiting
<1>6. CASE dialled' = dialled \cup {s.user}
  <2>1. \/ UsersOf(crelays') = UsersOf(crelays)
        \/ UsersOf(crelays') = UsersOf(crelays) \cup {s.user}
    BY <1>1, <1>2, UsersAdded
  <2> QED BY <1>2, <1>4, <1>6, <2>1, Dials
<1> QED BY <1>1, <1>5, <1>6

LEMMA ExpirePendingServed ==
    ASSUME Inv, UserInv, NEW u \in Users, ExpirePending(u)
    PROVE  Service!Next
<1>1. /\ u \in Elements(pending) /\ Elements(pending') = Elements(pending) \ {u}
      /\ UNCHANGED <<starting, srelays, crelays, seen, dialled>>
  BY ExpiredUser
<1>2. u \notin UsersOf(starting) /\ u \notin UsersOf(srelays)
  BY <1>1 DEF UserInv, AtUsers, Apart
<1>3. u \in Waiting /\ Waiting' = Waiting \ {u} /\ UsersOf(srelays') = UsersOf(srelays) \ {u}
  BY <1>1, <1>2, MappedNext DEF Waiting
<1> QED BY <1>1, <1>3, HangsUp

\* Every step of the tunnel is one of StreamService or changes no user's
\* connections.
LEMMA StepServed == Inv /\ UserInv /\ Quiet /\ [Next]_vars => [Service!Next]_(Service!vars)
<1> SUFFICES ASSUME Inv, UserInv, Quiet, [Next]_vars PROVE [Service!Next]_(Service!vars)
  OBVIOUS
<1>1. SUFFICES Service!Next \/ UNCHANGED <<Ext, Loc>>
  BY DEF Service!vars, Ext, Loc, Waiting, ExtOf, LocOf
<1>2. CASE \/ Registered \/ RequestDropped \/ Request \/ Accept \/ UNCHANGED vars
           \/ \E w \in Conns : IdleLost(w) \/ StartStream(w) \/ IncomingClosed(w) \/ Break(w)
  <2>1. UNCHANGED <<pending, starting, srelays, crelays, seen, dialled>>
    BY <1>2 DEF Registered, RequestDropped, Request, Accept, IdleLost, StartStream, IncomingClosed,
                Break, vars, cvars, svars, net, history
  <2> QED BY <2>1 DEF Ext, Loc, Waiting
<1>3. CASE LocalRefused \/ LocalConnected
  BY <1>3, DialServed
<1>4. CASE ClientEnds \/ ServerEnds
  BY <1>4, ClientEndsServed, ServerEndsServed
<1>5. CASE \/ \E s \in crelays : ClientRelayEnds(s)
           \/ \E s \in srelays : ServerRelayEnds(s)
  BY <1>5, ClientRelayEndsServed, ServerRelayEndsServed
<1>6. CASE \/ \E s \in starting : StartingReady(s) \/ StartingFails(s)
           \/ \E u \in Users : ExpireStarting(u)
  BY <1>6, StartingReadyServed, DropStartingServed DEF StartingFails, ExpireStarting
<1>7. CASE \/ \E u \in Users : ServiceAccept(u) \/ ExpirePending(u)
           \/ \E w \in Conns : Bind(w)
  BY <1>7, ServiceAcceptServed, ExpirePendingServed, BindServed
<1> QED BY <1>2, <1>3, <1>4, <1>5, <1>6, <1>7 DEF Next

LEMMA StartServed == Init => Service!Init
<1> SUFFICES ASSUME Init PROVE Service!Init
  OBVIOUS
<1>1. /\ Elements(pending) = {} /\ UsersOf(starting) = {} /\ UsersOf(srelays) = {}
      /\ UsersOf(crelays) = {} /\ seen = {} /\ dialled = {}
  BY EmptyElements, UsersOfNone DEF Init
<1> QED BY <1>1 DEF Service!Init

\* Where starting[] has room for every stream the limits admit, the tunnel
\* does for its users only what StreamService says: each is admitted once and
\* dialled for at most once, and joined only while it waits and after the
\* dial succeeded, whatever requests, connections and deadlines do.  (The
\* fairness of ServesUsers is left to the run.)
THEOREM UsersServedSafely ==
    ASSUME StreamLimit <= MAX_PENDING
    PROVE  Spec => Service!Init /\ [][Service!Next]_(Service!vars)
<1>1. Inv /\ Inv' /\ Quiet /\ Awaited /\ [Next]_vars => Quiet' /\ Awaited'
  BY StepQuiet
<1>2. Inv /\ UserInv /\ Quiet /\ [Next]_vars => [Service!Next]_(Service!vars)
  BY StepServed
<1> QED BY <1>1, <1>2, AlwaysInv, StartQuiet, StartUsers, StepUsers, StartServed, PTL DEF Spec
==============================================================================
